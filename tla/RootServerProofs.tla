-------------------------- MODULE RootServerProofs --------------------------
(***************************************************************************)
(* Theorems about RootServer, for every set of paths and contents, every   *)
(* choice of faults and every bound.                                       *)
(*                                                                         *)
(* The invariant of RootServerInvariant is proved part by part, each from  *)
(* those before it: the types; for every action a lemma that lists what it *)
(* leaves alone and what it says of the rest; who holds the gate; what is  *)
(* known of each file, no newer than the file; evidence, passes and cache. *)
(* RootServerOwedProofs has the last part, what is owed.  The theorems are *)
(* at the end.                                                             *)
(***************************************************************************)
EXTENDS RootServerInvariant, TLAPS

\* What the callers of BeginPass share.
LEMMA BeginsShare ==
  Begins \/ PeriodicPass =>
    /\ GateFree
    /\ \E by \in {"startup", "ignore", "overflow", "deferred", "periodic", "build", "catchup"},
          member \in BOOLEAN :
         pass' = [NoPass EXCEPT !.by = by, !.at = "walk", !.member = member, !.left = Paths]
    /\ \/ catchUp' = FALSE /\ dirty' = FALSE
       \/ UNCHANGED <<catchUp, dirty>>
    /\ overflowed' = FALSE \/ UNCHANGED overflowed
    /\ reconcile' = FALSE \/ UNCHANGED reconcile
    /\ Request \/ UNCHANGED requests
    /\ UNCHANGED <<file, queue, watched, index, memo, indexing, pending, hiddenComplete,
                   scheduled, ignore, recheck, polling, deferred, act, replays, startup,
                   build, searches, faults, excused>>
<1> USE DEF BeginPass, notices, due, bounds
<1>1. CASE StartupPass
  BY <1>1, Zenon DEF StartupPass
<1>2. CASE IgnorePass
  BY <1>2, Zenon DEF IgnorePass
<1>3. CASE OverflowPass
  BY <1>3, Zenon DEF OverflowPass
<1>4. CASE DeferredPass
  BY <1>4, Zenon DEF DeferredPass
<1>5. CASE BuildPass
  BY <1>5, Zenon DEF BuildPass
<1>6. CASE ReloadPass
  BY <1>6, Zenon DEF ReloadPass
<1>7. CASE PeriodicPass
  BY <1>7, Zenon DEF PeriodicPass
<1> QED
  BY <1>1, <1>2, <1>3, <1>4, <1>5, <1>6, <1>7 DEF Begins

\* A look at a file asks for a refresh, or leaves the flags alone.
LEMMA LooksLeaveFlags ==
  ASSUME NEW a \in Actors, Open(a) \/ Verify(a)
  PROVE  /\ UNCHANGED refreshes \/ (dirty' = TRUE /\ Schedule)
         /\ UNCHANGED <<file, notices, watched, memo, flags, polling, deferred, replays,
                        due, pass, build>>
<1>1. CASE Open(a)
  BY <1>1, Zenon DEF Open, RetryLater
<1>2. CASE Verify(a)
  BY <1>2, Zenon DEF Verify, RetryLater
<1> QED
  BY <1>1, <1>2

\* TypeOK and ThreadsOK part by part: the files,
FilesOK ==
  /\ disk \in [Paths -> Copies \cup {None}] /\ clock \in Versions
  /\ queue \subseteq Paths

\* The types of the files and of their events,
LEMMA TypeFiles == TypeOK /\ ThreadsOK /\ [Next]_vars => FilesOK'
<1> SUFFICES ASSUME TypeOK, ThreadsOK, [Next]_vars
             PROVE  FilesOK'
  OBVIOUS
<1> USE BoundsAssumption DEF TypeOK, FilesOK, Versions
<1>0. ASSUME UNCHANGED <<clock, disk, queue>> PROVE FilesOK'
  BY <1>0
<1>1. CASE UNCHANGED vars
  <2>1. UNCHANGED <<clock, disk, queue>>
    BY <1>1 DEF vars, file, notices
  <2> QED
    BY <1>0, <2>1
<1>2. CASE Environment
  <2>1. ASSUME NEW p \in Paths, NEW d \in Contents, Write(p, d) PROVE FilesOK'
    BY <2>1, SMT DEF Write, Notify, notices, Copies
  <2>2. ASSUME NEW p \in Paths, Remove(p) PROVE FilesOK'
    BY <2>2, SMT DEF Remove, Notify, notices, Copies
  <2>3. ASSUME RulesEvent \/ TurnToPolling \/ BeginReload \/ PeriodicPass \/ BeginSave \/
               (\E p \in Paths : Admit(p))
        PROVE  FilesOK'
    <3>1. UNCHANGED <<clock, disk, queue>>
      BY <2>3, Zenon DEF RulesEvent, TurnToPolling, BeginReload, PeriodicPass, BeginPass,
         BeginSave, Admit,
          SearchFrame, file, notices
    <3> QED
      BY <1>0, <3>1
  <2> QED
    BY <1>2, <2>1, <2>2, <2>3 DEF Environment
<1>3. CASE Checkpoint
  <2>1. UNCHANGED <<clock, disk, queue>>
    BY <1>3, Zenon DEF Checkpoint, file, notices
  <2> QED
    BY <1>0, <2>1
<1>4. CASE Events
  <2>1. ASSUME NEW p \in Paths, TakeEvent(p) PROVE FilesOK'
    BY <2>1, SMT DEF TakeEvent, file, notices
  <2>2. ASSUME (\E p \in Paths : ReplayEvent(p)) \/ (\E a \in Actors : Defer(a)) \/ (\E a
               \in Actors : Enter(a)) \/ (\E a \in Actors : DropGone(a)) \/ (\E a \in Actors
               : Open(a)) \/ (\E a \in Actors : Verify(a))
        PROVE  FilesOK'
    <3>1. UNCHANGED <<clock, disk, queue>>
      BY <2>2, Zenon DEF ReplayEvent, Defer, Enter, DropGone, Open, Verify, file, notices
    <3> QED
      BY <1>0, <3>1
  <2> QED
    BY <1>4, <2>1, <2>2 DEF Events
<1>5. CASE Recovering
  <2>1. ASSUME RecoveryReplays \/ RecoveryScans \/ (\E p \in Paths : ScanOne(p)) \/
               RecoveryEnds
        PROVE  FilesOK'
    <3>1. UNCHANGED <<clock, disk, queue>>
      BY <2>1, Zenon DEF RecoveryReplays, RecoveryScans, ScanOne, RecoveryEnds, file,
         notices
    <3> QED
      BY <1>0, <3>1
  <2> QED
    BY <1>5, <2>1 DEF Recovering
<1>6. CASE Ignoring
  <2>1. ASSUME IgnoreChecks \/ IgnoreWaits \/ IgnoreClears \/ IgnoreRechecks
        PROVE  FilesOK'
    <3>1. UNCHANGED <<clock, disk, queue>>
      BY <2>1, Zenon DEF IgnoreChecks, IgnoreWaits, IgnoreClears, IgnoreRechecks, file,
         notices
    <3> QED
      BY <1>0, <3>1
  <2> QED
    BY <1>6, <2>1 DEF Ignoring
<1>7. CASE Begins
  <2>1. ASSUME StartupPass \/ IgnorePass \/ OverflowPass \/ DeferredPass \/ BuildPass \/
               ReloadPass
        PROVE  FilesOK'
    <3>1. UNCHANGED <<clock, disk, queue>>
      BY <2>1, Zenon DEF StartupPass, BeginPass, IgnorePass, OverflowPass, DeferredPass,
         BuildPass,
          ReloadPass, file, notices
    <3> QED
      BY <1>0, <3>1
  <2> QED
    BY <1>7, <2>1 DEF Begins
<1>8. CASE Passing
  <2>1. ASSUME (\E p \in Paths : Walk(p)) \/ (\E p \in Paths : Read(p)) \/ (\E p \in Paths :
               PassScans(p)) \/ Classify \/ Publish \/ EndPass \/ StartupYields
        PROVE  FilesOK'
    <3>1. UNCHANGED <<clock, disk, queue>>
      BY <2>1, Zenon DEF Walk, Read, PassScans, Classify, Publish, EndPass,
         StartupYields, file, notices
    <3> QED
      BY <1>0, <3>1
  <2> QED
    BY <1>8, <2>1 DEF Passing
<1>9. CASE Building
  <2>1. ASSUME (\E p \in Paths : BuildRead(p)) \/ BuildPublish \/ BuildFails \/ BuildEnds
        PROVE  FilesOK'
    <3>1. UNCHANGED <<clock, disk, queue>>
      BY <2>1, Zenon DEF BuildRead, BuildPublish, BuildFails, BuildEnds, file, notices
    <3> QED
      BY <1>0, <3>1
  <2> QED
    BY <1>9, <2>1 DEF Building
<1>10. CASE Reloading
  <2>1. ASSUME ReloadPublish \/ ReloadFails \/ ReloadReplays \/ ReloadRests
        PROVE  FilesOK'
    <3>1. UNCHANGED <<clock, disk, queue>>
      BY <2>1, Zenon DEF ReloadPublish, ReloadFails, ReloadReplays, ReloadRests, file,
         notices
    <3> QED
      BY <1>0, <3>1
  <2> QED
    BY <1>10, <2>1 DEF Reloading
<1>11. CASE Searching
  <2>1. ASSUME Load \/ ReadFile \/ UpdateCache
        PROVE  FilesOK'
    <3>1. UNCHANGED <<clock, disk, queue>>
      BY <2>1, Zenon DEF Load, SearchFrame, ReadFile, UpdateCache, file, notices
    <3> QED
      BY <1>0, <3>1
  <2> QED
    BY <1>11, <2>1 DEF Searching
<1> QED
  BY <1>1, <1>2, <1>3, <1>4, <1>5, <1>6, <1>7, <1>8, <1>9, <1>10, <1>11 DEF Next, Progress

\* the flags,
FlagsOK ==
  /\ overflowed \in BOOLEAN /\ watched \in BOOLEAN /\ indexing \in BOOLEAN
  /\ pending \in BOOLEAN /\ catchUp \in BOOLEAN /\ hiddenComplete \in BOOLEAN
  /\ dirty \in BOOLEAN /\ scheduled \in BOOLEAN /\ recheck \in BOOLEAN
  /\ polling \in BOOLEAN /\ startup \in BOOLEAN /\ reconcile \in BOOLEAN

\* of the flags,
LEMMA TypeFlags == TypeOK /\ ThreadsOK /\ [Next]_vars => FlagsOK'
<1> SUFFICES ASSUME TypeOK, ThreadsOK, [Next]_vars
             PROVE  FlagsOK'
  OBVIOUS
<1>b. FlagsOK
  BY Zenon DEF TypeOK, FlagsOK
<1> USE <1>b DEF FlagsOK
<1>0. ASSUME UNCHANGED <<catchUp, dirty, hiddenComplete, indexing, overflowed,
                              pending, polling, recheck, reconcile, scheduled, startup,
                              watched>> PROVE FlagsOK'
  BY <1>0
<1>1. CASE UNCHANGED vars
  <2>1. UNCHANGED <<catchUp, dirty, hiddenComplete, indexing, overflowed, pending, polling,
                  recheck, reconcile, scheduled, startup, watched>>
    BY <1>1 DEF vars, notices, flags, refreshes, due
  <2> QED
    BY <1>0, <2>1
<1>2. CASE Environment
  <2>1. ASSUME PeriodicPass PROVE FlagsOK'
    <3>1. catchUp' \in BOOLEAN /\ dirty' \in BOOLEAN
      BY <2>1, BeginsShare, Zenon
    <3>2. overflowed' \in BOOLEAN /\ reconcile' \in BOOLEAN
      BY <2>1, BeginsShare, Zenon
    <3>3. UNCHANGED <<watched, indexing, pending, hiddenComplete, scheduled, recheck,
                      polling, startup>>
      BY <2>1, BeginsShare, Zenon
    <3> QED
      BY <3>1, <3>2, <3>3, Zenon
  <2>2. ASSUME NEW p \in Paths, NEW d \in Contents, Write(p, d) PROVE FlagsOK'
    <3>1. overflowed' \in BOOLEAN
      BY <2>2, Zenon DEF Write, Notify, notices, index, flags, refreshes, replays,
         searches, due, bounds
    <3>2. UNCHANGED <<watched, indexing, pending, catchUp, hiddenComplete, dirty,
                     scheduled, recheck, polling, startup, reconcile>>
      BY <2>2, Zenon DEF Write, Notify, notices, index, flags, refreshes, replays,
         searches, due, bounds
    <3> QED
      BY <3>1, <3>2, Zenon
  <2>3. ASSUME NEW p \in Paths, Remove(p) PROVE FlagsOK'
    <3>1. overflowed' \in BOOLEAN
      BY <2>3, Zenon DEF Remove, Notify, notices, index, flags, refreshes, replays,
         searches, due, bounds
    <3>2. UNCHANGED <<watched, indexing, pending, catchUp, hiddenComplete, dirty,
                     scheduled, recheck, polling, startup, reconcile>>
      BY <2>3, Zenon DEF Remove, Notify, notices, index, flags, refreshes, replays,
         searches, due, bounds
    <3> QED
      BY <3>1, <3>2, Zenon
  <2>4. ASSUME RulesEvent PROVE FlagsOK'
    <3>1. dirty' \in BOOLEAN /\ scheduled' \in BOOLEAN
      BY <2>4, Zenon DEF RulesEvent, Request, Schedule, file, notices, index, flags,
         refreshes, replays, searches, due, bounds
    <3>2. UNCHANGED <<overflowed, watched, indexing, pending, catchUp, hiddenComplete,
                     recheck, polling, startup, reconcile>>
      BY <2>4, Zenon DEF RulesEvent, Request, Schedule, file, notices, index, flags,
         refreshes, replays, searches, due, bounds
    <3> QED
      BY <3>1, <3>2, Zenon
  <2>5. ASSUME TurnToPolling PROVE FlagsOK'
    <3>1. catchUp' \in BOOLEAN /\ polling' \in BOOLEAN
      BY <2>5, Zenon DEF TurnToPolling, file, notices, index, flags, refreshes, replays,
         searches, due, bounds
    <3>2. UNCHANGED <<overflowed, watched, indexing, pending, hiddenComplete, dirty,
                     scheduled, recheck, startup, reconcile>>
      BY <2>5, Zenon DEF TurnToPolling, file, notices, index, flags, refreshes, replays,
         searches, due, bounds
    <3> QED
      BY <3>1, <3>2, Zenon
  <2>6. ASSUME BeginReload PROVE FlagsOK'
    <3>1. indexing' \in BOOLEAN
      BY <2>6, Zenon DEF BeginReload, Request, file, notices, index, flags, refreshes,
         replays, searches, due, bounds
    <3>2. UNCHANGED <<overflowed, watched, pending, catchUp, hiddenComplete, dirty,
                     scheduled, recheck, polling, startup, reconcile>>
      BY <2>6, Zenon DEF BeginReload, Request, file, notices, index, flags, refreshes,
         replays, searches, due, bounds
    <3> QED
      BY <3>1, <3>2, Zenon
  <2>7. ASSUME BeginSave \/ (\E p \in Paths : Admit(p))
        PROVE  FlagsOK'
    <3>1. UNCHANGED <<catchUp, dirty, hiddenComplete, indexing, overflowed, pending,
                    polling, recheck, reconcile, scheduled, startup, watched>>
      BY <2>7, Zenon DEF BeginSave, Admit, SearchFrame, notices, flags, refreshes, due
    <3> QED
      BY <1>0, <3>1
  <2> QED
    BY <1>2, <2>1, <2>2, <2>3, <2>4, <2>5, <2>6, <2>7 DEF Environment
<1>3. CASE Checkpoint
    <2>1. hiddenComplete' \in BOOLEAN
      BY <1>3, Zenon DEF Checkpoint, file, notices, index, flags, refreshes, replays,
         searches, due, bounds
    <2>2. UNCHANGED <<overflowed, watched, indexing, pending, catchUp, dirty, scheduled,
                     recheck, polling, startup, reconcile>>
      BY <1>3, Zenon DEF Checkpoint, file, notices, index, flags, refreshes, replays,
         searches, due, bounds
    <2> QED
      BY <2>1, <2>2, Zenon
<1>4. CASE Events
  <2>1. ASSUME NEW a \in Actors, Open(a) PROVE FlagsOK'
    <3>1. dirty' \in BOOLEAN /\ scheduled' \in BOOLEAN
      BY <2>1, LooksLeaveFlags, Zenon DEF Schedule, file, notices, flags, refreshes,
         replays, due
    <3>2. UNCHANGED <<overflowed, watched, indexing, pending, catchUp, hiddenComplete,
                     recheck, polling, startup, reconcile>>
      BY <2>1, LooksLeaveFlags, Zenon DEF Schedule, file, notices, flags, refreshes,
         replays, due
    <3> QED
      BY <3>1, <3>2, Zenon
  <2>2. ASSUME NEW a \in Actors, Verify(a) PROVE FlagsOK'
    <3>1. dirty' \in BOOLEAN /\ scheduled' \in BOOLEAN
      BY <2>2, LooksLeaveFlags, Zenon DEF Schedule, file, notices, flags, refreshes,
         replays, due
    <3>2. UNCHANGED <<overflowed, watched, indexing, pending, catchUp, hiddenComplete,
                     recheck, polling, startup, reconcile>>
      BY <2>2, LooksLeaveFlags, Zenon DEF Schedule, file, notices, flags, refreshes,
         replays, due
    <3> QED
      BY <3>1, <3>2, Zenon
  <2>3. ASSUME (\E p \in Paths : TakeEvent(p)) \/ (\E p \in Paths : ReplayEvent(p)) \/ (\E a
               \in Actors : Defer(a)) \/ (\E a \in Actors : Enter(a)) \/ (\E a \in Actors :
               DropGone(a))
        PROVE  FlagsOK'
    <3>1. UNCHANGED <<catchUp, dirty, hiddenComplete, indexing, overflowed, pending,
                    polling, recheck, reconcile, scheduled, startup, watched>>
      BY <2>3, Zenon DEF TakeEvent, ReplayEvent, Defer, Enter, DropGone, notices, flags,
         refreshes, due
    <3> QED
      BY <1>0, <3>1
  <2> QED
    BY <1>4, <2>1, <2>2, <2>3 DEF Events
<1>5. CASE Recovering
  <2>1. ASSUME RecoveryReplays PROVE FlagsOK'
    <3>1. reconcile' \in BOOLEAN
      BY <2>1, Zenon DEF RecoveryReplays, Replay, file, notices, index, flags, refreshes,
         replays, searches, due, bounds
    <3>2. UNCHANGED <<overflowed, watched, indexing, pending, catchUp, hiddenComplete,
                     dirty, scheduled, recheck, polling, startup>>
      BY <2>1, Zenon DEF RecoveryReplays, Replay, file, notices, index, flags, refreshes,
         replays, searches, due, bounds
    <3> QED
      BY <3>1, <3>2, Zenon
  <2>2. ASSUME RecoveryScans \/ (\E p \in Paths : ScanOne(p)) \/ RecoveryEnds
        PROVE  FlagsOK'
    <3>1. UNCHANGED <<catchUp, dirty, hiddenComplete, indexing, overflowed, pending,
                    polling, recheck, reconcile, scheduled, startup, watched>>
      BY <2>2, Zenon DEF RecoveryScans, ScanOne, RecoveryEnds, notices, flags, refreshes,
         due
    <3> QED
      BY <1>0, <3>1
  <2> QED
    BY <1>5, <2>1, <2>2 DEF Recovering
<1>6. CASE Ignoring
  <2>1. ASSUME IgnoreChecks PROVE FlagsOK'
    <3>1. dirty' \in BOOLEAN /\ scheduled' \in BOOLEAN
      BY <2>1, Zenon DEF IgnoreChecks, file, notices, index, flags, refreshes, replays,
         searches, due, bounds
    <3>2. UNCHANGED <<overflowed, watched, indexing, pending, catchUp, hiddenComplete,
                     recheck, polling, startup, reconcile>>
      BY <2>1, Zenon DEF IgnoreChecks, file, notices, index, flags, refreshes, replays,
         searches, due, bounds
    <3> QED
      BY <3>1, <3>2, Zenon
  <2>2. ASSUME IgnoreWaits PROVE FlagsOK'
    <3>1. scheduled' \in BOOLEAN
      BY <2>2, Zenon DEF IgnoreWaits, file, notices, index, flags, refreshes, replays,
         searches, due, bounds
    <3>2. UNCHANGED <<overflowed, watched, indexing, pending, catchUp, hiddenComplete,
                     dirty, recheck, polling, startup, reconcile>>
      BY <2>2, Zenon DEF IgnoreWaits, file, notices, index, flags, refreshes, replays,
         searches, due, bounds
    <3> QED
      BY <3>1, <3>2, Zenon
  <2>3. ASSUME IgnoreClears PROVE FlagsOK'
    <3>1. scheduled' \in BOOLEAN /\ recheck' \in BOOLEAN
      BY <2>3, Zenon DEF IgnoreClears, file, notices, index, flags, refreshes, replays,
         searches, due, bounds
    <3>2. UNCHANGED <<overflowed, watched, indexing, pending, catchUp, hiddenComplete,
                     dirty, polling, startup, reconcile>>
      BY <2>3, Zenon DEF IgnoreClears, file, notices, index, flags, refreshes, replays,
         searches, due, bounds
    <3> QED
      BY <3>1, <3>2, Zenon
  <2>4. ASSUME IgnoreRechecks PROVE FlagsOK'
    <3>1. scheduled' \in BOOLEAN /\ recheck' \in BOOLEAN
      BY <2>4, Zenon DEF IgnoreRechecks, file, notices, index, flags, refreshes, replays,
         searches, due, bounds
    <3>2. UNCHANGED <<overflowed, watched, indexing, pending, catchUp, hiddenComplete,
                     dirty, polling, startup, reconcile>>
      BY <2>4, Zenon DEF IgnoreRechecks, file, notices, index, flags, refreshes, replays,
         searches, due, bounds
    <3> QED
      BY <3>1, <3>2, Zenon
  <2> QED
    BY <1>6, <2>1, <2>2, <2>3, <2>4 DEF Ignoring
<1>7. CASE Begins
  <2>1. ASSUME Begins PROVE FlagsOK'
    <3>1. catchUp' \in BOOLEAN /\ dirty' \in BOOLEAN
      BY <2>1, BeginsShare, Zenon
    <3>2. overflowed' \in BOOLEAN /\ reconcile' \in BOOLEAN
      BY <2>1, BeginsShare, Zenon
    <3>3. UNCHANGED <<watched, indexing, pending, hiddenComplete, scheduled, recheck,
                      polling, startup>>
      BY <2>1, BeginsShare, Zenon
    <3> QED
      BY <3>1, <3>2, <3>3, Zenon
  <2> QED
    BY <1>7, <2>1
<1>8. CASE Passing
  <2>1. ASSUME Classify PROVE FlagsOK'
    <3>1. watched' \in BOOLEAN /\ pending' \in BOOLEAN /\ hiddenComplete' \in BOOLEAN
      BY <2>1, Zenon DEF Classify, file, notices, index, flags, refreshes, replays,
         searches, due, bounds
    <3>2. UNCHANGED <<overflowed, indexing, catchUp, dirty, scheduled, recheck, polling,
                     startup, reconcile>>
      BY <2>1, Zenon DEF Classify, file, notices, index, flags, refreshes, replays,
         searches, due, bounds
    <3> QED
      BY <3>1, <3>2, Zenon
  <2>2. ASSUME Publish PROVE FlagsOK'
    <3>1. hiddenComplete' \in BOOLEAN
      BY <2>2, Zenon DEF Publish, file, notices, flags, refreshes, replays, due, bounds
    <3>2. UNCHANGED <<overflowed, watched, indexing, pending, catchUp, dirty, scheduled,
                     recheck, polling, startup, reconcile>>
      BY <2>2, Zenon DEF Publish, file, notices, flags, refreshes, replays, due, bounds
    <3> QED
      BY <3>1, <3>2, Zenon
  <2>3. ASSUME EndPass PROVE FlagsOK'
    <3>1. overflowed' \in BOOLEAN /\ dirty' \in BOOLEAN /\ startup' \in BOOLEAN
      BY <2>3, Zenon DEF EndPass, file, notices, index, flags, refreshes, replays,
         searches, due, bounds
    <3>2. UNCHANGED <<watched, indexing, pending, catchUp, hiddenComplete, scheduled,
                     recheck, polling, reconcile>>
      BY <2>3, Zenon DEF EndPass, file, notices, index, flags, refreshes, replays,
         searches, due, bounds
    <3> QED
      BY <3>1, <3>2, Zenon
  <2>4. ASSUME StartupYields PROVE FlagsOK'
    <3>1. startup' \in BOOLEAN
      BY <2>4, Zenon DEF StartupYields, file, notices, index, flags, refreshes, replays,
         searches, due, bounds
    <3>2. UNCHANGED <<overflowed, watched, indexing, pending, catchUp, hiddenComplete,
                     dirty, scheduled, recheck, polling, reconcile>>
      BY <2>4, Zenon DEF StartupYields, file, notices, index, flags, refreshes, replays,
         searches, due, bounds
    <3> QED
      BY <3>1, <3>2, Zenon
  <2>5. ASSUME (\E p \in Paths : Walk(p)) \/ (\E p \in Paths : Read(p)) \/ (\E p \in Paths :
               PassScans(p))
        PROVE  FlagsOK'
    <3>1. UNCHANGED <<catchUp, dirty, hiddenComplete, indexing, overflowed, pending,
                    polling, recheck, reconcile, scheduled, startup, watched>>
      BY <2>5, Zenon DEF Walk, Read, PassScans, notices, flags, refreshes, due
    <3> QED
      BY <1>0, <3>1
  <2> QED
    BY <1>8, <2>1, <2>2, <2>3, <2>4, <2>5 DEF Passing
<1>9. CASE Building
  <2>1. ASSUME BuildPublish PROVE FlagsOK'
    <3>1. watched' \in BOOLEAN /\ pending' \in BOOLEAN /\ hiddenComplete' \in BOOLEAN
      BY <2>1, Zenon DEF BuildPublish, file, notices, flags, refreshes, replays, due, bounds
    <3>2. UNCHANGED <<overflowed, indexing, catchUp, dirty, scheduled, recheck, polling,
                     startup, reconcile>>
      BY <2>1, Zenon DEF BuildPublish, file, notices, flags, refreshes, replays, due, bounds
    <3> QED
      BY <3>1, <3>2, Zenon
  <2>2. ASSUME BuildEnds PROVE FlagsOK'
    <3>1. indexing' \in BOOLEAN /\ hiddenComplete' \in BOOLEAN /\ scheduled' \in BOOLEAN
      BY <2>2, Zenon DEF BuildEnds, Schedule, file, notices, index, flags, refreshes,
         replays, searches, due, bounds
    <3>2. UNCHANGED <<overflowed, watched, pending, catchUp, dirty, recheck, polling,
                     startup, reconcile>>
      BY <2>2, Zenon DEF BuildEnds, Schedule, file, notices, index, flags, refreshes,
         replays, searches, due, bounds
    <3> QED
      BY <3>1, <3>2, Zenon
  <2>3. ASSUME (\E p \in Paths : BuildRead(p)) \/ BuildFails
        PROVE  FlagsOK'
    <3>1. UNCHANGED <<catchUp, dirty, hiddenComplete, indexing, overflowed, pending,
                    polling, recheck, reconcile, scheduled, startup, watched>>
      BY <2>3, Zenon DEF BuildRead, BuildFails, notices, flags, refreshes, due
    <3> QED
      BY <1>0, <3>1
  <2> QED
    BY <1>9, <2>1, <2>2, <2>3 DEF Building
<1>10. CASE Reloading
  <2>1. ASSUME ReloadPublish PROVE FlagsOK'
    <3>1. watched' \in BOOLEAN /\ indexing' \in BOOLEAN /\ pending' \in BOOLEAN /\ hiddenComplete' \in BOOLEAN
      BY <2>1, Zenon DEF ReloadPublish, file, notices, flags, refreshes, replays, due,
         bounds
    <3>2. UNCHANGED <<overflowed, catchUp, dirty, scheduled, recheck, polling, startup,
                     reconcile>>
      BY <2>1, Zenon DEF ReloadPublish, file, notices, flags, refreshes, replays, due,
         bounds
    <3> QED
      BY <3>1, <3>2, Zenon
  <2>2. ASSUME ReloadFails PROVE FlagsOK'
    <3>1. indexing' \in BOOLEAN
      BY <2>2, Zenon DEF ReloadFails, file, notices, index, flags, refreshes, replays,
         searches, due, bounds
    <3>2. UNCHANGED <<overflowed, watched, pending, catchUp, hiddenComplete, dirty,
                     scheduled, recheck, polling, startup, reconcile>>
      BY <2>2, Zenon DEF ReloadFails, file, notices, index, flags, refreshes, replays,
         searches, due, bounds
    <3> QED
      BY <3>1, <3>2, Zenon
  <2>3. ASSUME ReloadReplays PROVE FlagsOK'
    <3>1. reconcile' \in BOOLEAN
      BY <2>3, Zenon DEF ReloadReplays, Replay, file, notices, index, flags, refreshes,
         replays, searches, due, bounds
    <3>2. UNCHANGED <<overflowed, watched, indexing, pending, catchUp, hiddenComplete,
                     dirty, scheduled, recheck, polling, startup>>
      BY <2>3, Zenon DEF ReloadReplays, Replay, file, notices, index, flags, refreshes,
         replays, searches, due, bounds
    <3> QED
      BY <3>1, <3>2, Zenon
  <2>4. ASSUME ReloadRests PROVE FlagsOK'
    <3>1. scheduled' \in BOOLEAN
      BY <2>4, Zenon DEF ReloadRests, Schedule, file, notices, index, flags, refreshes,
         replays, searches, due, bounds
    <3>2. UNCHANGED <<overflowed, watched, indexing, pending, catchUp, hiddenComplete,
                     dirty, recheck, polling, startup, reconcile>>
      BY <2>4, Zenon DEF ReloadRests, Schedule, file, notices, index, flags, refreshes,
         replays, searches, due, bounds
    <3> QED
      BY <3>1, <3>2, Zenon
  <2> QED
    BY <1>10, <2>1, <2>2, <2>3, <2>4 DEF Reloading
<1>11. CASE Searching
  <2>1. ASSUME Load \/ ReadFile \/ UpdateCache
        PROVE  FlagsOK'
    <3>1. UNCHANGED <<catchUp, dirty, hiddenComplete, indexing, overflowed, pending,
                    polling, recheck, reconcile, scheduled, startup, watched>>
      BY <2>1, Zenon DEF Load, SearchFrame, ReadFile, UpdateCache, notices, flags,
         refreshes, due
    <3> QED
      BY <1>0, <3>1
  <2> QED
    BY <1>11, <2>1 DEF Searching
<1> QED
  BY <1>1, <1>2, <1>3, <1>4, <1>5, <1>6, <1>7, <1>8, <1>9, <1>10, <1>11 DEF Next, Progress

\* The buffer of deferred events has the same shape whatever it holds.
LEMMA DeferredTypes ==
  /\ Overflown \in [all : BOOLEAN, paths : SUBSET Paths]
  /\ \A S \in SUBSET Paths : Deferred(S) \in [all : BOOLEAN, paths : SUBSET Paths]
<1>1. Overflown \in [all : BOOLEAN, paths : SUBSET Paths]
  BY Zenon DEF Overflown
<1>2. ASSUME NEW S \in SUBSET Paths
      PROVE  Deferred(S) \in [all : BOOLEAN, paths : SUBSET Paths]
  BY <1>2, Zenon DEF Deferred
<1> QED
  BY <1>1, <1>2

\* the queues and phases,
QueuesOK ==
  /\ deferred \in [all : BOOLEAN, paths : SUBSET Paths]
  /\ replaying \subseteq Paths /\ scanning \subseteq Paths
  /\ recovery \in {"off", "wait", "replay", "scan"}
  /\ tail \in {"off", "replay", "failed", "rest", "last", "catchup"}
  /\ ignore \in {"off", "check", "wait", "run", "clear"}

\* of the queues and of the threads' phases,
LEMMA TypeQueues == TypeOK /\ ThreadsOK /\ [Next]_vars => QueuesOK'
<1> SUFFICES ASSUME TypeOK, ThreadsOK, [Next]_vars
             PROVE  QueuesOK'
  OBVIOUS
<1> USE DEF TypeOK, QueuesOK
<1>0. ASSUME UNCHANGED <<deferred, ignore, recovery, replaying, scanning, tail>> PROVE QueuesOK'
  BY <1>0
<1>1. CASE UNCHANGED vars
  <2>1. UNCHANGED <<deferred, ignore, recovery, replaying, scanning, tail>>
    BY <1>1 DEF vars, refreshes, replays
  <2> QED
    BY <1>0, <2>1
<1>2. CASE Environment
  <2>1. ASSUME RulesEvent PROVE QueuesOK'
    BY <2>1, SMT DEF RulesEvent, Request, Schedule, refreshes, replays, Deferred, Overflown
  <2>2. ASSUME (\E p \in Paths : \E d \in Contents : Write(p, d)) \/ (\E p \in Paths :
               Remove(p)) \/ TurnToPolling \/ BeginReload \/ PeriodicPass \/ BeginSave \/
               (\E p \in Paths : Admit(p))
        PROVE  QueuesOK'
    <3>1. UNCHANGED <<deferred, ignore, recovery, replaying, scanning, tail>>
      BY <2>2, Zenon DEF Write, Remove, TurnToPolling, BeginReload, PeriodicPass,
         BeginPass, BeginSave,
          Admit, SearchFrame, refreshes, replays
    <3> QED
      BY <1>0, <3>1
  <2> QED
    BY <1>2, <2>1, <2>2 DEF Environment
<1>3. CASE Checkpoint
  <2>1. UNCHANGED <<deferred, ignore, recovery, replaying, scanning, tail>>
    BY <1>3, Zenon DEF Checkpoint, refreshes, replays
  <2> QED
    BY <1>0, <2>1
<1>4. CASE Events
  <2>1. ASSUME NEW p \in Paths, ReplayEvent(p) PROVE QueuesOK'
    BY <2>1, SMT DEF ReplayEvent, refreshes, replays, Deferred, Overflown
  <2>2. ASSUME NEW a \in Actors, Defer(a) PROVE QueuesOK'
    <3>1. \/ deferred' = deferred \/ deferred' = Overflown
          \/ deferred' = Deferred(deferred.paths \cup {act[a].path})
      BY <2>2, Zenon DEF Defer
    <3>2. act[a].path \in Paths
      BY <2>2, SMT DEF Defer, ThreadsOK
    <3>3. deferred' \in [all : BOOLEAN, paths : SUBSET Paths]
      BY <3>1, <3>2, DeferredTypes, SMT
    <3> QED
      BY <2>2, <3>3, Zenon DEF Defer, refreshes, replays
  <2>3. ASSUME NEW a \in Actors, Open(a) PROVE QueuesOK'
    BY <2>3, LooksLeaveFlags, Zenon DEF Schedule, refreshes, replays
  <2>4. ASSUME NEW a \in Actors, Verify(a) PROVE QueuesOK'
    BY <2>4, LooksLeaveFlags, Zenon DEF Schedule, refreshes, replays
  <2>5. ASSUME (\E p \in Paths : TakeEvent(p)) \/ (\E a \in Actors : Enter(a)) \/ (\E a \in
               Actors : DropGone(a))
        PROVE  QueuesOK'
    <3>1. UNCHANGED <<deferred, ignore, recovery, replaying, scanning, tail>>
      BY <2>5, Zenon DEF TakeEvent, Enter, DropGone, refreshes, replays
    <3> QED
      BY <1>0, <3>1
  <2> QED
    BY <1>4, <2>1, <2>2, <2>3, <2>4, <2>5 DEF Events
<1>5. CASE Recovering
  <2>1. ASSUME RecoveryReplays PROVE QueuesOK'
    <3>1. deferred' = deferred \/ deferred' = Deferred({})
      BY <2>1, Zenon DEF RecoveryReplays, Replay
    <3>2. deferred' \in [all : BOOLEAN, paths : SUBSET Paths]
      BY <3>1, DeferredTypes, SMT
    <3>3. recovery' \in {"off", "replay"} /\ (scanning' = {} \/ scanning' = scanning)
      BY <2>1, Zenon DEF RecoveryReplays
    <3>4. replaying' = replaying \/ replaying' = replaying \cup deferred.paths
      BY <2>1, Zenon DEF RecoveryReplays, Replay
    <3>5. UNCHANGED <<tail, ignore>>
      BY <2>1, Zenon DEF RecoveryReplays, refreshes
    <3> QED
      BY <3>2, <3>3, <3>4, <3>5, SMT
  <2>2. ASSUME RecoveryScans PROVE QueuesOK'
    BY <2>2, SMT DEF RecoveryScans, refreshes, replays, Deferred, Overflown
  <2>3. ASSUME NEW p \in Paths, ScanOne(p) PROVE QueuesOK'
    BY <2>3, SMT DEF ScanOne, refreshes, replays, Deferred, Overflown
  <2>4. ASSUME RecoveryEnds PROVE QueuesOK'
    BY <2>4, SMT DEF RecoveryEnds, refreshes, replays, Deferred, Overflown
  <2> QED
    BY <1>5, <2>1, <2>2, <2>3, <2>4 DEF Recovering
<1>6. CASE Ignoring
  <2>1. ASSUME IgnoreChecks PROVE QueuesOK'
    BY <2>1, SMT DEF IgnoreChecks, refreshes, replays, Deferred, Overflown
  <2>2. ASSUME IgnoreWaits PROVE QueuesOK'
    BY <2>2, SMT DEF IgnoreWaits, refreshes, replays, Deferred, Overflown
  <2>3. ASSUME IgnoreClears PROVE QueuesOK'
    BY <2>3, SMT DEF IgnoreClears, refreshes, replays, Deferred, Overflown
  <2>4. ASSUME IgnoreRechecks PROVE QueuesOK'
    BY <2>4, SMT DEF IgnoreRechecks, refreshes, replays, Deferred, Overflown
  <2> QED
    BY <1>6, <2>1, <2>2, <2>3, <2>4 DEF Ignoring
<1>7. CASE Begins
  <2>1. ASSUME StartupPass \/ IgnorePass \/ OverflowPass \/ DeferredPass \/ BuildPass \/
               ReloadPass
        PROVE  QueuesOK'
    <3>1. UNCHANGED <<deferred, ignore, recovery, replaying, scanning, tail>>
      BY <2>1, Zenon DEF StartupPass, BeginPass, IgnorePass, OverflowPass, DeferredPass,
         BuildPass,
          ReloadPass, refreshes, replays
    <3> QED
      BY <1>0, <3>1
  <2> QED
    BY <1>7, <2>1 DEF Begins
<1>8. CASE Passing
  <2>1. ASSUME EndPass PROVE QueuesOK'
    BY <2>1, SMT DEF EndPass, refreshes, replays, Deferred, Overflown
  <2>2. ASSUME (\E p \in Paths : Walk(p)) \/ (\E p \in Paths : Read(p)) \/ (\E p \in Paths :
               PassScans(p)) \/ Classify \/ Publish \/ StartupYields
        PROVE  QueuesOK'
    <3>1. UNCHANGED <<deferred, ignore, recovery, replaying, scanning, tail>>
      BY <2>2, Zenon DEF Walk, Read, PassScans, Classify, Publish, StartupYields,
         refreshes, replays
    <3> QED
      BY <1>0, <3>1
  <2> QED
    BY <1>8, <2>1, <2>2 DEF Passing
<1>9. CASE Building
  <2>1. ASSUME BuildPublish PROVE QueuesOK'
    BY <2>1, SMT DEF BuildPublish, refreshes, replays, Deferred, Overflown
  <2>2. ASSUME BuildEnds PROVE QueuesOK'
    BY <2>2, SMT DEF BuildEnds, Schedule, refreshes, replays, Deferred, Overflown
  <2>3. ASSUME (\E p \in Paths : BuildRead(p)) \/ BuildFails
        PROVE  QueuesOK'
    <3>1. UNCHANGED <<deferred, ignore, recovery, replaying, scanning, tail>>
      BY <2>3, Zenon DEF BuildRead, BuildFails, refreshes, replays
    <3> QED
      BY <1>0, <3>1
  <2> QED
    BY <1>9, <2>1, <2>2, <2>3 DEF Building
<1>10. CASE Reloading
  <2>1. ASSUME ReloadPublish PROVE QueuesOK'
    BY <2>1, SMT DEF ReloadPublish, refreshes, replays, Deferred, Overflown
  <2>2. ASSUME ReloadFails PROVE QueuesOK'
    BY <2>2, SMT DEF ReloadFails, refreshes, replays, Deferred, Overflown
  <2>3. ASSUME ReloadReplays PROVE QueuesOK'
    BY <2>3, SMT DEF ReloadReplays, Replay, refreshes, replays, Deferred, Overflown
  <2>4. ASSUME ReloadRests PROVE QueuesOK'
    BY <2>4, SMT DEF ReloadRests, Schedule, refreshes, replays, Deferred, Overflown
  <2> QED
    BY <1>10, <2>1, <2>2, <2>3, <2>4 DEF Reloading
<1>11. CASE Searching
  <2>1. ASSUME Load \/ ReadFile \/ UpdateCache
        PROVE  QueuesOK'
    <3>1. UNCHANGED <<deferred, ignore, recovery, replaying, scanning, tail>>
      BY <2>1, Zenon DEF Load, SearchFrame, ReadFile, UpdateCache, refreshes, replays
    <3> QED
      BY <1>0, <3>1
  <2> QED
    BY <1>11, <2>1 DEF Searching
<1> QED
  BY <1>1, <1>2, <1>3, <1>4, <1>5, <1>6, <1>7, <1>8, <1>9, <1>10, <1>11 DEF Next, Progress

\* the bounds,
BoundsOK ==
  faults \in 0..MaxFaults /\ requests \in 0..MaxRequests /\ excused \subseteq Paths

\* and of the bounds.
LEMMA TypeBounds == TypeOK /\ ThreadsOK /\ [Next]_vars => BoundsOK'
<1> SUFFICES ASSUME TypeOK, ThreadsOK, [Next]_vars
             PROVE  BoundsOK'
  OBVIOUS
<1> USE BoundsAssumption DEF TypeOK, ThreadsOK, BoundsOK
<1>0. ASSUME UNCHANGED <<excused, faults, requests>> PROVE BoundsOK'
  BY <1>0
<1>1. CASE UNCHANGED vars
  <2>1. UNCHANGED <<excused, faults, requests>>
    BY <1>1 DEF vars, bounds
  <2> QED
    BY <1>0, <2>1
<1>2. CASE Environment
  <2>1. ASSUME PeriodicPass PROVE BoundsOK'
    <3>1. UNCHANGED <<faults, excused>> /\ (Request \/ UNCHANGED requests)
      BY <2>1, BeginsShare, Zenon
    <3> QED
      BY <3>1, SMT DEF Request
  <2>2. ASSUME RulesEvent PROVE BoundsOK'
    BY <2>2, SMT DEF RulesEvent, Request, Strike, bounds
  <2>3. ASSUME TurnToPolling PROVE BoundsOK'
    BY <2>3, SMT DEF TurnToPolling, Strike, Request, bounds
  <2>4. ASSUME BeginReload PROVE BoundsOK'
    BY <2>4, SMT DEF BeginReload, Request, Strike, bounds
  <2>5. ASSUME BeginSave PROVE BoundsOK'
    BY <2>5, SMT DEF BeginSave, Request, Strike, bounds
  <2>6. ASSUME NEW p \in Paths, Admit(p) PROVE BoundsOK'
    BY <2>6, SMT DEF Admit, SearchFrame, Request, Strike, bounds
  <2>7. ASSUME (\E p \in Paths : \E d \in Contents : Write(p, d)) \/ (\E p \in Paths :
               Remove(p))
        PROVE  BoundsOK'
    <3>1. UNCHANGED <<excused, faults, requests>>
      BY <2>7, Zenon DEF Write, Remove, bounds
    <3> QED
      BY <1>0, <3>1
  <2> QED
    BY <1>2, <2>1, <2>2, <2>3, <2>4, <2>5, <2>6, <2>7 DEF Environment
<1>3. CASE Checkpoint
  <2>1. UNCHANGED <<excused, faults, requests>>
    BY <1>3, Zenon DEF Checkpoint, bounds
  <2> QED
    BY <1>0, <2>1
<1>4. CASE Events
  <2>1. ASSUME NEW a \in Actors, Enter(a) PROVE BoundsOK'
    BY <2>1, SMT DEF Enter, Strike, Request, bounds
  <2>2. ASSUME NEW a \in Actors, DropGone(a) PROVE BoundsOK'
    BY <2>2, SMT DEF DropGone, Strike, Request, bounds
  <2>3. ASSUME NEW a \in Actors, Open(a) PROVE BoundsOK'
    BY <2>3, SMT DEF Open, Strike, Request, bounds
  <2>4. ASSUME (\E p \in Paths : TakeEvent(p)) \/ (\E p \in Paths : ReplayEvent(p)) \/ (\E a
               \in Actors : Defer(a)) \/ (\E a \in Actors : Verify(a))
        PROVE  BoundsOK'
    <3>1. UNCHANGED <<excused, faults, requests>>
      BY <2>4, Zenon DEF TakeEvent, ReplayEvent, Defer, Verify, bounds
    <3> QED
      BY <1>0, <3>1
  <2> QED
    BY <1>4, <2>1, <2>2, <2>3, <2>4 DEF Events
<1>5. CASE Recovering
  <2>1. ASSUME RecoveryReplays \/ RecoveryScans \/ (\E p \in Paths : ScanOne(p)) \/
               RecoveryEnds
        PROVE  BoundsOK'
    <3>1. UNCHANGED <<excused, faults, requests>>
      BY <2>1, Zenon DEF RecoveryReplays, RecoveryScans, ScanOne, RecoveryEnds, bounds
    <3> QED
      BY <1>0, <3>1
  <2> QED
    BY <1>5, <2>1 DEF Recovering
<1>6. CASE Ignoring
  <2>1. ASSUME IgnoreChecks \/ IgnoreWaits \/ IgnoreClears \/ IgnoreRechecks
        PROVE  BoundsOK'
    <3>1. UNCHANGED <<excused, faults, requests>>
      BY <2>1, Zenon DEF IgnoreChecks, IgnoreWaits, IgnoreClears, IgnoreRechecks, bounds
    <3> QED
      BY <1>0, <3>1
  <2> QED
    BY <1>6, <2>1 DEF Ignoring
<1>7. CASE Begins
  <2>1. ASSUME StartupPass \/ IgnorePass \/ OverflowPass \/ DeferredPass \/ BuildPass \/
               ReloadPass
        PROVE  BoundsOK'
    <3>1. UNCHANGED <<excused, faults, requests>>
      BY <2>1, Zenon DEF StartupPass, BeginPass, IgnorePass, OverflowPass, DeferredPass,
         BuildPass,
          ReloadPass, bounds
    <3> QED
      BY <1>0, <3>1
  <2> QED
    BY <1>7, <2>1 DEF Begins
<1>8. CASE Passing
  <2>1. ASSUME NEW p \in Paths, Read(p) PROVE BoundsOK'
    BY <2>1, SMT DEF Read, Strike, Request, bounds
  <2>2. ASSUME Classify PROVE BoundsOK'
    <3>1. UNCHANGED <<requests, excused>>
      BY <2>2, Zenon DEF Classify
    <3>2. UNCHANGED faults \/ Strike("walk") \/ Strike("publish")
      BY <2>2, Zenon DEF Classify
    <3> QED
      BY <3>1, <3>2, SMT DEF Strike
  <2>3. ASSUME Publish PROVE BoundsOK'
    BY <2>3, SMT DEF Publish, Strike, Request, bounds
  <2>4. ASSUME EndPass PROVE BoundsOK'
    BY <2>4, SMT DEF EndPass, Strike, Request, bounds
  <2>5. ASSUME (\E p \in Paths : Walk(p)) \/ (\E p \in Paths : PassScans(p)) \/
               StartupYields
        PROVE  BoundsOK'
    <3>1. UNCHANGED <<excused, faults, requests>>
      BY <2>5, Zenon DEF Walk, PassScans, StartupYields, bounds
    <3> QED
      BY <1>0, <3>1
  <2> QED
    BY <1>8, <2>1, <2>2, <2>3, <2>4, <2>5 DEF Passing
<1>9. CASE Building
  <2>1. ASSUME NEW p \in Paths, BuildRead(p) PROVE BoundsOK'
    BY <2>1, SMT DEF BuildRead, Strike, Request, bounds
  <2>2. ASSUME BuildFails PROVE BoundsOK'
    BY <2>2, SMT DEF BuildFails, Strike, Request, bounds
  <2>3. ASSUME BuildEnds PROVE BoundsOK'
    BY <2>3, SMT DEF BuildEnds, Strike, Request, bounds
  <2>4. ASSUME BuildPublish
        PROVE  BoundsOK'
    <3>1. UNCHANGED <<excused, faults, requests>>
      BY <2>4, Zenon DEF BuildPublish, bounds
    <3> QED
      BY <1>0, <3>1
  <2> QED
    BY <1>9, <2>1, <2>2, <2>3, <2>4 DEF Building
<1>10. CASE Reloading
  <2>1. ASSUME ReloadFails PROVE BoundsOK'
    BY <2>1, SMT DEF ReloadFails, Strike, Request, bounds
  <2>2. ASSUME ReloadPublish \/ ReloadReplays \/ ReloadRests
        PROVE  BoundsOK'
    <3>1. UNCHANGED <<excused, faults, requests>>
      BY <2>2, Zenon DEF ReloadPublish, ReloadReplays, ReloadRests, bounds
    <3> QED
      BY <1>0, <3>1
  <2> QED
    BY <1>10, <2>1, <2>2 DEF Reloading
<1>11. CASE Searching
  <2>1. ASSUME Load \/ ReadFile \/ UpdateCache
        PROVE  BoundsOK'
    <3>1. UNCHANGED <<excused, faults, requests>>
      BY <2>1, Zenon DEF Load, SearchFrame, ReadFile, UpdateCache, bounds
    <3> QED
      BY <1>0, <3>1
  <2> QED
    BY <1>11, <2>1 DEF Searching
<1> QED
  BY <1>1, <1>2, <1>3, <1>4, <1>5, <1>6, <1>7, <1>8, <1>9, <1>10, <1>11 DEF Next, Progress

-----------------------------------------------------------------------------
(* The operators that change the index, path by path.                     *)

\* A stamp is known or it is one of the sentinels, and a copy is not one.
LEMMA Sentinels ==
  /\ None # Tombstone /\ None # Unknown /\ None # Unread
  /\ Tombstone # Unknown /\ Tombstone # Unread /\ Unknown # Unread
  /\ None \notin Copies /\ Tombstone \notin Copies /\ Unknown \notin Copies
  /\ Unread \notin Copies
  /\ None \notin Versions /\ Tombstone \notin Versions /\ Unknown \notin Versions
  /\ Unread \notin Versions /\ None \notin Paths /\ None \notin Contents
  /\ Versions \subseteq Int
  /\ \A c \in Copies : c.data \in Contents /\ c.ver \in Versions
BY DistinctAssumption, BoundsAssumption, SMT DEF Versions, Copies

\* An invalidation empties the cache for S, and marks a search that is under way.
LEMMA Invalidates ==
  ASSUME TypeOK, ThreadsOK, NEW S \in SUBSET Paths, Invalidate(S)
  PROVE  /\ cache' \in [Paths -> Copies \cup {None}]
         /\ \A p \in Paths : cache'[p] = IF p \in S THEN None ELSE cache[p]
         /\ search' = search \/ search' = [search EXCEPT !.moved = TRUE]
         /\ S # {} /\ search.at # "idle" => search' = [search EXCEPT !.moved = TRUE]
<1>1. /\ cache' \in [Paths -> Copies \cup {None}]
      /\ \A p \in Paths : cache'[p] = IF p \in S THEN None ELSE cache[p]
  BY SMT DEF Invalidate, TypeOK
<1>2. /\ search' = search \/ search' = [search EXCEPT !.moved = TRUE]
      /\ S # {} /\ search.at # "idle" => search' = [search EXCEPT !.moved = TRUE]
  BY Zenon DEF Invalidate
<1> QED
  BY <1>1, <1>2

\* A dropped file is not visible, and nothing is known of it.
LEMMA Drops ==
  ASSUME TypeOK, ThreadsOK, NEW p \in Paths, Drop(p)
  PROVE  /\ reader' = reader /\ saved' = saved
         /\ overlay' \in [Paths -> Copies \cup {None, Tombstone}]
         /\ evidence' \in [Paths -> [ver : Stamp, data : Contents \cup {None}]]
         /\ \A q \in Paths \ {p} : overlay'[q] = overlay[q] /\ evidence'[q] = evidence[q]
         /\ evidence'[p] = NoStamp /\ Visible(p)' = None
         /\ \/ /\ overlay' = overlay /\ UNCHANGED searches
               /\ overlay[p] = Tombstone \/ evidence[p].ver = None
            \/ overlay'[p] = Tombstone /\ Invalidate({p})
<1> USE Sentinels DEF TypeOK, ThreadsOK
<1>1. /\ reader' = reader /\ saved' = saved
      /\ evidence' = [evidence EXCEPT ![p] = NoStamp]
      /\ \/ overlay' = [overlay EXCEPT ![p] = Tombstone] /\ Invalidate({p})
         \/ /\ overlay' = overlay /\ UNCHANGED searches
            /\ ~(overlay[p] # Tombstone /\ (Indexed(p) \/ evidence[p].ver # None))
  BY Zenon DEF Drop
<1>2. NoStamp \in [ver : Stamp, data : Contents \cup {None}]
  BY SMT DEF NoStamp, Stamp
<1>3. evidence' \in [Paths -> [ver : Stamp, data : Contents \cup {None}]]
  BY <1>1, <1>2, SMT
<1>4. overlay' \in [Paths -> Copies \cup {None, Tombstone}]
  BY <1>1, SMT
<1>5. Visible(p)' = None
  BY <1>1, SMT DEF Visible, Indexed
<1>6. \/ /\ overlay' = overlay /\ UNCHANGED searches
         /\ overlay[p] = Tombstone \/ evidence[p].ver = None
      \/ overlay'[p] = Tombstone /\ Invalidate({p})
  BY <1>1, SMT
<1> QED
  BY <1>1, <1>3, <1>4, <1>5, <1>6, SMT

\* A committed file is visible with its content, and known by its version.
LEMMA Commits ==
  ASSUME TypeOK, ThreadsOK, NEW p \in Paths, NEW copy \in Copies, Commit(p, copy)
  PROVE  /\ reader' = reader /\ saved' = saved
         /\ overlay' \in [Paths -> Copies \cup {None, Tombstone}]
         /\ evidence' \in [Paths -> [ver : Stamp, data : Contents \cup {None}]]
         /\ \A q \in Paths \ {p} : overlay'[q] = overlay[q] /\ evidence'[q] = evidence[q]
         /\ evidence'[p] = [ver |-> copy.ver, data |-> copy.data]
         /\ \/ overlay'[p] = copy
            \/ /\ overlay'[p] = overlay[p] /\ overlay[p] \in Copies
               /\ overlay[p].data = copy.data
            \/ /\ overlay'[p] = overlay[p] /\ overlay[p] = None
               /\ reader[p] # None /\ evidence[p].data = copy.data
         /\ Invalidate({p})
<1> USE Sentinels DEF TypeOK, ThreadsOK
<1>1. /\ reader' = reader /\ saved' = saved /\ Invalidate({p})
      /\ evidence' = [evidence EXCEPT ![p] = [ver |-> copy.ver, data |-> copy.data]]
      /\ \/ overlay' = [overlay EXCEPT ![p] = copy]
         \/ overlay' = overlay /\ overlay[p] \in Copies /\ overlay[p].data = copy.data
         \/ /\ overlay' = overlay /\ overlay[p] = None
            /\ reader[p] # None /\ evidence[p].data = copy.data
  BY Zenon DEF Commit
<1>2. [ver |-> copy.ver, data |-> copy.data] \in [ver : Stamp, data : Contents \cup {None}]
  BY SMT DEF Stamp
<1>3. evidence' \in [Paths -> [ver : Stamp, data : Contents \cup {None}]]
  BY <1>1, <1>2, SMT
<1>4. /\ overlay' \in [Paths -> Copies \cup {None, Tombstone}]
      /\ \A q \in Paths \ {p} : overlay'[q] = overlay[q]
      /\ \/ overlay'[p] = copy
         \/ /\ overlay'[p] = overlay[p] /\ overlay[p] \in Copies
            /\ overlay[p].data = copy.data
         \/ /\ overlay'[p] = overlay[p] /\ overlay[p] = None
            /\ reader[p] # None /\ evidence[p].data = copy.data
  <2>1. overlay' = [overlay EXCEPT ![p] = copy] \/ overlay' = overlay
    BY <1>1, Zenon
  <2>2. /\ overlay' \in [Paths -> Copies \cup {None, Tombstone}]
        /\ \A q \in Paths \ {p} : overlay'[q] = overlay[q]
    <3>1. CASE overlay' = [overlay EXCEPT ![p] = copy]
      BY <3>1, SMT
    <3>2. CASE overlay' = overlay
      BY <3>2, SMT
    <3> QED
      BY <2>1, <3>1, <3>2
  <2>3. overlay' = [overlay EXCEPT ![p] = copy] => overlay'[p] = copy
    BY SMT
  <2> QED
    BY <1>1, <2>2, <2>3, Zenon
<1> QED
  BY <1>1, <1>3, <1>4, SMT

\* A file whose read failed is known by no version, so that a walk reads it.
LEMMA Retries ==
  ASSUME TypeOK, NEW p \in Paths, RetryLater(p)
  PROVE  /\ UNCHANGED <<reader, overlay, saved, cache, search>>
         /\ evidence' \in [Paths -> [ver : Stamp, data : Contents \cup {None}]]
         /\ \A q \in Paths \ {p} : evidence'[q] = evidence[q]
         /\ evidence'[p] = [ver |-> Unknown, data |-> None]
<1>1. /\ UNCHANGED <<reader, overlay, saved, cache, search>>
      /\ evidence' = [evidence EXCEPT ![p] = [ver |-> Unknown, data |-> None]]
  BY Zenon DEF RetryLater, searches
<1>2. [ver |-> Unknown, data |-> None] \in [ver : Stamp, data : Contents \cup {None}]
  BY SMT DEF Stamp
<1> QED
  BY <1>1, <1>2, SMT DEF TypeOK

\* What a look at a file does to the index.
LEMMA Looks ==
  ASSUME TypeOK, ThreadsOK, NEW a \in Actors, Open(a) \/ Verify(a) \/ DropGone(a)
  PROVE  LET p == act[a].path
             copy == act[a].copy
         IN  /\ p \in Paths
             /\ \/ UNCHANGED <<index, searches>>
                \/ (DropGone(a) \/ disk[p] = None) /\ Drop(p)
                \/ RetryLater(p) /\ ~DropGone(a)
                \/ /\ act[a].at = "verify" /\ copy \in Copies /\ VersionOn(p) = copy.ver
                   /\ Commit(p, copy)
<1>0. act[a].path \in Paths
  BY SMT DEF ThreadsOK, Open, Verify, DropGone
<1>1. CASE Open(a)
  BY <1>0, <1>1, Zenon DEF Open, DropGone
<1>2. CASE Verify(a)
  <2>1. act[a].copy \in Copies /\ act[a].at = "verify" /\ act[a].at # "drop"
    BY <1>2, SMT DEF Verify, ThreadsOK
  <2> QED
    BY <1>0, <1>2, <2>1, Zenon DEF Verify, DropGone
<1>3. CASE DropGone(a)
  BY <1>0, <1>3, Zenon DEF DropGone
<1> QED
  BY <1>1, <1>2, <1>3

\* What a build withholds evidence for are files.
LEMMA WithheldPaths == TypeOK => Withheld \in SUBSET Paths /\ {} \in SUBSET Paths
BY SMT DEF Withheld, TypeOK

\* What a read of the whole tree found, and the evidence it leaves.
LEMMA Builds ==
  ASSUME TypeOK, ThreadsOK, NEW S \in SUBSET Paths
  PROVE  /\ Built \in [Paths -> Copies \cup {None}]
         /\ KnownOf(S) \in [Paths -> [ver : Stamp, data : Contents \cup {None}]]
         /\ Stamps(KnownOf(S)) \in [Paths -> Stamp]
<1> USE Sentinels DEF TypeOK, ThreadsOK
<1>1. Built \in [Paths -> Copies \cup {None}]
  BY SMT DEF Built
<1>2. \A p \in Paths : Built[p] # None => Built[p].data \in Contents /\ Built[p].ver \in Versions
  BY <1>1, SMT
<1>3. ASSUME NEW p \in Paths
      PROVE  KnownOf(S)[p] \in [ver : Stamp, data : Contents \cup {None}]
  BY <1>2, <1>3, SMT DEF KnownOf, NoStamp, Stamp
<1>4. KnownOf(S) \in [Paths -> [ver : Stamp, data : Contents \cup {None}]]
  BY <1>3, SMT DEF KnownOf
<1>5. Stamps(KnownOf(S)) \in [Paths -> Stamp]
  BY <1>4, SMT DEF Stamps
<1> QED
  BY <1>1, <1>4, <1>5

\* What a merge leaves.
LEMMA Merges ==
  ASSUME TypeOK, ThreadsOK
  PROVE  /\ Done \subseteq Paths
         /\ \A p \in Done : p \in pass.cand /\ pass.got[p] \in Copies \cup {None}
         /\ Merged \in [Paths -> Copies \cup {None}]
         /\ Pruned \in [Paths -> Copies \cup {None, Tombstone}]
         /\ Evidenced \in [Paths -> [ver : Stamp, data : Contents \cup {None}]]
         /\ Stamps(Evidenced) \in [Paths -> Stamp]
         /\ Memoised \in [Paths -> Stamp]
<1> USE Sentinels DEF TypeOK, ThreadsOK
<1>1. /\ Done \subseteq Paths
      /\ \A p \in Done : p \in pass.cand /\ pass.got[p] \in Copies \cup {None}
  BY SMT DEF Done, Unreadable
<1>2. Merged \in [Paths -> Copies \cup {None}]
  BY <1>1, SMT DEF Merged
<1>3. Pruned \in [Paths -> Copies \cup {None, Tombstone}]
  BY SMT DEF Pruned
<1>4. ASSUME NEW p \in Paths
      PROVE  Evidenced[p] \in [ver : Stamp, data : Contents \cup {None}]
  <2>1. Old(p) \in Stamp
    BY SMT DEF Old
  <2>2. p \in Done /\ pass.got[p] # None => pass.got[p].ver \in Versions /\ pass.got[p].data \in Contents
    BY <1>1, SMT
  <2> QED
    BY <1>4, <2>1, <2>2, SMT DEF Evidenced, NoStamp, Stamp
<1>5. Evidenced \in [Paths -> [ver : Stamp, data : Contents \cup {None}]]
  BY <1>4, SMT DEF Evidenced
<1>6. Stamps(Evidenced) \in [Paths -> Stamp]
  BY <1>5, SMT DEF Stamps
<1>7. Memoised \in [Paths -> Stamp]
  BY SMT DEF Memoised, Stamp
<1> QED
  BY <1>1, <1>2, <1>3, <1>5, <1>6, <1>7

\* the index and the cache.
IndexOK ==
  /\ reader \in [Paths -> Copies \cup {None}]
  /\ overlay \in [Paths -> Copies \cup {None, Tombstone}]
  /\ saved \in [Paths -> Stamp] /\ memo \in [Paths -> Stamp]
  /\ evidence \in [Paths -> [ver : Stamp, data : Contents \cup {None}]]
  /\ cache \in [Paths -> Copies \cup {None}]

\* So the index keeps its types.
LEMMA TypeIndex == TypeOK /\ ThreadsOK /\ [Next]_vars => IndexOK'
<1> SUFFICES ASSUME TypeOK, ThreadsOK, [Next]_vars
             PROVE  IndexOK'
  OBVIOUS
<1> USE DEF TypeOK, IndexOK
<1>0. ASSUME UNCHANGED <<cache, evidence, memo, overlay, reader, saved>> PROVE IndexOK'
  BY <1>0
<1>1. CASE UNCHANGED vars
  <2>1. UNCHANGED <<cache, evidence, memo, overlay, reader, saved>>
    BY <1>1 DEF vars, index, searches
  <2> QED
    BY <1>0, <2>1
<1>2. CASE Environment
  <2>1. ASSUME (\E p \in Paths : \E d \in Contents : Write(p, d)) \/ (\E p \in Paths :
               Remove(p)) \/ RulesEvent \/ TurnToPolling \/ BeginReload \/ PeriodicPass \/
               BeginSave \/ (\E p \in Paths : Admit(p))
        PROVE  IndexOK'
    <3>1. UNCHANGED <<cache, evidence, memo, overlay, reader, saved>>
      BY <2>1, Zenon DEF Write, Remove, RulesEvent, TurnToPolling, BeginReload,
         PeriodicPass, BeginPass,
          BeginSave, Admit, SearchFrame, index, searches
    <3> QED
      BY <1>0, <3>1
  <2> QED
    BY <1>2, <2>1 DEF Environment
<1>3. CASE Checkpoint
  <2>1. /\ reader' = Built /\ evidence' = KnownOf({}) /\ saved' = Stamps(KnownOf({}))
        /\ UNCHANGED <<overlay, memo, cache>>
    BY <1>3, Zenon DEF Checkpoint, searches
  <2> QED
    BY <2>1, WithheldPaths, Builds, SMT
<1>4. CASE Events
  <2>1. ASSUME NEW a \in Actors, DropGone(a) PROVE IndexOK'
    <3>1. memo' = memo
      BY <2>1, Zenon DEF DropGone
    <3>2. act[a].path \in Paths
      BY <2>1, Looks
    <3>3. CASE UNCHANGED <<index, searches>>
      BY <3>1, <3>3, SMT DEF index, searches
    <3>4. CASE Drop(act[a].path)
      <4>1. UNCHANGED cache \/ Invalidate({act[a].path})
        BY <3>2, <3>4, Drops, Zenon DEF searches
      <4>2. cache' \in [Paths -> Copies \cup {None}]
        BY <3>2, <4>1, Invalidates, SMT
      <4> QED
        BY <3>1, <3>2, <3>4, <4>2, Drops, Zenon
    <3>5. CASE RetryLater(act[a].path)
      BY <3>1, <3>2, <3>5, Retries, Zenon
    <3>6. CASE act[a].copy \in Copies /\ Commit(act[a].path, act[a].copy)
      <4>1. Invalidate({act[a].path})
        BY <3>2, <3>6, Commits, Zenon
      <4>2. cache' \in [Paths -> Copies \cup {None}]
        BY <3>2, <4>1, Invalidates, SMT
      <4> QED
        BY <3>1, <3>2, <3>6, <4>2, Commits, Zenon
    <3> QED
      BY <2>1, <3>3, <3>4, <3>5, <3>6, Looks
  <2>2. ASSUME NEW a \in Actors, Open(a) PROVE IndexOK'
    <3>1. memo' = memo
      BY <2>2, Zenon DEF Open
    <3>2. act[a].path \in Paths
      BY <2>2, Looks
    <3>3. CASE UNCHANGED <<index, searches>>
      BY <3>1, <3>3, SMT DEF index, searches
    <3>4. CASE Drop(act[a].path)
      <4>1. UNCHANGED cache \/ Invalidate({act[a].path})
        BY <3>2, <3>4, Drops, Zenon DEF searches
      <4>2. cache' \in [Paths -> Copies \cup {None}]
        BY <3>2, <4>1, Invalidates, SMT
      <4> QED
        BY <3>1, <3>2, <3>4, <4>2, Drops, Zenon
    <3>5. CASE RetryLater(act[a].path)
      BY <3>1, <3>2, <3>5, Retries, Zenon
    <3>6. CASE act[a].copy \in Copies /\ Commit(act[a].path, act[a].copy)
      <4>1. Invalidate({act[a].path})
        BY <3>2, <3>6, Commits, Zenon
      <4>2. cache' \in [Paths -> Copies \cup {None}]
        BY <3>2, <4>1, Invalidates, SMT
      <4> QED
        BY <3>1, <3>2, <3>6, <4>2, Commits, Zenon
    <3> QED
      BY <2>2, <3>3, <3>4, <3>5, <3>6, Looks
  <2>3. ASSUME NEW a \in Actors, Verify(a) PROVE IndexOK'
    <3>1. memo' = memo
      BY <2>3, Zenon DEF Verify
    <3>2. act[a].path \in Paths
      BY <2>3, Looks
    <3>3. CASE UNCHANGED <<index, searches>>
      BY <3>1, <3>3, SMT DEF index, searches
    <3>4. CASE Drop(act[a].path)
      <4>1. UNCHANGED cache \/ Invalidate({act[a].path})
        BY <3>2, <3>4, Drops, Zenon DEF searches
      <4>2. cache' \in [Paths -> Copies \cup {None}]
        BY <3>2, <4>1, Invalidates, SMT
      <4> QED
        BY <3>1, <3>2, <3>4, <4>2, Drops, Zenon
    <3>5. CASE RetryLater(act[a].path)
      BY <3>1, <3>2, <3>5, Retries, Zenon
    <3>6. CASE act[a].copy \in Copies /\ Commit(act[a].path, act[a].copy)
      <4>1. Invalidate({act[a].path})
        BY <3>2, <3>6, Commits, Zenon
      <4>2. cache' \in [Paths -> Copies \cup {None}]
        BY <3>2, <4>1, Invalidates, SMT
      <4> QED
        BY <3>1, <3>2, <3>6, <4>2, Commits, Zenon
    <3> QED
      BY <2>3, <3>3, <3>4, <3>5, <3>6, Looks
  <2>4. ASSUME (\E p \in Paths : TakeEvent(p)) \/ (\E p \in Paths : ReplayEvent(p)) \/ (\E a
               \in Actors : Defer(a)) \/ (\E a \in Actors : Enter(a))
        PROVE  IndexOK'
    <3>1. UNCHANGED <<cache, evidence, memo, overlay, reader, saved>>
      BY <2>4, Zenon DEF TakeEvent, ReplayEvent, Defer, Enter, index, searches
    <3> QED
      BY <1>0, <3>1
  <2> QED
    BY <1>4, <2>1, <2>2, <2>3, <2>4 DEF Events
<1>5. CASE Recovering
  <2>1. ASSUME RecoveryReplays \/ RecoveryScans \/ (\E p \in Paths : ScanOne(p)) \/
               RecoveryEnds
        PROVE  IndexOK'
    <3>1. UNCHANGED <<cache, evidence, memo, overlay, reader, saved>>
      BY <2>1, Zenon DEF RecoveryReplays, RecoveryScans, ScanOne, RecoveryEnds, index,
         searches
    <3> QED
      BY <1>0, <3>1
  <2> QED
    BY <1>5, <2>1 DEF Recovering
<1>6. CASE Ignoring
  <2>1. ASSUME IgnoreChecks \/ IgnoreWaits \/ IgnoreClears \/ IgnoreRechecks
        PROVE  IndexOK'
    <3>1. UNCHANGED <<cache, evidence, memo, overlay, reader, saved>>
      BY <2>1, Zenon DEF IgnoreChecks, IgnoreWaits, IgnoreClears, IgnoreRechecks, index,
         searches
    <3> QED
      BY <1>0, <3>1
  <2> QED
    BY <1>6, <2>1 DEF Ignoring
<1>7. CASE Begins
  <2>1. ASSUME StartupPass \/ IgnorePass \/ OverflowPass \/ DeferredPass \/ BuildPass \/
               ReloadPass
        PROVE  IndexOK'
    <3>1. UNCHANGED <<cache, evidence, memo, overlay, reader, saved>>
      BY <2>1, Zenon DEF StartupPass, BeginPass, IgnorePass, OverflowPass, DeferredPass,
         BuildPass,
          ReloadPass, index, searches
    <3> QED
      BY <1>0, <3>1
  <2> QED
    BY <1>7, <2>1 DEF Begins
<1>8. CASE Passing
  <2>1. ASSUME Classify PROVE IndexOK'
    <3>1. UNCHANGED <<reader, overlay, saved, evidence, cache>>
      BY <2>1, Zenon DEF Classify, index, searches
    <3>2. memo' \in [Paths -> Stamp]
      <4>1. \/ memo' = memo
            \/ memo' = [p \in Paths |-> IF pass.seen[p] = None THEN None ELSE memo[p]]
        BY <2>1, Zenon DEF Classify
      <4> QED
        BY <4>1, SMT DEF Stamp
    <3> QED
      BY <3>1, <3>2, Zenon
  <2>2. ASSUME Publish PROVE IndexOK'
    <3>1. memo' = Memoised
      BY <2>2, Zenon DEF Publish
    <3>2. CASE UNCHANGED <<index, searches>>
      BY <3>1, <3>2, Merges, SMT DEF index, searches
    <3>3. CASE /\ reader' = Merged /\ overlay' = Pruned
               /\ evidence' = Evidenced /\ saved' = Stamps(Evidenced) /\ Invalidate(Done)
      <4>1. cache' \in [Paths -> Copies \cup {None}]
        BY <3>3, Merges, Invalidates, SMT
      <4> QED
        BY <3>1, <3>3, <4>1, Merges, Zenon
    <3> QED
      BY <2>2, <3>2, <3>3, Zenon DEF Publish
  <2>3. ASSUME (\E p \in Paths : Walk(p)) \/ (\E p \in Paths : Read(p)) \/ (\E p \in Paths :
               PassScans(p)) \/ EndPass \/ StartupYields
        PROVE  IndexOK'
    <3>1. UNCHANGED <<cache, evidence, memo, overlay, reader, saved>>
      BY <2>3, Zenon DEF Walk, Read, PassScans, EndPass, StartupYields, index, searches
    <3> QED
      BY <1>0, <3>1
  <2> QED
    BY <1>8, <2>1, <2>2, <2>3 DEF Passing
<1>9. CASE Building
  <2>1. ASSUME BuildPublish PROVE IndexOK'
    <3>1. /\ reader' = Built /\ evidence' = KnownOf(Withheld)
          /\ overlay' = [p \in Paths |-> None] /\ memo' = memo
          /\ saved' = Stamps(KnownOf({})) /\ Invalidate(Paths)
      BY <2>1, Zenon DEF BuildPublish
    <3>2. cache' \in [Paths -> Copies \cup {None}]
      BY <3>1, Invalidates, SMT
    <3>3. overlay' \in [Paths -> Copies \cup {None, Tombstone}]
      BY <3>1, SMT
    <3>4. Withheld \in SUBSET Paths /\ {} \in SUBSET Paths
      BY WithheldPaths
    <3> QED
      BY <3>1, <3>2, <3>3, <3>4, Builds, Zenon
  <2>2. ASSUME (\E p \in Paths : BuildRead(p)) \/ BuildFails \/ BuildEnds
        PROVE  IndexOK'
    <3>1. UNCHANGED <<cache, evidence, memo, overlay, reader, saved>>
      BY <2>2, Zenon DEF BuildRead, BuildFails, BuildEnds, index, searches
    <3> QED
      BY <1>0, <3>1
  <2> QED
    BY <1>9, <2>1, <2>2 DEF Building
<1>10. CASE Reloading
  <2>1. ASSUME ReloadPublish PROVE IndexOK'
    <3>1. /\ reader' = Built /\ evidence' = KnownOf(Withheld)
          /\ overlay' = [p \in Paths |-> None] /\ memo' = memo
          /\ saved' = Stamps(KnownOf(Withheld)) /\ Invalidate(Paths)
      BY <2>1, Zenon DEF ReloadPublish
    <3>2. cache' \in [Paths -> Copies \cup {None}]
      BY <3>1, Invalidates, SMT
    <3>3. overlay' \in [Paths -> Copies \cup {None, Tombstone}]
      BY <3>1, SMT
    <3>4. Withheld \in SUBSET Paths /\ {} \in SUBSET Paths
      BY WithheldPaths
    <3> QED
      BY <3>1, <3>2, <3>3, <3>4, Builds, Zenon
  <2>2. ASSUME ReloadFails \/ ReloadReplays \/ ReloadRests
        PROVE  IndexOK'
    <3>1. UNCHANGED <<cache, evidence, memo, overlay, reader, saved>>
      BY <2>2, Zenon DEF ReloadFails, ReloadReplays, ReloadRests, index, searches
    <3> QED
      BY <1>0, <3>1
  <2> QED
    BY <1>10, <2>1, <2>2 DEF Reloading
<1>11. CASE Searching
  <2>1. ASSUME UpdateCache PROVE IndexOK'
    <3>1. UNCHANGED <<reader, overlay, saved, evidence, memo>>
      BY <2>1, Zenon DEF UpdateCache, SearchFrame, index
    <3>2. cache' \in [Paths -> Copies \cup {None}]
      BY <2>1, SMT DEF UpdateCache, ThreadsOK
    <3> QED
      BY <3>1, <3>2, Zenon
  <2>2. ASSUME Load \/ ReadFile
        PROVE  IndexOK'
    <3>1. UNCHANGED <<cache, evidence, memo, overlay, reader, saved>>
      BY <2>2, Zenon DEF Load, SearchFrame, ReadFile, index, searches
    <3> QED
      BY <1>0, <3>1
  <2> QED
    BY <1>11, <2>1, <2>2 DEF Searching
<1> QED
  BY <1>1, <1>2, <1>3, <1>4, <1>5, <1>6, <1>7, <1>8, <1>9, <1>10, <1>11 DEF Next, Progress

-----------------------------------------------------------------------------
(* The types of what the threads have in hand.                             *)

Stage == {"idle", "defer", "gate", "drop", "open", "verify"}
Work == [at : Stage, path : Paths \cup {None}, copy : Copies \cup {None}, force : BOOLEAN]

ActOK ==
  /\ act \in [Actors -> Work]
  /\ \A a \in Actors : /\ act[a].at # "idle" => act[a].path \in Paths
                       /\ act[a].at = "verify" => act[a].copy \in Copies

\* A thread that is given something else keeps to the types.
LEMMA ActChanges ==
  ASSUME ThreadsOK, NEW a \in Actors, NEW w \in Work, act' = [act EXCEPT ![a] = w],
         w.at # "idle" => w.path \in Paths, w.at = "verify" => w.copy \in Copies
  PROVE  /\ ActOK' /\ act'[a] = w
         /\ \A b \in Actors \ {a} : act'[b] = act[b]
<1>1. act \in [Actors -> Work]
  BY Zenon DEF ThreadsOK, Work, Stage
<1>2. /\ act' \in [Actors -> Work] /\ act'[a] = w
      /\ \A b \in Actors \ {a} : act'[b] = act[b]
  BY <1>1, SMT
<1>3. ASSUME NEW b \in Actors
      PROVE  /\ act'[b].at # "idle" => act'[b].path \in Paths
             /\ act'[b].at = "verify" => act'[b].copy \in Copies
  BY <1>2, SMT DEF ThreadsOK
<1> QED
  BY <1>2, <1>3, Zenon DEF ActOK

\* What a thread is given, and what it puts down.
LEMMA Hands ==
  ASSUME ThreadsOK, NEW a \in Actors, NEW p \in Paths,
         NEW at \in {"defer", "gate", "drop", "open"}, NEW force \in BOOLEAN,
         act' = [act EXCEPT ![a] = [Idle EXCEPT !.at = at, !.path = p, !.force = force]]
  PROVE  /\ ActOK'
         /\ act'[a].at = at /\ act'[a].path = p
         /\ \A b \in Actors \ {a} : act'[b] = act[b]
<1> DEFINE w == [Idle EXCEPT !.at = at, !.path = p, !.force = force]
<1>1. Idle \in Work
  BY Zenon DEF Idle, Work, Stage
<1>2. w \in Work
  BY <1>1, Zenon DEF Work, Stage
<1>5. w.at = at /\ w.path = p
  BY <1>1, SMT DEF Work, Stage
<1>3. act \in [Actors -> Work]
  BY Zenon DEF ThreadsOK, Work, Stage
<1> HIDE DEF w
<1>4. /\ act' \in [Actors -> Work] /\ act'[a] = w
      /\ \A b \in Actors \ {a} : act'[b] = act[b]
  BY <1>2, <1>3, SMT DEF w
<1>6. ASSUME NEW b \in Actors
      PROVE  /\ act'[b].at # "idle" => act'[b].path \in Paths
             /\ act'[b].at = "verify" => act'[b].copy \in Copies
  BY <1>2, <1>4, <1>5, SMT DEF ThreadsOK
<1> QED
  BY <1>2, <1>4, <1>5, <1>6, Zenon DEF ActOK

\* A thread is handed an event,
LEMMA HandsEvent ==
  ASSUME ThreadsOK, NEW a \in Actors, NEW p \in Paths,
         NEW at \in {"defer", "gate", "drop", "open"}, Hand(a, at, p)
  PROVE  /\ ActOK'
         /\ act'[a].at = at /\ act'[a].path = p
         /\ \A b \in Actors \ {a} : act'[b] = act[b]
<1>1. act' = [act EXCEPT ![a] = [Idle EXCEPT !.at = at, !.path = p, !.force = TRUE]]
  BY Zenon DEF Hand
<1> QED
  BY <1>1, Hands, Zenon

\* or a file to look at without one,
LEMMA HandsFile ==
  ASSUME ThreadsOK, NEW a \in Actors, NEW p \in Paths,
         act' = [act EXCEPT ![a] = [Idle EXCEPT !.at = "open", !.path = p]]
  PROVE  /\ ActOK'
         /\ act'[a].at = "open" /\ act'[a].path = p
         /\ \A b \in Actors \ {a} : act'[b] = act[b]
<1> DEFINE w == [Idle EXCEPT !.at = "open", !.path = p]
<1>1. Idle \in Work
  BY Zenon DEF Idle, Work, Stage
<1>2. w \in Work
  BY <1>1, Zenon DEF Work, Stage
<1>5. w.at = "open" /\ w.path = p
  BY <1>1, SMT DEF Work, Stage
<1>3. act \in [Actors -> Work]
  BY Zenon DEF ThreadsOK, Work, Stage
<1> HIDE DEF w
<1>4. /\ act' \in [Actors -> Work] /\ act'[a] = w
      /\ \A b \in Actors \ {a} : act'[b] = act[b]
  BY <1>2, <1>3, SMT DEF w
<1>6. ASSUME NEW b \in Actors
      PROVE  /\ act'[b].at # "idle" => act'[b].path \in Paths
             /\ act'[b].at = "verify" => act'[b].copy \in Copies
  BY <1>2, <1>4, <1>5, SMT DEF ThreadsOK
<1> QED
  BY <1>2, <1>4, <1>5, <1>6, Zenon DEF ActOK

\* or lets go of what it had.
LEMMA LetsGo ==
  ASSUME ThreadsOK, NEW a \in Actors, LetGo(a)
  PROVE  /\ ActOK'
         /\ act'[a] = Idle /\ act'[a].at = "idle" /\ act'[a].path = None
         /\ \A b \in Actors \ {a} : act'[b] = act[b]
<1>1. Idle \in Work /\ Idle.at = "idle" /\ Idle.path = None
  BY Zenon DEF Work, Stage, Idle
<1>2. act \in [Actors -> Work]
  BY Zenon DEF ThreadsOK, Work, Stage
<1>3. /\ act' \in [Actors -> Work] /\ act'[a] = Idle
      /\ \A b \in Actors \ {a} : act'[b] = act[b]
  BY <1>1, <1>2, SMT DEF LetGo
<1>4. ASSUME NEW b \in Actors
      PROVE  /\ act'[b].at # "idle" => act'[b].path \in Paths
             /\ act'[b].at = "verify" => act'[b].copy \in Copies
  BY <1>1, <1>3, SMT DEF ThreadsOK
<1> QED
  BY <1>1, <1>3, <1>4, Zenon DEF ActOK

\* A thread that reads a file keeps what it read until it has verified it.
LEMMA Keeps ==
  ASSUME ThreadsOK, NEW a \in Actors, NEW c \in Copies, act[a].path \in Paths,
         act' = [act EXCEPT ![a].at = "verify", ![a].copy = c]
  PROVE  /\ ActOK'
         /\ act'[a].at = "verify" /\ act'[a].path = act[a].path /\ act'[a].copy = c
         /\ \A b \in Actors \ {a} : act'[b] = act[b]
<1> DEFINE w == [act[a] EXCEPT !.at = "verify", !.copy = c]
<1>1. act[a] \in Work
  <2>1. act \in [Actors -> Work]
    BY Zenon DEF ThreadsOK, Work, Stage
  <2> QED
    BY <2>1, Zenon
<1>2. w \in Work
  BY <1>1, Zenon DEF Work, Stage
<1>3. w.at = "verify" /\ w.path = act[a].path /\ w.copy = c
  BY <1>1, SMT DEF Work, Stage
<1>4. act' = [act EXCEPT ![a] = w]
  BY <1>1, Zenon
<1> HIDE DEF w
<1>5. w.path \in Paths /\ w.copy \in Copies
  BY <1>3, Zenon
<1>6. ActOK' /\ act'[a] = w /\ \A b \in Actors \ {a} : act'[b] = act[b]
  BY <1>2, <1>4, <1>5, ActChanges, Zenon
<1> QED
  BY <1>3, <1>6, Zenon

\* What the steps of an event do to the thread that has it in hand.
LEMMA Handles ==
  ASSUME TypeOK, ThreadsOK, NEW a \in Actors
  PROVE  /\ Defer(a) => LetGo(a) \/ (~indexing /\ Hand(a, "gate", act[a].path))
         /\ Enter(a) => LetGo(a) \/ Hand(a, "drop", act[a].path) \/ Hand(a, "open", act[a].path)
         /\ DropGone(a) \/ Verify(a) => LetGo(a)
         /\ Defer(a) \/ Enter(a) \/ DropGone(a) \/ Open(a) \/ Verify(a) =>
                act[a].at # "idle" /\ act[a].path \in Paths
<1>1. Defer(a) => LetGo(a) \/ (~indexing /\ Hand(a, "gate", act[a].path))
  BY Zenon DEF Defer
<1>2. Enter(a) => LetGo(a) \/ Hand(a, "drop", act[a].path) \/ Hand(a, "open", act[a].path)
  BY Zenon DEF Enter
<1>3. DropGone(a) \/ Verify(a) => LetGo(a)
  BY Zenon DEF DropGone, Verify
<1>4. Defer(a) \/ Enter(a) \/ DropGone(a) \/ Open(a) \/ Verify(a) =>
          act[a].at # "idle" /\ act[a].path \in Paths
  BY SMT DEF ThreadsOK, Defer, Enter, DropGone, Open, Verify
<1> QED
  BY <1>1, <1>2, <1>3, <1>4, Zenon

\* A file that is opened is let go, or kept to be verified.
LEMMA Opens ==
  ASSUME TypeOK, ThreadsOK, NEW a \in Actors, Open(a)
  PROVE  LET p == act[a].path
         IN  /\ ActOK' /\ p \in Paths /\ act[a].at = "open"
             /\ \A b \in Actors \ {a} : act'[b] = act[b]
             /\ \/ act'[a] = Idle /\ act'[a].at = "idle" /\ act'[a].path = None
                \/ /\ disk[p] \in Copies /\ act'[a].at = "verify" /\ act'[a].path = p
                   /\ act'[a].copy = disk[p]
                   /\ UNCHANGED <<index, searches, refreshes>>
<1>1. act[a].path \in Paths /\ act[a].at = "open"
  BY SMT DEF ThreadsOK, Open
<1>2. \/ LetGo(a)
      \/ /\ disk[act[a].path] # None /\ UNCHANGED <<index, searches, refreshes>>
         /\ act' = [act EXCEPT ![a].at = "verify", ![a].copy = disk[act[a].path]]
  BY Zenon DEF Open
<1>3. disk[act[a].path] = None \/ disk[act[a].path] \in Copies
  BY <1>1, SMT DEF TypeOK
<1>4. CASE LetGo(a)
  BY <1>1, <1>4, LetsGo, Zenon
<1>5. CASE /\ disk[act[a].path] \in Copies /\ UNCHANGED <<index, searches, refreshes>>
           /\ act' = [act EXCEPT ![a].at = "verify", ![a].copy = disk[act[a].path]]
  BY <1>1, <1>5, Keeps, Zenon
<1> QED
  BY <1>2, <1>3, <1>4, <1>5, Zenon

\* So what the threads hold keeps its types,
LEMMA TypeAct == TypeOK /\ ThreadsOK /\ [Next]_vars => ActOK'
<1> SUFFICES ASSUME TypeOK, ThreadsOK, [Next]_vars
             PROVE  ActOK'
  OBVIOUS
<1>0. ASSUME UNCHANGED <<act>> PROVE ActOK'
  BY <1>0, Zenon DEF ThreadsOK, ActOK, Work, Stage
<1>1. CASE UNCHANGED vars
  <2>1. UNCHANGED <<act>>
    BY <1>1 DEF vars
  <2> QED
    BY <1>0, <2>1
<1>2. CASE Environment
  <2>1. ASSUME (\E p \in Paths : \E d \in Contents : Write(p, d)) \/ (\E p \in Paths :
               Remove(p)) \/ RulesEvent \/ TurnToPolling \/ BeginReload \/ PeriodicPass \/
               BeginSave \/ (\E p \in Paths : Admit(p))
        PROVE  ActOK'
    <3>1. UNCHANGED <<act>>
      BY <2>1, Zenon DEF Write, Remove, RulesEvent, TurnToPolling, BeginReload,
         PeriodicPass, BeginPass,
          BeginSave, Admit, SearchFrame
    <3> QED
      BY <1>0, <3>1
  <2> QED
    BY <1>2, <2>1 DEF Environment
<1>3. CASE Checkpoint
  <2>1. UNCHANGED <<act>>
    BY <1>3, Zenon DEF Checkpoint
  <2> QED
    BY <1>0, <2>1
<1>4. CASE Events
  <2>1. ASSUME NEW p \in Paths, TakeEvent(p) PROVE ActOK'
    <3>1. act' = act \/ Hand("watcher", "defer", p) \/ Hand("watcher", "gate", p)
      BY <2>1, Zenon DEF TakeEvent, Handle
    <3>2. "watcher" \in Actors
      BY DEF Actors
    <3>3. CASE act' = act
      BY <3>3 DEF ThreadsOK, ActOK, Work, Stage
    <3>4. CASE Hand("watcher", "defer", p) \/ Hand("watcher", "gate", p)
      BY <3>2, <3>4, HandsEvent, SMT
    <3> QED
      BY <3>1, <3>3, <3>4
  <2>2. ASSUME NEW p \in Paths, ReplayEvent(p) PROVE ActOK'
    <3>1. act' = act \/ Hand("replay", "defer", p) \/ Hand("replay", "gate", p)
      BY <2>2, Zenon DEF ReplayEvent, Handle
    <3>2. "replay" \in Actors
      BY DEF Actors
    <3>3. CASE act' = act
      BY <3>3 DEF ThreadsOK, ActOK, Work, Stage
    <3>4. CASE Hand("replay", "defer", p) \/ Hand("replay", "gate", p)
      BY <3>2, <3>4, HandsEvent, SMT
    <3> QED
      BY <3>1, <3>3, <3>4
  <2>3. ASSUME NEW a \in Actors, Defer(a) PROVE ActOK'
    <3>1. act[a].path \in Paths /\ (LetGo(a) \/ Hand(a, "gate", act[a].path))
      BY <2>3, Handles, Zenon
    <3>2. CASE LetGo(a)
      BY <3>2, LetsGo
    <3>3. CASE Hand(a, "gate", act[a].path)
      BY <3>1, <3>3, HandsEvent, SMT
    <3> QED
      BY <3>1, <3>2, <3>3
  <2>4. ASSUME NEW a \in Actors, Enter(a) PROVE ActOK'
    <3>1. act[a].path \in Paths /\ (LetGo(a) \/ Hand(a, "drop", act[a].path) \/ Hand(a, "open", act[a].path))
      BY <2>4, Handles, Zenon
    <3>2. CASE LetGo(a)
      BY <3>2, LetsGo
    <3>3. CASE Hand(a, "drop", act[a].path) \/ Hand(a, "open", act[a].path)
      BY <3>1, <3>3, HandsEvent, SMT
    <3> QED
      BY <3>1, <3>2, <3>3
  <2>5. ASSUME NEW a \in Actors, DropGone(a) PROVE ActOK'
    <3>1. LetGo(a)
      BY <2>5, Handles, Zenon
    <3> QED
      BY <3>1, LetsGo
  <2>6. ASSUME NEW a \in Actors, Open(a) PROVE ActOK'
    BY <2>6, Opens, Zenon
  <2>7. ASSUME NEW a \in Actors, Verify(a) PROVE ActOK'
    <3>1. LetGo(a)
      BY <2>7, Handles, Zenon
    <3> QED
      BY <3>1, LetsGo
  <2> QED
    BY <1>4, <2>1, <2>2, <2>3, <2>4, <2>5, <2>6, <2>7 DEF Events
<1>5. CASE Recovering
  <2>1. ASSUME NEW p \in Paths, ScanOne(p) PROVE ActOK'
    <3>1. act' = [act EXCEPT !["replay"] = [Idle EXCEPT !.at = "open", !.path = p]]
      BY <2>1, Zenon DEF ScanOne
    <3>2. "replay" \in Actors
      BY DEF Actors
    <3> QED
      BY <3>1, <3>2, HandsFile, Zenon
  <2>2. ASSUME RecoveryReplays \/ RecoveryScans \/ RecoveryEnds
        PROVE  ActOK'
    <3>1. UNCHANGED <<act>>
      BY <2>2, Zenon DEF RecoveryReplays, RecoveryScans, RecoveryEnds
    <3> QED
      BY <1>0, <3>1
  <2> QED
    BY <1>5, <2>1, <2>2 DEF Recovering
<1>6. CASE Ignoring
  <2>1. ASSUME IgnoreChecks \/ IgnoreWaits \/ IgnoreClears \/ IgnoreRechecks
        PROVE  ActOK'
    <3>1. UNCHANGED <<act>>
      BY <2>1, Zenon DEF IgnoreChecks, IgnoreWaits, IgnoreClears, IgnoreRechecks
    <3> QED
      BY <1>0, <3>1
  <2> QED
    BY <1>6, <2>1 DEF Ignoring
<1>7. CASE Begins
  <2>1. ASSUME StartupPass \/ IgnorePass \/ OverflowPass \/ DeferredPass \/ BuildPass \/
               ReloadPass
        PROVE  ActOK'
    <3>1. UNCHANGED <<act>>
      BY <2>1, Zenon DEF StartupPass, BeginPass, IgnorePass, OverflowPass, DeferredPass,
         BuildPass,
          ReloadPass
    <3> QED
      BY <1>0, <3>1
  <2> QED
    BY <1>7, <2>1 DEF Begins
<1>8. CASE Passing
  <2>1. ASSUME NEW p \in Paths, PassScans(p) PROVE ActOK'
    <3>0. p \in Paths
      OBVIOUS
    <3>1. act' = [act EXCEPT !["scan"] = [Idle EXCEPT !.at = "open", !.path = p]]
      BY <2>1, Zenon DEF PassScans
    <3>2. "scan" \in Actors
      BY DEF Actors
    <3> QED
      BY <3>1, <3>2, HandsFile, Zenon
  <2>2. ASSUME (\E p \in Paths : Walk(p)) \/ (\E p \in Paths : Read(p)) \/ Classify \/
               Publish \/ EndPass \/ StartupYields
        PROVE  ActOK'
    <3>1. UNCHANGED <<act>>
      BY <2>2, Zenon DEF Walk, Read, Classify, Publish, EndPass, StartupYields
    <3> QED
      BY <1>0, <3>1
  <2> QED
    BY <1>8, <2>1, <2>2 DEF Passing
<1>9. CASE Building
  <2>1. ASSUME (\E p \in Paths : BuildRead(p)) \/ BuildPublish \/ BuildFails \/ BuildEnds
        PROVE  ActOK'
    <3>1. UNCHANGED <<act>>
      BY <2>1, Zenon DEF BuildRead, BuildPublish, BuildFails, BuildEnds
    <3> QED
      BY <1>0, <3>1
  <2> QED
    BY <1>9, <2>1 DEF Building
<1>10. CASE Reloading
  <2>1. ASSUME ReloadPublish \/ ReloadFails \/ ReloadReplays \/ ReloadRests
        PROVE  ActOK'
    <3>1. UNCHANGED <<act>>
      BY <2>1, Zenon DEF ReloadPublish, ReloadFails, ReloadReplays, ReloadRests
    <3> QED
      BY <1>0, <3>1
  <2> QED
    BY <1>10, <2>1 DEF Reloading
<1>11. CASE Searching
  <2>1. ASSUME Load \/ ReadFile \/ UpdateCache
        PROVE  ActOK'
    <3>1. UNCHANGED <<act>>
      BY <2>1, Zenon DEF Load, SearchFrame, ReadFile, UpdateCache
    <3> QED
      BY <1>0, <3>1
  <2> QED
    BY <1>11, <2>1 DEF Searching
<1> QED
  BY <1>1, <1>2, <1>3, <1>4, <1>5, <1>6, <1>7, <1>8, <1>9, <1>10, <1>11 DEF Next, Progress

PassRecord ==
  [by : {"none", "startup", "ignore", "overflow", "deferred", "periodic",
         "build", "catchup", "autosave", "reload"},
   at : {"none", "walk", "read", "scan", "failed"}, member : BOOLEAN,
   left : SUBSET Paths, seen : [Paths -> Versions \cup {None}],
   cand : SUBSET Paths, skip : SUBSET Paths,
   got : [Paths -> Copies \cup {None, Unread}], scan : SUBSET Paths]

PassOK == pass \in PassRecord

\* A new pass has seen and read nothing.
LEMMA NewPassTypes ==
  /\ NoPass \in PassRecord
  /\ \A by \in {"startup", "ignore", "overflow", "deferred", "periodic", "build", "catchup"} :
       \A member \in BOOLEAN :
       [NoPass EXCEPT !.by = by, !.at = "walk", !.member = member, !.left = Paths] \in PassRecord
<1>1. NoPass \in PassRecord
  <2>1. [p \in Paths |-> None] \in [Paths -> Versions \cup {None}]
    BY SMT
  <2>2. [p \in Paths |-> None] \in [Paths -> Copies \cup {None, Unread}]
    BY SMT
  <2>3. {} \in SUBSET Paths
    BY SMT
  <2> QED
    BY <2>1, <2>2, <2>3, Zenon DEF NoPass, PassRecord
<1>2. ASSUME NEW by \in {"startup", "ignore", "overflow", "deferred", "periodic", "build", "catchup"},
             NEW member \in BOOLEAN
      PROVE  [NoPass EXCEPT !.by = by, !.at = "walk", !.member = member, !.left = Paths] \in PassRecord
  <2>1. Paths \in SUBSET Paths
    BY SMT
  <2> QED
    BY <1>1, <1>2, <2>1, Zenon DEF PassRecord
<1> QED
  BY <1>1, <1>2

\* What each of them finds in its record.
LEMMA NewPasses ==
  /\ NoPass.by = "none" /\ NoPass.at = "none" /\ NoPass.left = {} /\ NoPass.cand = {}
  /\ NoPass.skip = {} /\ NoPass.scan = {}
  /\ \A p \in Paths : NoPass.seen[p] = None /\ NoPass.got[p] = None
BY SMT DEF NoPass

\* A pass that walks starts with nothing seen and nothing read.
LEMMA NewWalks ==
  ASSUME NEW by \in {"startup", "ignore", "overflow", "deferred", "periodic", "build", "catchup"},
         NEW member \in BOOLEAN,
         pass' = [NoPass EXCEPT !.by = by, !.at = "walk", !.member = member, !.left = Paths]
  PROVE  /\ PassOK'
         /\ pass'.by = by /\ pass'.at = "walk" /\ pass'.left = Paths /\ pass'.cand = {}
         /\ pass'.skip = {} /\ pass'.scan = {}
         /\ \A p \in Paths : pass'.seen[p] = None /\ pass'.got[p] = None
<1>1. pass' \in PassRecord /\ NoPass \in PassRecord
  BY NewPassTypes, Zenon
<1>2. /\ pass'.by = by /\ pass'.at = "walk" /\ pass'.left = Paths
      /\ pass'.cand = NoPass.cand /\ pass'.skip = NoPass.skip /\ pass'.scan = NoPass.scan
      /\ pass'.seen = NoPass.seen /\ pass'.got = NoPass.got
  BY <1>1, SMT DEF PassRecord
<1> QED
  BY <1>1, <1>2, NewPasses, Zenon DEF PassOK

\* A pass begins with everything to walk.
LEMMA PassBegins ==
  ASSUME Begins \/ PeriodicPass
  PROVE  /\ PassOK' /\ GateFree
         /\ pass'.by \in {"startup", "ignore", "overflow", "deferred", "periodic", "build", "catchup"}
         /\ pass'.at = "walk" /\ pass'.left = Paths
         /\ pass'.cand = {} /\ pass'.skip = {} /\ pass'.scan = {}
         /\ \A p \in Paths : pass'.seen[p] = None /\ pass'.got[p] = None
<1>1. PICK by \in {"startup", "ignore", "overflow", "deferred", "periodic", "build", "catchup"} :
        \E member \in BOOLEAN :
           pass' = [NoPass EXCEPT !.by = by, !.at = "walk", !.member = member, !.left = Paths]
  BY BeginsShare, Zenon
<1>2. PICK member \in BOOLEAN :
           pass' = [NoPass EXCEPT !.by = by, !.at = "walk", !.member = member, !.left = Paths]
  BY <1>1
<1>3. GateFree
  BY BeginsShare, Zenon
<1>4. by # "none"
  OBVIOUS
<1> QED
  BY <1>2, <1>3, NewWalks, Zenon

\* A walk notes the version that it sees.
LEMMA PassWalks ==
  ASSUME TypeOK, ThreadsOK, NEW p \in Paths, Walk(p)
  PROVE  /\ PassOK'
         /\ pass'.by = pass.by /\ pass'.at = pass.at /\ pass'.left = pass.left \ {p}
         /\ pass'.cand = pass.cand /\ pass'.skip = pass.skip /\ pass'.scan = pass.scan
         /\ pass'.got = pass.got /\ pass'.member = pass.member
         /\ pass'.seen[p] = VersionOn(p)
         /\ \A q \in Paths \ {p} : pass'.seen[q] = pass.seen[q]
<1>1. pass \in PassRecord
  BY Zenon DEF ThreadsOK, PassRecord
<1>2. VersionOn(p) \in Versions \cup {None}
  BY Sentinels, SMT DEF VersionOn, TypeOK
<1>3. pass' = [pass EXCEPT !.left = @ \ {p}, !.seen[p] = VersionOn(p)]
  BY Zenon DEF Walk
<1>4. pass' \in PassRecord
  BY <1>1, <1>2, <1>3, Zenon DEF PassRecord
<1> QED
  BY <1>1, <1>2, <1>3, <1>4, SMT DEF PassRecord, PassOK

\* A read notes what it read, or that it could not.
LEMMA PassReads ==
  ASSUME TypeOK, ThreadsOK, NEW p \in Paths, Read(p)
  PROVE  /\ PassOK'
         /\ pass'.by = pass.by /\ pass'.at = pass.at /\ pass'.left = pass.left \ {p}
         /\ pass'.cand = pass.cand /\ pass'.skip = pass.skip /\ pass'.scan = pass.scan
         /\ pass'.seen = pass.seen /\ pass'.member = pass.member
         /\ pass.at = "read" /\ p \in pass.left
         /\ pass'.got[p] = Unread \/ (pass'.got[p] = disk[p] /\ disk[p] \in Copies)
         /\ pass'.got[p] = Unread =>
              disk[p] = None \/ VersionOn(p) # pass.seen[p] \/ p \in excused'
         /\ excused \subseteq excused'
         /\ \A q \in Paths \ {p} : pass'.got[q] = pass.got[q]
<1>1. pass \in PassRecord
  BY Zenon DEF ThreadsOK, PassRecord
<1>2. PICK got \in {disk[p], Unread} \ {None} :
        /\ \/ /\ got # Unread \/ disk[p] = None \/ VersionOn(p) # pass.seen[p]
              /\ UNCHANGED <<faults, excused>>
           \/ got = Unread /\ excused' = excused \cup {p}
        /\ pass' = [pass EXCEPT !.left = @ \ {p}, !.got[p] = got]
  BY Zenon DEF Read
<1>3. got \in Copies \cup {None, Unread}
  BY SMT DEF TypeOK
<1>4. pass' \in PassRecord
  BY <1>1, <1>2, <1>3, Zenon DEF PassRecord
<1>5. /\ pass'.by = pass.by /\ pass'.at = pass.at /\ pass'.left = pass.left \ {p}
      /\ pass'.cand = pass.cand /\ pass'.skip = pass.skip /\ pass'.scan = pass.scan
      /\ pass'.seen = pass.seen /\ pass'.member = pass.member
      /\ pass'.got[p] = got
      /\ \A q \in Paths \ {p} : pass'.got[q] = pass.got[q]
  BY <1>1, <1>2, <1>3, SMT DEF PassRecord
<1>6. pass.at = "read" /\ p \in pass.left
  BY Zenon DEF Read
<1>7. got = Unread \/ (got = disk[p] /\ disk[p] \in Copies)
  BY SMT DEF TypeOK
<1>8. excused \subseteq excused' /\ (got = Unread =>
              disk[p] = None \/ VersionOn(p) # pass.seen[p] \/ p \in excused')
  BY <1>2, SMT
<1> QED
  BY <1>4, <1>5, <1>6, <1>7, <1>8, Zenon DEF PassOK

\* A walk that is done has candidates to read, or nothing to do, or fails.
LEMMA PassClassifies ==
  ASSUME TypeOK, ThreadsOK, Classify
  PROVE  /\ PassOK'
         /\ pass.at = "walk" /\ pass.by # "reload" /\ pass.left = {}
         /\ pass'.by = pass.by /\ pass'.seen = pass.seen /\ pass'.got = pass.got
         /\ pass'.member = pass.member
         /\ \/ /\ pass'.at = "read" /\ pass'.skip = SkippedIn(pass.seen)
               /\ pass'.cand = CandidatesIn(pass.seen, pass.member)
               /\ pass'.left = {p \in pass'.cand : pass.seen[p] # None}
               /\ pass'.scan = IF watched \/ pass.by \in {"build", "catchup"} THEN {} ELSE Paths
            \/ /\ pass'.at = "scan"
               /\ pass'.scan = IF watched \/ pass.by \in {"build", "catchup"} THEN {} ELSE Paths
               /\ {p \in Paths : overlay[p] # None} = {}
               /\ (ChangedIn(pass.seen, pass.member) \ SkippedIn(pass.seen))
                       \cup DeletedIn(pass.seen) = {}
            \/ pass'.at = "failed" /\ pass'.scan = pass.scan
<1>1. pass \in PassRecord
  BY Zenon DEF ThreadsOK, PassRecord
<1> DEFINE newly == IF watched \/ pass.by \in {"build", "catchup"} THEN {} ELSE Paths
           cand == CandidatesIn(pass.seen, pass.member)
           left == {p \in cand : pass.seen[p] # None}
<1>2. newly \in SUBSET Paths /\ newly = IF watched \/ pass.by \in {"build", "catchup"} THEN {} ELSE Paths
  BY SMT
<1>3. cand \in SUBSET Paths /\ SkippedIn(pass.seen) \in SUBSET Paths /\ left \in SUBSET Paths
  BY SMT DEF CandidatesIn, SkippedIn, ChangedIn, DeletedIn
<1>4. /\ pass.at = "walk" /\ pass.by # "reload" /\ pass.left = {}
      /\ \/ pass' = [pass EXCEPT !.at = "read", !.cand = cand, !.scan = newly,
                             !.skip = SkippedIn(pass.seen), !.left = left]
         \/ /\ pass' = [pass EXCEPT !.at = "scan", !.scan = newly]
            /\ {p \in Paths : overlay[p] # None} = {}
            /\ (ChangedIn(pass.seen, pass.member) \ SkippedIn(pass.seen))
                       \cup DeletedIn(pass.seen) = {}
         \/ pass' = [pass EXCEPT !.at = "failed"]
  BY Zenon DEF Classify
<1> HIDE DEF newly, left
<1>5. pass' \in PassRecord
  <2>1. CASE pass' = [pass EXCEPT !.at = "read", !.cand = cand, !.scan = newly,
                             !.skip = SkippedIn(pass.seen), !.left = left]
    BY <1>1, <1>2, <1>3, <2>1, Zenon DEF PassRecord
  <2>2. CASE pass' = [pass EXCEPT !.at = "scan", !.scan = newly]
    BY <1>1, <1>2, <2>2, Zenon DEF PassRecord
  <2>3. CASE pass' = [pass EXCEPT !.at = "failed"]
    BY <1>1, <2>3, Zenon DEF PassRecord
  <2> QED
    BY <1>4, <2>1, <2>2, <2>3, Zenon
<1>6. /\ pass'.by = pass.by /\ pass'.seen = pass.seen /\ pass'.got = pass.got
      /\ pass'.member = pass.member
  <2>1. CASE pass' = [pass EXCEPT !.at = "read", !.cand = cand, !.scan = newly,
                             !.skip = SkippedIn(pass.seen), !.left = left]
    BY <1>1, <2>1, SMT DEF PassRecord
  <2>2. CASE pass' = [pass EXCEPT !.at = "scan", !.scan = newly]
    BY <1>1, <2>2, SMT DEF PassRecord
  <2>3. CASE pass' = [pass EXCEPT !.at = "failed"]
    BY <1>1, <2>3, SMT DEF PassRecord
  <2> QED
    BY <1>4, <2>1, <2>2, <2>3
<1>7. \/ /\ pass'.at = "read" /\ pass'.skip = SkippedIn(pass.seen)
         /\ pass'.cand = cand /\ pass'.left = left /\ pass'.scan = newly
      \/ /\ pass'.at = "scan" /\ pass'.scan = newly
         /\ {p \in Paths : overlay[p] # None} = {}
         /\ (ChangedIn(pass.seen, pass.member) \ SkippedIn(pass.seen))
                       \cup DeletedIn(pass.seen) = {}
      \/ pass'.at = "failed" /\ pass'.scan = pass.scan
  <2>1. CASE pass' = [pass EXCEPT !.at = "read", !.cand = cand, !.scan = newly,
                             !.skip = SkippedIn(pass.seen), !.left = left]
    BY <1>1, <2>1, SMT DEF PassRecord
  <2>2. CASE /\ pass' = [pass EXCEPT !.at = "scan", !.scan = newly]
             /\ {p \in Paths : overlay[p] # None} = {}
             /\ (ChangedIn(pass.seen, pass.member) \ SkippedIn(pass.seen))
                       \cup DeletedIn(pass.seen) = {}
    <3>1. pass'.at = "scan" /\ pass'.scan = newly
      BY <1>1, <2>2, SMT DEF PassRecord
    <3> QED
      BY <2>2, <3>1, Zenon
  <2>3. CASE pass' = [pass EXCEPT !.at = "failed"]
    BY <1>1, <2>3, SMT DEF PassRecord
  <2> QED
    BY <1>4, <2>1, <2>2, <2>3
<1> QED
  BY <1>2, <1>4, <1>5, <1>6, <1>7 DEF PassOK, left

\* An auto-save begins with its reads.
LEMMA PassSaves ==
  ASSUME TypeOK, ThreadsOK, BeginSave
  PROVE  /\ PassOK' /\ GateFree /\ ~indexing
         /\ pass'.by = "autosave" /\ pass'.at = "read"
         /\ pass'.cand = {p \in Paths : overlay[p] # None}
         /\ pass'.left = {p \in pass'.cand : evidence[p].ver # None}
         /\ pass'.skip = {} /\ pass'.scan = {}
         /\ \A p \in Paths : pass'.seen[p] = VersionOn(p) /\ pass'.got[p] = None
<1> DEFINE cand == {p \in Paths : overlay[p] # None}
           seen == [p \in Paths |-> VersionOn(p)]
           left == {p \in cand : evidence[p].ver # None}
<1>1. cand \in SUBSET Paths /\ left \in SUBSET Paths
  BY SMT
<1>2. seen \in [Paths -> Versions \cup {None}] /\ \A p \in Paths : seen[p] = VersionOn(p)
  BY Sentinels, SMT DEF VersionOn, TypeOK
<1>3. /\ GateFree /\ ~indexing
      /\ pass' = [NoPass EXCEPT !.by = "autosave", !.at = "read", !.cand = cand,
                                !.seen = seen, !.left = left]
  BY Zenon DEF BeginSave
<1> HIDE DEF cand, seen, left
<1>0. NoPass \in PassRecord
  BY NewPassTypes
<1>4. pass' \in PassRecord
  BY <1>0, <1>1, <1>2, <1>3, Zenon DEF PassRecord
<1>5. /\ pass'.by = "autosave" /\ pass'.at = "read"
      /\ pass'.cand = cand /\ pass'.left = left
      /\ pass'.skip = NoPass.skip /\ pass'.scan = NoPass.scan
      /\ pass'.seen = seen /\ pass'.got = NoPass.got
  BY <1>0, <1>3, SMT DEF PassRecord
<1> QED
  BY <1>2, <1>3, <1>4, <1>5, NewPasses, Zenon DEF PassOK, cand, left

\* The last steps of a pass.
LEMMA PassMoves ==
  ASSUME TypeOK, ThreadsOK
  PROVE  /\ Publish =>
              /\ PassOK' /\ pass.at = "read" /\ pass.left = {}
              /\ pass'.at \in {"scan", "failed"} /\ pass'.by = pass.by
              /\ pass'.left = pass.left /\ pass'.cand = pass.cand /\ pass'.skip = pass.skip
              /\ pass'.seen = pass.seen /\ pass'.got = pass.got /\ pass'.scan = pass.scan
         /\ \A p \in Paths : PassScans(p) =>
              /\ PassOK' /\ pass'.at = pass.at /\ pass'.by = pass.by
              /\ pass'.left = pass.left /\ pass'.cand = pass.cand /\ pass'.skip = pass.skip
              /\ pass'.seen = pass.seen /\ pass'.got = pass.got
              /\ pass'.scan = pass.scan \ {p}
         /\ BeginReload =>
              /\ PassOK' /\ pass'.at = "none" /\ pass'.by = "reload" /\ pass'.cand = {}
              /\ pass'.left = {}
              /\ pass'.skip = {} /\ pass'.scan = {}
              /\ \A p \in Paths : pass'.seen[p] = None /\ pass'.got[p] = None
         /\ EndPass \/ ReloadPublish \/ ReloadFails => PassOK' /\ pass' = NoPass
<1>1. pass \in PassRecord
  BY Zenon DEF ThreadsOK, PassRecord
<1>2. ASSUME Publish
      PROVE  /\ PassOK' /\ pass.at = "read" /\ pass.left = {}
             /\ pass'.at \in {"scan", "failed"} /\ pass'.by = pass.by
             /\ pass'.left = pass.left /\ pass'.cand = pass.cand /\ pass'.skip = pass.skip
             /\ pass'.seen = pass.seen /\ pass'.got = pass.got /\ pass'.scan = pass.scan
  <2>1. /\ pass.at = "read" /\ pass.left = {}
        /\ \/ pass' = [pass EXCEPT !.at = "scan"]
           \/ pass' = [pass EXCEPT !.at = "failed"]
    BY <1>2, Zenon DEF Publish
  <2>2. pass' \in PassRecord
    <3>1. CASE pass' = [pass EXCEPT !.at = "scan"]
      BY <1>1, <3>1, Zenon DEF PassRecord
    <3>2. CASE pass' = [pass EXCEPT !.at = "failed"]
      BY <1>1, <3>2, Zenon DEF PassRecord
    <3> QED
      BY <2>1, <3>1, <3>2
  <2> QED
    BY <1>1, <2>1, <2>2, SMT DEF PassRecord, PassOK
<1>3. ASSUME NEW p \in Paths, PassScans(p)
      PROVE  /\ PassOK' /\ pass'.at = pass.at /\ pass'.by = pass.by
             /\ pass'.left = pass.left /\ pass'.cand = pass.cand /\ pass'.skip = pass.skip
             /\ pass'.seen = pass.seen /\ pass'.got = pass.got
             /\ pass'.scan = pass.scan \ {p}
  <2>1. pass' = [pass EXCEPT !.scan = @ \ {p}]
    BY <1>3, Zenon DEF PassScans
  <2>2. pass' \in PassRecord
    BY <1>1, <2>1, Zenon DEF PassRecord
  <2> QED
    BY <1>1, <2>1, <2>2, SMT DEF PassRecord, PassOK
<1>4. ASSUME BeginReload
      PROVE  /\ PassOK' /\ pass'.at = "none" /\ pass'.by = "reload" /\ pass'.cand = {}
             /\ pass'.left = {}
             /\ pass'.skip = {} /\ pass'.scan = {}
             /\ \A p \in Paths : pass'.seen[p] = None /\ pass'.got[p] = None
  <2>1. pass' = [NoPass EXCEPT !.by = "reload"]
    BY <1>4, Zenon DEF BeginReload
  <2>0. NoPass \in PassRecord
    BY NewPassTypes
  <2>2. pass' \in PassRecord
    BY <2>0, <2>1, Zenon DEF PassRecord
  <2>3. /\ pass'.at = NoPass.at /\ pass'.by = "reload" /\ pass'.cand = NoPass.cand
        /\ pass'.left = NoPass.left /\ pass'.skip = NoPass.skip /\ pass'.scan = NoPass.scan
        /\ pass'.seen = NoPass.seen /\ pass'.got = NoPass.got
    BY <2>0, <2>1, SMT DEF PassRecord
  <2> QED
    BY <2>2, <2>3, NewPasses, Zenon DEF PassOK
<1>5. EndPass \/ ReloadPublish \/ ReloadFails => PassOK' /\ pass' = NoPass
  BY NewPassTypes, Zenon DEF EndPass, ReloadPublish, ReloadFails, PassOK
<1> QED
  BY <1>2, <1>3, <1>4, <1>5

\* what a pass has found does too,
LEMMA TypePass == TypeOK /\ ThreadsOK /\ [Next]_vars => PassOK'
<1> SUFFICES ASSUME TypeOK, ThreadsOK, [Next]_vars
             PROVE  PassOK'
  OBVIOUS
<1> USE DEF PassOK
<1>0. ASSUME UNCHANGED <<pass>> PROVE PassOK'
  BY <1>0, Zenon DEF ThreadsOK, PassRecord
<1>1. CASE UNCHANGED vars
  <2>1. UNCHANGED <<pass>>
    BY <1>1 DEF vars
  <2> QED
    BY <1>0, <2>1
<1>2. CASE Environment
  <2>1. ASSUME PeriodicPass PROVE PassOK'
    BY <2>1, PassBegins, Zenon
  <2>2. ASSUME BeginReload PROVE PassOK'
    BY <2>2, PassMoves, Zenon
  <2>3. ASSUME BeginSave PROVE PassOK'
    BY <2>3, PassSaves
  <2>4. ASSUME (\E p \in Paths : \E d \in Contents : Write(p, d)) \/ (\E p \in Paths :
               Remove(p)) \/ RulesEvent \/ TurnToPolling \/ (\E p \in Paths : Admit(p))
        PROVE  PassOK'
    <3>1. UNCHANGED <<pass>>
      BY <2>4, Zenon DEF Write, Remove, RulesEvent, TurnToPolling, Admit, SearchFrame
    <3> QED
      BY <1>0, <3>1
  <2> QED
    BY <1>2, <2>1, <2>2, <2>3, <2>4 DEF Environment
<1>3. CASE Checkpoint
  <2>1. UNCHANGED <<pass>>
    BY <1>3, Zenon DEF Checkpoint
  <2> QED
    BY <1>0, <2>1
<1>4. CASE Events
  <2>1. ASSUME (\E p \in Paths : TakeEvent(p)) \/ (\E p \in Paths : ReplayEvent(p)) \/ (\E a
               \in Actors : Defer(a)) \/ (\E a \in Actors : Enter(a)) \/ (\E a \in Actors :
               DropGone(a)) \/ (\E a \in Actors : Open(a)) \/ (\E a \in Actors : Verify(a))
        PROVE  PassOK'
    <3>1. UNCHANGED <<pass>>
      BY <2>1, Zenon DEF TakeEvent, ReplayEvent, Defer, Enter, DropGone, Open, Verify
    <3> QED
      BY <1>0, <3>1
  <2> QED
    BY <1>4, <2>1 DEF Events
<1>5. CASE Recovering
  <2>1. ASSUME RecoveryReplays \/ RecoveryScans \/ (\E p \in Paths : ScanOne(p)) \/
               RecoveryEnds
        PROVE  PassOK'
    <3>1. UNCHANGED <<pass>>
      BY <2>1, Zenon DEF RecoveryReplays, RecoveryScans, ScanOne, RecoveryEnds
    <3> QED
      BY <1>0, <3>1
  <2> QED
    BY <1>5, <2>1 DEF Recovering
<1>6. CASE Ignoring
  <2>1. ASSUME IgnoreChecks \/ IgnoreWaits \/ IgnoreClears \/ IgnoreRechecks
        PROVE  PassOK'
    <3>1. UNCHANGED <<pass>>
      BY <2>1, Zenon DEF IgnoreChecks, IgnoreWaits, IgnoreClears, IgnoreRechecks
    <3> QED
      BY <1>0, <3>1
  <2> QED
    BY <1>6, <2>1 DEF Ignoring
<1>7. CASE Begins
  <2>1. ASSUME Begins PROVE PassOK'
    BY <2>1, PassBegins, Zenon
  <2> QED
    BY <1>7, <2>1
<1>8. CASE Passing
  <2>1. ASSUME NEW p \in Paths, Walk(p) PROVE PassOK'
    BY <2>1, PassWalks
  <2>2. ASSUME NEW p \in Paths, Read(p) PROVE PassOK'
    BY <2>2, PassReads
  <2>3. ASSUME NEW p \in Paths, PassScans(p) PROVE PassOK'
    BY <2>3, PassMoves, Zenon
  <2>4. ASSUME Classify PROVE PassOK'
    BY <2>4, PassClassifies
  <2>5. ASSUME Publish PROVE PassOK'
    BY <2>5, PassMoves, Zenon
  <2>6. ASSUME EndPass PROVE PassOK'
    BY <2>6, PassMoves, Zenon
  <2>7. ASSUME StartupYields
        PROVE  PassOK'
    <3>1. UNCHANGED <<pass>>
      BY <2>7, Zenon DEF StartupYields
    <3> QED
      BY <1>0, <3>1
  <2> QED
    BY <1>8, <2>1, <2>2, <2>3, <2>4, <2>5, <2>6, <2>7 DEF Passing
<1>9. CASE Building
  <2>1. ASSUME (\E p \in Paths : BuildRead(p)) \/ BuildPublish \/ BuildFails \/ BuildEnds
        PROVE  PassOK'
    <3>1. UNCHANGED <<pass>>
      BY <2>1, Zenon DEF BuildRead, BuildPublish, BuildFails, BuildEnds
    <3> QED
      BY <1>0, <3>1
  <2> QED
    BY <1>9, <2>1 DEF Building
<1>10. CASE Reloading
  <2>1. ASSUME ReloadPublish PROVE PassOK'
    BY <2>1, PassMoves, Zenon
  <2>2. ASSUME ReloadFails PROVE PassOK'
    BY <2>2, PassMoves, Zenon
  <2>3. ASSUME ReloadReplays \/ ReloadRests
        PROVE  PassOK'
    <3>1. UNCHANGED <<pass>>
      BY <2>3, Zenon DEF ReloadReplays, ReloadRests
    <3> QED
      BY <1>0, <3>1
  <2> QED
    BY <1>10, <2>1, <2>2, <2>3 DEF Reloading
<1>11. CASE Searching
  <2>1. ASSUME Load \/ ReadFile \/ UpdateCache
        PROVE  PassOK'
    <3>1. UNCHANGED <<pass>>
      BY <2>1, Zenon DEF Load, SearchFrame, ReadFile, UpdateCache
    <3> QED
      BY <1>0, <3>1
  <2> QED
    BY <1>11, <2>1 DEF Searching
<1> QED
  BY <1>1, <1>2, <1>3, <1>4, <1>5, <1>6, <1>7, <1>8, <1>9, <1>10, <1>11 DEF Next, Progress

BuildRecord ==
  [by : {"none", "startup", "published", "complete", "failed", "reload"},
   left : SUBSET Paths, got : [Paths -> Copies \cup {None, Unread}], raced : SUBSET Paths]

BuildOK == build \in BuildRecord

\* A build starts with nothing read.
LEMMA NewBuilds ==
  /\ NoBuild \in BuildRecord
  /\ NoBuild.by = "none" /\ NoBuild.left = {} /\ NoBuild.raced = {}
  /\ \A p \in Paths : NoBuild.got[p] = None
<1>1. /\ [p \in Paths |-> None] \in [Paths -> Copies \cup {None, Unread}]
      /\ {} \in SUBSET Paths
  BY SMT
<1>2. NoBuild \in BuildRecord
  BY <1>1, Zenon DEF NoBuild, BuildRecord
<1>3. /\ NoBuild.by = "none" /\ NoBuild.left = {} /\ NoBuild.raced = {}
      /\ \A p \in Paths : NoBuild.got[p] = None
  BY SMT DEF NoBuild
<1> QED
  BY <1>2, <1>3

\* How far a build is, when nothing of it is left to read.
LEMMA BuildGoesOn ==
  ASSUME NEW by \in {"published", "failed"}, build' = [NoBuild EXCEPT !.by = by]
  PROVE  /\ BuildOK' /\ build'.by = by /\ build'.left = {} /\ build'.raced = {}
         /\ \A p \in Paths : build'.got[p] = None
<1>1. NoBuild \in BuildRecord
  BY NewBuilds
<1>2. build' \in BuildRecord
  BY <1>1, Zenon DEF BuildRecord
<1>3. /\ build'.by = by /\ build'.left = NoBuild.left /\ build'.raced = NoBuild.raced
      /\ build'.got = NoBuild.got
  BY <1>1, SMT DEF BuildRecord
<1> QED
  BY <1>2, <1>3, NewBuilds, Zenon DEF BuildOK

\* A read of the tree begins with everything to read.
LEMMA BuildBegins ==
  ASSUME NEW by \in {"startup", "reload"}, build' = [NoBuild EXCEPT !.by = by, !.left = Paths]
  PROVE  /\ BuildOK' /\ build'.by = by /\ build'.left = Paths /\ build'.raced = {}
         /\ \A p \in Paths : build'.got[p] = None
<1>1. NoBuild \in BuildRecord /\ Paths \in SUBSET Paths
  BY NewBuilds
<1>2. build' \in BuildRecord
  BY <1>1, Zenon DEF BuildRecord
<1>3. /\ build'.by = by /\ build'.left = Paths /\ build'.raced = NoBuild.raced
      /\ build'.got = NoBuild.got
  BY <1>1, SMT DEF BuildRecord
<1> QED
  BY <1>2, <1>3, NewBuilds, Zenon DEF BuildOK

\* It reads a file, or a failure excuses it.
LEMMA BuildReads ==
  ASSUME TypeOK, ThreadsOK, NEW p \in Paths, BuildRead(p)
  PROVE  /\ BuildOK' /\ build'.by = build.by /\ build'.left = build.left \ {p}
         /\ build'.raced \in {build.raced, build.raced \cup {p}}
         /\ excused \subseteq excused'
         /\ \/ build'.got[p] = disk[p]
            \/ build'.got[p] = Unread /\ disk[p] # None /\ p \in excused'
         /\ \A q \in Paths \ {p} : build'.got[q] = build.got[q]
<1>1. build \in BuildRecord
  BY Zenon DEF ThreadsOK, BuildRecord
<1>2. disk[p] \in Copies \cup {None, Unread} /\ Unread \in Copies \cup {None, Unread}
  BY SMT DEF TypeOK
<1>3. CASE build' = [build EXCEPT !.left = @ \ {p}, !.got[p] = disk[p]] /\ excused' = excused
  <2>1. build' \in BuildRecord
    BY <1>1, <1>2, <1>3, Zenon DEF BuildRecord
  <2> QED
    BY <1>1, <1>2, <1>3, <2>1, SMT DEF BuildRecord, BuildOK
<1>4. CASE /\ build' = [build EXCEPT !.left = @ \ {p}, !.got[p] = disk[p],
                                     !.raced = @ \cup {p}]
           /\ excused' = excused
  <2>1. build.raced \cup {p} \in SUBSET Paths
    BY <1>1, SMT DEF BuildRecord
  <2>2. build' \in BuildRecord
    BY <1>1, <1>2, <1>4, <2>1, Zenon DEF BuildRecord
  <2> QED
    BY <1>1, <1>2, <1>4, <2>2, SMT DEF BuildRecord, BuildOK
<1>5. CASE /\ build' = [build EXCEPT !.left = @ \ {p}, !.got[p] = Unread]
           /\ disk[p] # None /\ excused' = excused \cup {p}
  <2>1. build' \in BuildRecord
    BY <1>1, <1>2, <1>5, Zenon DEF BuildRecord
  <2> QED
    BY <1>1, <1>2, <1>5, <2>1, SMT DEF BuildRecord, BuildOK
<1> QED
  BY <1>3, <1>4, <1>5, Zenon DEF BuildRead

\* The pass that ends a startup build says whether it is complete.
LEMMA BuildIsCompleted ==
  ASSUME TypeOK, ThreadsOK, EndPass
  PROVE  /\ BuildOK' /\ build'.left = build.left /\ build'.raced = build.raced
         /\ build'.got = build.got
         /\ pass.by # "build" => build' = build
         /\ pass.by = "build" => build'.by \in {"complete", "failed"}
<1>1. build \in BuildRecord
  BY Zenon DEF ThreadsOK, BuildRecord
<1>2. \/ build' = build /\ pass.by # "build"
      \/ build' = [build EXCEPT !.by = "complete"] /\ pass.by = "build"
      \/ build' = [build EXCEPT !.by = "failed"] /\ pass.by = "build"
  BY Zenon DEF EndPass
<1>3. build' \in BuildRecord
  BY <1>1, <1>2, Zenon DEF BuildRecord
<1> QED
  BY <1>1, <1>2, <1>3, SMT DEF BuildRecord, BuildOK

\* The steps of a startup build and of a reload.
LEMMA BuildMoves ==
  /\ BuildPublish => BuildOK' /\ build'.by = "published" /\ build'.left = {} /\ build'.raced = {}
                       /\ \A p \in Paths : build'.got[p] = None
  /\ BuildFails => BuildOK' /\ build'.by = "failed" /\ build'.left = {} /\ build'.raced = {}
                       /\ \A p \in Paths : build'.got[p] = None
  /\ BeginReload => BuildOK' /\ build'.by = "reload" /\ build'.left = Paths
                       /\ build'.raced = {} /\ \A p \in Paths : build'.got[p] = None
  /\ BuildEnds \/ ReloadPublish \/ ReloadFails =>
       BuildOK' /\ build' = NoBuild
<1>1. BuildPublish => build' = [NoBuild EXCEPT !.by = "published"]
  BY Zenon DEF BuildPublish
<1>2. BuildFails => build' = [NoBuild EXCEPT !.by = "failed"]
  BY Zenon DEF BuildFails
<1>3. BeginReload => build' = [NoBuild EXCEPT !.by = "reload", !.left = Paths]
  BY Zenon DEF BeginReload
<1>4. BuildEnds \/ ReloadPublish \/ ReloadFails => build' = NoBuild /\ BuildOK'
  BY NewBuilds, Zenon DEF BuildEnds, ReloadPublish, ReloadFails, BuildOK
<1> QED
  BY <1>1, <1>2, <1>3, <1>4, BuildGoesOn, BuildBegins, Zenon

\* and what a build has read.
LEMMA TypeBuild == TypeOK /\ ThreadsOK /\ [Next]_vars => BuildOK'
<1> SUFFICES ASSUME TypeOK, ThreadsOK, [Next]_vars
             PROVE  BuildOK'
  OBVIOUS
<1> USE DEF BuildOK
<1>0. ASSUME UNCHANGED <<build>> PROVE BuildOK'
  BY <1>0, Zenon DEF ThreadsOK, BuildRecord
<1>1. CASE UNCHANGED vars
  <2>1. UNCHANGED <<build>>
    BY <1>1 DEF vars
  <2> QED
    BY <1>0, <2>1
<1>2. CASE Environment
  <2>1. ASSUME BeginReload PROVE BuildOK'
    BY <2>1, BuildMoves, Zenon
  <2>2. ASSUME (\E p \in Paths : \E d \in Contents : Write(p, d)) \/ (\E p \in Paths :
               Remove(p)) \/ RulesEvent \/ TurnToPolling \/ PeriodicPass \/ BeginSave \/ (\E
               p \in Paths : Admit(p))
        PROVE  BuildOK'
    <3>1. UNCHANGED <<build>>
      BY <2>2, Zenon DEF Write, Remove, RulesEvent, TurnToPolling, PeriodicPass,
         BeginPass, BeginSave,
          Admit, SearchFrame
    <3> QED
      BY <1>0, <3>1
  <2> QED
    BY <1>2, <2>1, <2>2 DEF Environment
<1>3. CASE Checkpoint
  <2>1. UNCHANGED <<build>>
    BY <1>3, Zenon DEF Checkpoint
  <2> QED
    BY <1>0, <2>1
<1>4. CASE Events
  <2>1. ASSUME (\E p \in Paths : TakeEvent(p)) \/ (\E p \in Paths : ReplayEvent(p)) \/ (\E a
               \in Actors : Defer(a)) \/ (\E a \in Actors : Enter(a)) \/ (\E a \in Actors :
               DropGone(a)) \/ (\E a \in Actors : Open(a)) \/ (\E a \in Actors : Verify(a))
        PROVE  BuildOK'
    <3>1. UNCHANGED <<build>>
      BY <2>1, Zenon DEF TakeEvent, ReplayEvent, Defer, Enter, DropGone, Open, Verify
    <3> QED
      BY <1>0, <3>1
  <2> QED
    BY <1>4, <2>1 DEF Events
<1>5. CASE Recovering
  <2>1. ASSUME RecoveryReplays \/ RecoveryScans \/ (\E p \in Paths : ScanOne(p)) \/
               RecoveryEnds
        PROVE  BuildOK'
    <3>1. UNCHANGED <<build>>
      BY <2>1, Zenon DEF RecoveryReplays, RecoveryScans, ScanOne, RecoveryEnds
    <3> QED
      BY <1>0, <3>1
  <2> QED
    BY <1>5, <2>1 DEF Recovering
<1>6. CASE Ignoring
  <2>1. ASSUME IgnoreChecks \/ IgnoreWaits \/ IgnoreClears \/ IgnoreRechecks
        PROVE  BuildOK'
    <3>1. UNCHANGED <<build>>
      BY <2>1, Zenon DEF IgnoreChecks, IgnoreWaits, IgnoreClears, IgnoreRechecks
    <3> QED
      BY <1>0, <3>1
  <2> QED
    BY <1>6, <2>1 DEF Ignoring
<1>7. CASE Begins
  <2>1. ASSUME StartupPass \/ IgnorePass \/ OverflowPass \/ DeferredPass \/ BuildPass \/
               ReloadPass
        PROVE  BuildOK'
    <3>1. UNCHANGED <<build>>
      BY <2>1, Zenon DEF StartupPass, BeginPass, IgnorePass, OverflowPass, DeferredPass,
         BuildPass,
          ReloadPass
    <3> QED
      BY <1>0, <3>1
  <2> QED
    BY <1>7, <2>1 DEF Begins
<1>8. CASE Passing
  <2>1. ASSUME EndPass PROVE BuildOK'
    BY <2>1, BuildIsCompleted
  <2>2. ASSUME (\E p \in Paths : Walk(p)) \/ (\E p \in Paths : Read(p)) \/ (\E p \in Paths :
               PassScans(p)) \/ Classify \/ Publish \/ StartupYields
        PROVE  BuildOK'
    <3>1. UNCHANGED <<build>>
      BY <2>2, Zenon DEF Walk, Read, PassScans, Classify, Publish, StartupYields
    <3> QED
      BY <1>0, <3>1
  <2> QED
    BY <1>8, <2>1, <2>2 DEF Passing
<1>9. CASE Building
  <2>1. ASSUME NEW p \in Paths, BuildRead(p) PROVE BuildOK'
    BY <2>1, BuildReads
  <2>2. ASSUME BuildPublish PROVE BuildOK'
    BY <2>2, BuildMoves, Zenon
  <2>3. ASSUME BuildFails PROVE BuildOK'
    BY <2>3, BuildMoves, Zenon
  <2>4. ASSUME BuildEnds PROVE BuildOK'
    BY <2>4, BuildMoves, Zenon
  <2> QED
    BY <1>9, <2>1, <2>2, <2>3, <2>4 DEF Building
<1>10. CASE Reloading
  <2>1. ASSUME ReloadPublish PROVE BuildOK'
    BY <2>1, BuildMoves, Zenon
  <2>2. ASSUME ReloadFails PROVE BuildOK'
    BY <2>2, BuildMoves, Zenon
  <2>3. ASSUME ReloadReplays \/ ReloadRests
        PROVE  BuildOK'
    <3>1. UNCHANGED <<build>>
      BY <2>3, Zenon DEF ReloadReplays, ReloadRests
    <3> QED
      BY <1>0, <3>1
  <2> QED
    BY <1>10, <2>1, <2>2, <2>3 DEF Reloading
<1>11. CASE Searching
  <2>1. ASSUME Load \/ ReadFile \/ UpdateCache
        PROVE  BuildOK'
    <3>1. UNCHANGED <<build>>
      BY <2>1, Zenon DEF Load, SearchFrame, ReadFile, UpdateCache
    <3> QED
      BY <1>0, <3>1
  <2> QED
    BY <1>11, <2>1 DEF Searching
<1> QED
  BY <1>1, <1>2, <1>3, <1>4, <1>5, <1>6, <1>7, <1>8, <1>9, <1>10, <1>11 DEF Next, Progress

SearchRecord ==
  [at : {"idle", "admitted", "missed", "read"}, path : Paths \cup {None},
   copy : Copies \cup {None}, moved : BOOLEAN]

SearchOK ==
  /\ search \in SearchRecord
  /\ search.at # "idle" => search.path \in Paths
  /\ search.at = "read" => search.copy \in Copies

\* A search ends, or is marked, or takes one step.
LEMMA SearchEnds == search' = NoSearch => SearchOK' /\ search'.at = "idle"
<1>1. NoSearch \in SearchRecord
  BY Zenon DEF NoSearch, SearchRecord
<1>2. NoSearch.at = "idle"
  BY Zenon DEF NoSearch
<1> QED
  BY <1>1, <1>2, Zenon DEF SearchOK

\* A search is marked where the cache is emptied under it,
LEMMA SearchMarked ==
  ASSUME ThreadsOK, search' = search \/ search' = [search EXCEPT !.moved = TRUE]
  PROVE  /\ SearchOK' /\ search'.at = search.at /\ search'.path = search.path
         /\ search'.copy = search.copy
         /\ search' # search \/ search' = [search EXCEPT !.moved = TRUE] => search'.moved
<1>1. search \in SearchRecord
  BY Zenon DEF ThreadsOK, SearchRecord
<1>2. search' \in SearchRecord
  BY <1>1, Zenon DEF SearchRecord
<1>3. /\ search'.at = search.at /\ search'.path = search.path
      /\ search'.copy = search.copy
  BY <1>1, SMT DEF SearchRecord
<1>4. search' # search \/ search' = [search EXCEPT !.moved = TRUE] => search'.moved
  BY <1>1, SMT DEF SearchRecord
<1> QED
  BY <1>2, <1>3, <1>4, Zenon DEF SearchOK, ThreadsOK

\* and otherwise goes on by its own steps.
LEMMA SearchGoesOn ==
  ASSUME TypeOK, ThreadsOK
  PROVE  /\ \A p \in Paths : Admit(p) =>
              /\ SearchOK' /\ search'.at = "admitted" /\ ~indexing /\ search.at = "idle"
         /\ Load => SearchOK' /\ search.at = "admitted" /\ search'.at \in {"idle", "missed"}
         /\ ReadFile =>
              /\ SearchOK' /\ search.at = "missed"
              /\ \/ search'.at = "idle"
                 \/ /\ search'.at = "read" /\ search'.path = search.path
                    /\ search'.copy = disk[search.path] /\ disk[search.path] \in Copies
         /\ UpdateCache => SearchOK' /\ search.at = "read" /\ search'.at = "idle"
<1>1. search \in SearchRecord
  BY Zenon DEF ThreadsOK, SearchRecord
<1>2. ASSUME NEW p \in Paths, Admit(p)
      PROVE  SearchOK' /\ search'.at = "admitted" /\ ~indexing /\ search.at = "idle"
  <2>1. /\ search' = [NoSearch EXCEPT !.at = "admitted", !.path = p]
        /\ ~indexing /\ search.at = "idle"
    BY <1>2, Zenon DEF Admit
  <2>2. NoSearch \in SearchRecord
    BY Zenon DEF NoSearch, SearchRecord
  <2>3. search' \in SearchRecord
    BY <2>1, <2>2, Zenon DEF SearchRecord
  <2>4. search'.at = "admitted" /\ search'.path = p
    BY <2>1, <2>2, SMT DEF SearchRecord
  <2> QED
    BY <2>1, <2>3, <2>4, Zenon DEF SearchOK
<1>3. ASSUME Load
      PROVE  SearchOK' /\ search.at = "admitted" /\ search'.at \in {"idle", "missed"}
  <2>1. /\ search.at = "admitted"
        /\ search' = NoSearch \/ search' = [search EXCEPT !.at = "missed", !.moved = FALSE]
    BY <1>3, Zenon DEF Load
  <2>2. CASE search' = [search EXCEPT !.at = "missed", !.moved = FALSE]
    <3>1. search' \in SearchRecord
      BY <1>1, <2>2, Zenon DEF SearchRecord
    <3>2. search'.at = "missed" /\ search'.path = search.path
      BY <1>1, <2>2, SMT DEF SearchRecord
    <3>3. search.path \in Paths
      BY <2>1, SMT DEF ThreadsOK
    <3> QED
      BY <2>1, <3>1, <3>2, <3>3, Zenon DEF SearchOK
  <2> QED
    BY <2>1, <2>2, SearchEnds, Zenon
<1>4. ASSUME ReadFile
      PROVE  /\ SearchOK' /\ search.at = "missed"
             /\ \/ search'.at = "idle"
                \/ /\ search'.at = "read" /\ search'.path = search.path
                   /\ search'.copy = disk[search.path] /\ disk[search.path] \in Copies
  <2>1. /\ search.at = "missed"
        /\ \/ search' = NoSearch
           \/ /\ search' = [search EXCEPT !.at = "read", !.copy = disk[search.path]]
              /\ disk[search.path] # None
    BY <1>4, Zenon DEF ReadFile
  <2>2. CASE /\ search' = [search EXCEPT !.at = "read", !.copy = disk[search.path]]
             /\ disk[search.path] # None
    <3>1. search.path \in Paths /\ disk[search.path] \in Copies
      BY <2>1, <2>2, SMT DEF ThreadsOK, TypeOK
    <3>2. search' \in SearchRecord
      BY <1>1, <2>2, <3>1, Zenon DEF SearchRecord
    <3>3. search'.at = "read" /\ search'.path = search.path /\ search'.copy = disk[search.path]
      BY <1>1, <2>2, SMT DEF SearchRecord
    <3> QED
      BY <2>1, <3>1, <3>2, <3>3, Zenon DEF SearchOK
  <2> QED
    BY <2>1, <2>2, SearchEnds, Zenon
<1>5. ASSUME UpdateCache PROVE SearchOK' /\ search.at = "read" /\ search'.at = "idle"
  BY <1>5, SearchEnds, Zenon DEF UpdateCache
<1> QED
  BY <1>2, <1>3, <1>4, <1>5

\* What the steps that change the index do to the cache and to a search.
LEMMA LookInvalidates ==
  ASSUME TypeOK, ThreadsOK, NEW a \in Actors, Open(a) \/ Verify(a) \/ DropGone(a)
  PROVE  UNCHANGED searches \/ \E S \in SUBSET Paths : Invalidate(S)
<1>1. act[a].path \in Paths
  BY Looks
<1>2. {act[a].path} \in SUBSET Paths
  BY <1>1, SMT
<1>3. CASE UNCHANGED <<index, searches>>
  BY <1>3
<1>4. CASE Drop(act[a].path)
  BY <1>1, <1>2, <1>4, Drops, Zenon
<1>5. CASE RetryLater(act[a].path)
  BY <1>1, <1>5, Retries, Zenon DEF searches
<1>6. CASE act[a].copy \in Copies /\ Commit(act[a].path, act[a].copy)
  BY <1>1, <1>2, <1>6, Commits, Zenon
<1> QED
  BY <1>3, <1>4, <1>5, <1>6, Looks

\* So a search keeps its types,
LEMMA TypeSearch == TypeOK /\ ThreadsOK /\ [Next]_vars => SearchOK'
<1> SUFFICES ASSUME TypeOK, ThreadsOK, [Next]_vars
             PROVE  SearchOK'
  OBVIOUS
<1>0. ASSUME UNCHANGED <<search>> PROVE SearchOK'
  BY <1>0, Zenon DEF ThreadsOK, SearchOK, SearchRecord
<1>1. CASE UNCHANGED vars
  <2>1. UNCHANGED <<search>>
    BY <1>1 DEF vars, searches
  <2> QED
    BY <1>0, <2>1
<1>2. CASE Environment
  <2>1. ASSUME NEW p \in Paths, Admit(p) PROVE SearchOK'
    BY <2>1, SearchGoesOn, Zenon
  <2>2. ASSUME (\E p \in Paths : \E d \in Contents : Write(p, d)) \/ (\E p \in Paths :
               Remove(p)) \/ RulesEvent \/ TurnToPolling \/ BeginReload \/ PeriodicPass \/
               BeginSave
        PROVE  SearchOK'
    <3>1. UNCHANGED <<search>>
      BY <2>2, Zenon DEF Write, Remove, RulesEvent, TurnToPolling, BeginReload,
         PeriodicPass, BeginPass,
          BeginSave, searches
    <3> QED
      BY <1>0, <3>1
  <2> QED
    BY <1>2, <2>1, <2>2 DEF Environment
<1>3. CASE Checkpoint
  <2>1. UNCHANGED <<search>>
    BY <1>3, Zenon DEF Checkpoint, searches
  <2> QED
    BY <1>0, <2>1
<1>4. CASE Events
  <2>1. ASSUME NEW a \in Actors, DropGone(a) PROVE SearchOK'
    <3>1. UNCHANGED searches \/ \E S \in SUBSET Paths : Invalidate(S)
      BY <2>1, LookInvalidates, Zenon
    <3> QED
      BY <3>1, Invalidates, SearchMarked, Zenon DEF searches
  <2>2. ASSUME NEW a \in Actors, Open(a) PROVE SearchOK'
    <3>1. UNCHANGED searches \/ \E S \in SUBSET Paths : Invalidate(S)
      BY <2>2, LookInvalidates, Zenon
    <3> QED
      BY <3>1, Invalidates, SearchMarked, Zenon DEF searches
  <2>3. ASSUME NEW a \in Actors, Verify(a) PROVE SearchOK'
    <3>1. UNCHANGED searches \/ \E S \in SUBSET Paths : Invalidate(S)
      BY <2>3, LookInvalidates, Zenon
    <3> QED
      BY <3>1, Invalidates, SearchMarked, Zenon DEF searches
  <2>4. ASSUME (\E p \in Paths : TakeEvent(p)) \/ (\E p \in Paths : ReplayEvent(p)) \/ (\E a
               \in Actors : Defer(a)) \/ (\E a \in Actors : Enter(a))
        PROVE  SearchOK'
    <3>1. UNCHANGED <<search>>
      BY <2>4, Zenon DEF TakeEvent, ReplayEvent, Defer, Enter, searches
    <3> QED
      BY <1>0, <3>1
  <2> QED
    BY <1>4, <2>1, <2>2, <2>3, <2>4 DEF Events
<1>5. CASE Recovering
  <2>1. ASSUME RecoveryReplays \/ RecoveryScans \/ (\E p \in Paths : ScanOne(p)) \/
               RecoveryEnds
        PROVE  SearchOK'
    <3>1. UNCHANGED <<search>>
      BY <2>1, Zenon DEF RecoveryReplays, RecoveryScans, ScanOne, RecoveryEnds, searches
    <3> QED
      BY <1>0, <3>1
  <2> QED
    BY <1>5, <2>1 DEF Recovering
<1>6. CASE Ignoring
  <2>1. ASSUME IgnoreChecks \/ IgnoreWaits \/ IgnoreClears \/ IgnoreRechecks
        PROVE  SearchOK'
    <3>1. UNCHANGED <<search>>
      BY <2>1, Zenon DEF IgnoreChecks, IgnoreWaits, IgnoreClears, IgnoreRechecks, searches
    <3> QED
      BY <1>0, <3>1
  <2> QED
    BY <1>6, <2>1 DEF Ignoring
<1>7. CASE Begins
  <2>1. ASSUME StartupPass \/ IgnorePass \/ OverflowPass \/ DeferredPass \/ BuildPass \/
               ReloadPass
        PROVE  SearchOK'
    <3>1. UNCHANGED <<search>>
      BY <2>1, Zenon DEF StartupPass, BeginPass, IgnorePass, OverflowPass, DeferredPass,
         BuildPass,
          ReloadPass, searches
    <3> QED
      BY <1>0, <3>1
  <2> QED
    BY <1>7, <2>1 DEF Begins
<1>8. CASE Passing
  <2>1. ASSUME Publish PROVE SearchOK'
    <3>1. UNCHANGED searches \/ \E S \in SUBSET Paths : Invalidate(S)
      BY <2>1, Merges, Zenon DEF Publish
    <3> QED
      BY <3>1, Invalidates, SearchMarked, Zenon DEF searches
  <2>2. ASSUME (\E p \in Paths : Walk(p)) \/ (\E p \in Paths : Read(p)) \/ (\E p \in Paths :
               PassScans(p)) \/ Classify \/ EndPass \/ StartupYields
        PROVE  SearchOK'
    <3>1. UNCHANGED <<search>>
      BY <2>2, Zenon DEF Walk, Read, PassScans, Classify, EndPass, StartupYields, searches
    <3> QED
      BY <1>0, <3>1
  <2> QED
    BY <1>8, <2>1, <2>2 DEF Passing
<1>9. CASE Building
  <2>1. ASSUME BuildPublish PROVE SearchOK'
    <3>1. Invalidate(Paths) /\ Paths \in SUBSET Paths
      BY <2>1, Zenon DEF BuildPublish
    <3> QED
      BY <3>1, Invalidates, SearchMarked, Zenon
  <2>2. ASSUME (\E p \in Paths : BuildRead(p)) \/ BuildFails \/ BuildEnds
        PROVE  SearchOK'
    <3>1. UNCHANGED <<search>>
      BY <2>2, Zenon DEF BuildRead, BuildFails, BuildEnds, searches
    <3> QED
      BY <1>0, <3>1
  <2> QED
    BY <1>9, <2>1, <2>2 DEF Building
<1>10. CASE Reloading
  <2>1. ASSUME ReloadPublish PROVE SearchOK'
    <3>1. Invalidate(Paths) /\ Paths \in SUBSET Paths
      BY <2>1, Zenon DEF ReloadPublish
    <3> QED
      BY <3>1, Invalidates, SearchMarked, Zenon
  <2>2. ASSUME ReloadFails \/ ReloadReplays \/ ReloadRests
        PROVE  SearchOK'
    <3>1. UNCHANGED <<search>>
      BY <2>2, Zenon DEF ReloadFails, ReloadReplays, ReloadRests, searches
    <3> QED
      BY <1>0, <3>1
  <2> QED
    BY <1>10, <2>1, <2>2 DEF Reloading
<1>11. CASE Searching
  <2>1. ASSUME Load PROVE SearchOK'
    BY <2>1, SearchGoesOn, Zenon
  <2>2. ASSUME ReadFile PROVE SearchOK'
    BY <2>2, SearchGoesOn, Zenon
  <2>3. ASSUME UpdateCache PROVE SearchOK'
    BY <2>3, SearchGoesOn, Zenon
  <2> QED
    BY <1>11, <2>1, <2>2, <2>3 DEF Searching
<1> QED
  BY <1>1, <1>2, <1>3, <1>4, <1>5, <1>6, <1>7, <1>8, <1>9, <1>10, <1>11 DEF Next, Progress

-----------------------------------------------------------------------------

\* and all of it does.
LEMMA TypeStep == TypeOK /\ ThreadsOK /\ [Next]_vars => TypeOK' /\ ThreadsOK'
<1> SUFFICES ASSUME TypeOK, ThreadsOK, [Next]_vars PROVE TypeOK' /\ ThreadsOK'
  OBVIOUS
<1>1. TypeOK'
  BY TypeFiles, TypeFlags, TypeQueues, TypeBounds, TypeIndex, Zenon
     DEF TypeOK, FilesOK, FlagsOK, QueuesOK, BoundsOK, IndexOK
<1>2. ThreadsOK'
  BY TypeAct, TypePass, TypeBuild, TypeSearch, Zenon
     DEF ThreadsOK, ActOK, PassOK, BuildOK, SearchOK, Work, Stage, PassRecord, BuildRecord,
         SearchRecord
<1> QED
  BY <1>1, <1>2


-----------------------------------------------------------------------------
(* The initial states.                                                     *)

\* A warm start has an older index, and a cold one has none.
LEMMA Starts ==
  ASSUME Init
  PROVE  /\ clock \in Versions
         /\ \A p \in Paths :
              /\ disk[p] \in Copies \cup {None} /\ reader[p] \in Copies \cup {None}
              /\ disk[p] # None => disk[p].ver <= clock
              /\ evidence[p] = IF reader[p] = None THEN NoStamp
                               ELSE [ver |-> 0, data |-> reader[p].data]
              /\ saved[p] = evidence[p].ver
              /\ reader[p] # None => reader[p].ver = 0
              /\ reader[p] # None /\ disk[p] # None /\ disk[p].ver = 0 => disk[p] = reader[p]
         /\ disk \in [Paths -> Copies \cup {None}] /\ reader \in [Paths -> Copies \cup {None}]
         /\ evidence \in [Paths -> [ver : Stamp, data : Contents \cup {None}]]
         /\ saved \in [Paths -> Stamp]
         /\ \/ ~indexing /\ startup /\ hiddenComplete /\ build = NoBuild
            \/ /\ indexing /\ ~startup /\ ~hiddenComplete
               /\ build = [NoBuild EXCEPT !.by = "startup", !.left = Paths]
<1> USE Sentinels, BoundsAssumption DEF Versions
<1>1. PICK old \in [Paths -> [data : Contents, ver : {0}] \cup {None}] :
        \/ /\ reader = old /\ indexing = FALSE /\ startup = TRUE
           /\ hiddenComplete = TRUE /\ build = NoBuild /\ clock = 1
           /\ evidence = [p \in Paths |-> IF old[p] = None THEN NoStamp
                                          ELSE [ver |-> 0, data |-> old[p].data]]
           /\ \E new \in Contents :
                  disk \in {d \in [Paths -> Copies \cup {None}] : \A p \in Paths :
                              d[p] \in {None, old[p], [data |-> new, ver |-> 1]}}
        \/ /\ disk = old /\ clock = 0
           /\ reader = [p \in Paths |-> None] /\ indexing = TRUE /\ startup = FALSE
           /\ hiddenComplete = FALSE
           /\ build = [NoBuild EXCEPT !.by = "startup", !.left = Paths]
           /\ evidence = [p \in Paths |-> NoStamp]
  BY Zenon DEF Init
<1>2. saved = Stamps(evidence)
  BY Zenon DEF Init
<1>3. ASSUME NEW p \in Paths
      PROVE  old[p] = None \/ (old[p] \in Copies /\ old[p].ver = 0)
  BY SMT DEF Copies
<1>4. \A p \in Paths : old[p] \in Copies \cup {None}
  BY <1>3, SMT
<1>5. old \in [Paths -> Copies \cup {None}]
  BY <1>4, SMT
<1>6. NoStamp \in [ver : Stamp, data : Contents \cup {None}] /\ NoStamp.ver = None
  BY SMT DEF NoStamp, Stamp
<1>0. \/ ~indexing /\ startup /\ hiddenComplete /\ build = NoBuild
      \/ /\ indexing /\ ~startup /\ ~hiddenComplete
         /\ build = [NoBuild EXCEPT !.by = "startup", !.left = Paths]
  BY <1>1, Zenon
<1>7. CASE /\ reader = old /\ clock = 1
           /\ evidence = [p \in Paths |-> IF old[p] = None THEN NoStamp
                                          ELSE [ver |-> 0, data |-> old[p].data]]
           /\ \E new \in Contents :
                  disk \in {d \in [Paths -> Copies \cup {None}] : \A p \in Paths :
                              d[p] \in {None, old[p], [data |-> new, ver |-> 1]}}
  <2>1. PICK new \in Contents :
           /\ disk \in [Paths -> Copies \cup {None}]
           /\ \A p \in Paths : disk[p] \in {None, old[p], [data |-> new, ver |-> 1]}
    BY <1>7, Zenon
  <2>2. 1 \in Versions
    BY SMT
  <2>3. ASSUME NEW p \in Paths, old[p] # None
        PROVE  [ver |-> 0, data |-> old[p].data] \in [ver : Stamp, data : Contents \cup {None}]
    BY <1>3, <2>3, SMT DEF Stamp
  <2>4. evidence \in [Paths -> [ver : Stamp, data : Contents \cup {None}]]
    BY <1>6, <1>7, <2>3, SMT
  <2>5. saved \in [Paths -> Stamp] /\ \A p \in Paths : saved[p] = evidence[p].ver
    BY <1>2, <2>4, SMT DEF Stamps
  <2>6. ASSUME NEW p \in Paths
        PROVE  /\ disk[p] # None => disk[p].ver <= clock
               /\ reader[p] # None => reader[p].ver = 0
               /\ reader[p] # None /\ disk[p] # None /\ disk[p].ver = 0 => disk[p] = reader[p]
    BY <1>3, <1>7, <2>1, SMT
  <2>7. \A p \in Paths : evidence[p] = IF reader[p] = None THEN NoStamp
                                       ELSE [ver |-> 0, data |-> reader[p].data]
    BY <1>7, SMT
  <2> QED
    <3>1. /\ clock \in Versions
          /\ disk \in [Paths -> Copies \cup {None}] /\ reader \in [Paths -> Copies \cup {None}]
          /\ \A p \in Paths : disk[p] \in Copies \cup {None} /\ reader[p] \in Copies \cup {None}
      BY <1>5, <1>7, <2>1, <2>2, SMT
    <3> QED
      BY <1>0, <3>1, <2>4, <2>5, <2>6, <2>7, Zenon
<1>8. CASE /\ disk = old /\ clock = 0 /\ reader = [p \in Paths |-> None]
           /\ evidence = [p \in Paths |-> NoStamp]
  <2>1. /\ evidence \in [Paths -> [ver : Stamp, data : Contents \cup {None}]]
        /\ reader \in [Paths -> Copies \cup {None}]
        /\ \A p \in Paths : reader[p] = None /\ evidence[p] = NoStamp
    BY <1>6, <1>8, SMT
  <2>2. saved \in [Paths -> Stamp] /\ \A p \in Paths : saved[p] = evidence[p].ver
    BY <1>2, <2>1, SMT DEF Stamps
  <2> QED
    <3>2. ASSUME NEW p \in Paths
          PROVE  /\ disk[p] # None => disk[p].ver <= clock
                 /\ reader[p] = None
      BY <1>3, <1>8, <2>1, SMT
    <3>1. /\ clock \in Versions
          /\ disk \in [Paths -> Copies \cup {None}] /\ reader \in [Paths -> Copies \cup {None}]
          /\ \A p \in Paths : disk[p] \in Copies \cup {None} /\ reader[p] \in Copies \cup {None}
      BY <1>5, <1>8, <2>1, SMT
    <3> QED
      BY <1>0, <3>1, <2>1, <2>2, <3>2, Zenon
<1> QED
  BY <1>1, <1>7, <1>8, Zenon

\* The first state has the types.
LEMMA TypeInit == Init => TypeOK /\ ThreadsOK
<1> SUFFICES ASSUME Init PROVE TypeOK /\ ThreadsOK
  OBVIOUS
<1>1. FilesOK
  <2>1. queue = {}
    BY Zenon DEF Init
  <2> QED
    BY <2>1, Starts, SMT DEF FilesOK
<1>2. FlagsOK
  BY Starts, Zenon DEF Init, FlagsOK
<1>3. QueuesOK
  <2>1. {} \in SUBSET Paths /\ deferred = Deferred({})
    BY Zenon DEF Init
  <2>2. /\ replaying = {} /\ scanning = {} /\ recovery = "off" /\ tail = "off"
        /\ ignore = "off"
    BY Zenon DEF Init
  <2> QED
    BY <2>1, <2>2, DeferredTypes, SMT DEF QueuesOK
<1>4. BoundsOK
  BY BoundsAssumption, SMT DEF Init, BoundsOK
<1>5. IndexOK
  <2>1. /\ overlay = [p \in Paths |-> None] /\ memo = [p \in Paths |-> None]
        /\ cache = [p \in Paths |-> None]
    BY Zenon DEF Init
  <2>2. /\ overlay \in [Paths -> Copies \cup {None, Tombstone}] /\ memo \in [Paths -> Stamp]
        /\ cache \in [Paths -> Copies \cup {None}]
    BY <2>1, SMT DEF Stamp
  <2> QED
    BY <2>2, Starts, Zenon DEF IndexOK
<1>6. ActOK
  <2>1. act = [a \in Actors |-> Idle]
    BY Zenon DEF Init
  <2>2. Idle \in Work
    BY Zenon DEF Idle, Work, Stage
  <2>3. Idle.at = "idle"
    BY Zenon DEF Idle
  <2> QED
    BY <2>1, <2>2, <2>3, SMT DEF ActOK
<1>7. PassOK
  BY NewPassTypes, Zenon DEF Init, PassOK
<1>8. BuildOK
  <2>1. NoBuild \in BuildRecord /\ Paths \in SUBSET Paths
    BY NewBuilds
  <2>2. build = NoBuild \/ build = [NoBuild EXCEPT !.by = "startup", !.left = Paths]
    BY Starts, Zenon
  <2> QED
    BY <2>1, <2>2, Zenon DEF BuildOK, BuildRecord
<1>9. SearchOK
  <2>1. search = NoSearch
    BY Zenon DEF Init
  <2>2. NoSearch \in SearchRecord
    BY Zenon DEF NoSearch, SearchRecord
  <2>3. NoSearch.at = "idle"
    BY Zenon DEF NoSearch
  <2> QED
    BY <2>1, <2>2, <2>3, Zenon DEF SearchOK
<1>10. TypeOK
  BY <1>1, <1>2, <1>3, <1>4, <1>5, Zenon
     DEF TypeOK, FilesOK, FlagsOK, QueuesOK, BoundsOK, IndexOK
<1>11. ThreadsOK
  BY <1>6, <1>7, <1>8, <1>9, Zenon
     DEF ThreadsOK, ActOK, PassOK, BuildOK, SearchOK, Work, Stage, PassRecord, BuildRecord,
         SearchRecord
<1> QED
  BY <1>10, <1>11

-----------------------------------------------------------------------------
(* What each step does to the flags and to the threads.                    *)

\* A write makes a version, and notifies if somebody watches.
LEMMA WriteDoes ==
  ASSUME TypeOK, ThreadsOK, NEW p \in Paths, NEW d \in Contents, Write(p, d)
  PROVE  /\ clock' = clock + 1
         /\ disk'[p] \in Copies
         /\ disk'[p].ver = clock + 1
         /\ disk'[p].data = d
         /\ \A q \in Paths \ {p} : disk'[q] = disk[q]
         /\ ~watched \/ polling \/ p \in queue' \/ overflowed'
         /\ queue \subseteq queue'
         /\ overflowed => overflowed'
         /\ UNCHANGED <<watched, reader, overlay, saved, evidence, memo, indexing, pending,
            dirty, scheduled, polling, catchUp, hiddenComplete, deferred, act, replaying,
            recovery, scanning, tail, startup, reconcile, ignore, recheck, pass, build,
            cache, search, faults, requests, excused>>
<1>1. /\ clock' = clock + 1
      /\ UNCHANGED <<watched, reader, overlay, saved, evidence, memo, indexing, pending,
         dirty, scheduled, polling, catchUp, hiddenComplete, deferred, act, replaying,
         recovery, scanning, tail, startup, reconcile, ignore, recheck, pass, build, cache,
         search, faults, requests, excused>>
  BY Zenon DEF Write, index, flags, refreshes, replays, searches, due, bounds
<1>2. /\ disk'[p] \in Copies
      /\ disk'[p].ver = clock + 1
      /\ disk'[p].data = d
      /\ \A q \in Paths \ {p} : disk'[q] = disk[q]
  <2>1. disk' = [disk EXCEPT ![p] = [data |-> d, ver |-> clock']] /\ clock' = clock + 1 /\ clock < MaxClock
    BY Zenon DEF Write
  <2>2. [data |-> d, ver |-> clock'] \in Copies
    BY <2>1, BoundsAssumption, SMT DEF TypeOK, Versions, Copies
  <2> QED
    BY <2>1, <2>2, SMT DEF TypeOK
<1>3. /\ ~watched \/ polling \/ p \in queue' \/ overflowed'
      /\ queue \subseteq queue'
      /\ overflowed => overflowed'
  <2>1. CASE ~watched \/ polling
    BY <2>1, Zenon DEF Write, Notify, notices
  <2>2. CASE ~(~watched \/ polling)
    <3>1. \/ queue' = queue \cup {p} /\ UNCHANGED overflowed
          \/ overflowed' = TRUE /\ UNCHANGED queue
      BY <2>2, Zenon DEF Write, Notify
    <3>2. CASE queue' = queue \cup {p} /\ UNCHANGED overflowed
      BY <3>2, SMT
    <3>3. CASE overflowed' = TRUE /\ UNCHANGED queue
      BY <3>3, Zenon
    <3> QED
      BY <3>1, <3>2, <3>3
  <2> QED
    BY <2>1, <2>2
<1> QED
  BY <1>1, <1>2, <1>3, Zenon

\* So does a removal, with no version.
LEMMA RemoveDoes ==
  ASSUME TypeOK, ThreadsOK, NEW p \in Paths, Remove(p)
  PROVE  /\ clock' = clock + 1
         /\ disk[p] # None
         /\ disk'[p] = None
         /\ \A q \in Paths \ {p} : disk'[q] = disk[q]
         /\ ~watched \/ polling \/ p \in queue' \/ overflowed'
         /\ queue \subseteq queue'
         /\ overflowed => overflowed'
         /\ UNCHANGED <<watched, reader, overlay, saved, evidence, memo, indexing, pending,
            dirty, scheduled, polling, catchUp, hiddenComplete, deferred, act, replaying,
            recovery, scanning, tail, startup, reconcile, ignore, recheck, pass, build,
            cache, search, faults, requests, excused>>
<1>1. /\ clock' = clock + 1
      /\ disk[p] # None
      /\ UNCHANGED <<watched, reader, overlay, saved, evidence, memo, indexing, pending,
         dirty, scheduled, polling, catchUp, hiddenComplete, deferred, act, replaying,
         recovery, scanning, tail, startup, reconcile, ignore, recheck, pass, build, cache,
         search, faults, requests, excused>>
  BY Zenon DEF Remove, index, flags, refreshes, replays, searches, due, bounds
<1>2. /\ disk'[p] = None
      /\ \A q \in Paths \ {p} : disk'[q] = disk[q]
  <2>1. disk' = [disk EXCEPT ![p] = None]
    BY Zenon DEF Remove
  <2> QED
    BY <2>1, SMT DEF TypeOK
<1>3. /\ ~watched \/ polling \/ p \in queue' \/ overflowed'
      /\ queue \subseteq queue'
      /\ overflowed => overflowed'
  <2>1. CASE ~watched \/ polling
    BY <2>1, Zenon DEF Remove, Notify, notices
  <2>2. CASE ~(~watched \/ polling)
    <3>1. \/ queue' = queue \cup {p} /\ UNCHANGED overflowed
          \/ overflowed' = TRUE /\ UNCHANGED queue
      BY <2>2, Zenon DEF Remove, Notify
    <3>2. CASE queue' = queue \cup {p} /\ UNCHANGED overflowed
      BY <3>2, SMT
    <3>3. CASE overflowed' = TRUE /\ UNCHANGED queue
      BY <3>3, Zenon
    <3> QED
      BY <3>1, <3>2, <3>3
  <2> QED
    BY <2>1, <2>2
<1> QED
  BY <1>1, <1>2, <1>3, Zenon

\* A change of the rules asks for a refresh.
LEMMA RulesEventDoes ==
  ASSUME TypeOK, ThreadsOK, RulesEvent
  PROVE  /\ ~polling
         /\ ~scheduled /\ ~indexing => scheduled' /\ ignore' = "check"
         /\ scheduled \/ indexing => UNCHANGED <<scheduled, ignore>>
         /\ dirty'
         /\ UNCHANGED <<disk, clock, queue, overflowed, watched, reader, overlay, saved,
            evidence, memo, indexing, pending, polling, catchUp, hiddenComplete, deferred,
            act, replaying, recovery, scanning, tail, startup, reconcile, recheck, pass,
            build, cache, search, faults, excused>>
BY Zenon DEF RulesEvent, Request, Schedule, file, notices, index, flags, refreshes, replays,
       searches, due, bounds

\* The poller takes over.
LEMMA TurnToPollingDoes ==
  ASSUME TypeOK, ThreadsOK, TurnToPolling
  PROVE  /\ ~polling
         /\ polling'
         /\ UNCHANGED <<disk, clock, queue, overflowed, watched, reader, overlay, saved,
            evidence, memo, indexing, pending, dirty, scheduled, hiddenComplete, deferred,
            act, replaying, recovery, scanning, tail, startup, reconcile, ignore, recheck,
            pass, build, cache, search, requests, excused>>
BY Zenon DEF TurnToPolling, file, notices, index, flags, refreshes, replays, searches,
   due, bounds

\* A reload takes the gate.
LEMMA BeginReloadDoes ==
  ASSUME TypeOK, ThreadsOK, BeginReload
  PROVE  /\ ~indexing
         /\ GateFree
         /\ tail = "off"
         /\ indexing'
         /\ UNCHANGED <<disk, clock, queue, overflowed, watched, reader, overlay, saved,
            evidence, memo, pending, dirty, scheduled, polling, catchUp, hiddenComplete,
            deferred, act, replaying, recovery, scanning, tail, startup, reconcile, ignore,
            recheck, cache, search, faults, excused>>
BY Zenon DEF BeginReload, Request, file, notices, index, flags, refreshes, replays,
   searches, due,
       bounds

\* A periodic pass begins,
LEMMA PeriodicPassDoes ==
  ASSUME TypeOK, ThreadsOK, PeriodicPass
  PROVE  /\ ~indexing
         /\ pass'.by = "periodic"
         /\ UNCHANGED <<disk, clock, queue, overflowed, watched, reader, overlay, saved,
            evidence, memo, indexing, pending, scheduled, polling, hiddenComplete, deferred,
            act, replaying, recovery, scanning, tail, startup, reconcile, ignore, recheck,
            build, cache, search, faults, excused>>
<1>1. /\ ~indexing
      /\ UNCHANGED <<disk, clock, queue, overflowed, watched, reader, overlay, saved,
         evidence, memo, indexing, pending, scheduled, polling, hiddenComplete, deferred,
         act, replaying, recovery, scanning, tail, startup, reconcile, ignore, recheck,
         build, cache, search, faults, excused>>
  BY Zenon DEF PeriodicPass, BeginPass, Request, file, notices, index, flags, refreshes,
     replays,
       searches, due, bounds
<1>2. /\ pass'.by = "periodic"
  BY NewWalks, Zenon DEF PeriodicPass, BeginPass
<1> QED
  BY <1>1, <1>2, Zenon

\* or a save,
LEMMA BeginSaveDoes ==
  ASSUME TypeOK, ThreadsOK, BeginSave
  PROVE  /\ UNCHANGED <<disk, clock, queue, overflowed, watched, reader, overlay, saved,
            evidence, memo, indexing, pending, dirty, scheduled, polling, catchUp,
            hiddenComplete, deferred, act, replaying, recovery, scanning, tail, startup,
            reconcile, ignore, recheck, build, cache, search, faults, excused>>
BY Zenon DEF BeginSave, Request, file, notices, index, flags, refreshes, replays,
   searches, due,
       bounds

\* or a search.
LEMMA AdmitDoes ==
  ASSUME TypeOK, ThreadsOK, NEW p \in Paths, Admit(p)
  PROVE  /\ UNCHANGED <<disk, clock, queue, overflowed, watched, reader, overlay, saved,
            evidence, memo, indexing, pending, dirty, scheduled, polling, catchUp,
            hiddenComplete, deferred, act, replaying, recovery, scanning, tail, startup,
            reconcile, ignore, recheck, pass, build, cache, faults, excused>>
BY Zenon DEF Admit, SearchFrame, Request, file, notices, index, flags, refreshes, replays,
       searches, due, bounds

\* A build says what it has so far.
LEMMA CheckpointDoes ==
  ASSUME TypeOK, ThreadsOK, Checkpoint
  PROVE  /\ build.by = "startup"
         /\ GateFree
         /\ UNCHANGED <<disk, clock, queue, overflowed, watched, overlay, memo, indexing,
            pending, dirty, scheduled, polling, catchUp, deferred, act, replaying, recovery,
            scanning, tail, startup, reconcile, ignore, recheck, pass, build, cache, search,
            faults, requests, excused>>
BY Zenon DEF Checkpoint, file, notices, index, flags, refreshes, replays, searches, due,
   bounds

\* The watcher takes an event,
LEMMA TakeEventDoes ==
  ASSUME TypeOK, ThreadsOK, NEW p \in Paths, TakeEvent(p)
  PROVE  /\ act["watcher"].at = "idle"
         /\ pass.by # "overflow"
         /\ p \in queue
         /\ queue' = queue \ {p}
         /\ \A b \in Actors \ {"watcher"} : act'[b] = act[b]
         /\ polling => act' = act
         /\ ~polling => act'["watcher"].at = (IF indexing THEN "defer" ELSE "gate") /\
            act'["watcher"].path = p
         /\ UNCHANGED <<disk, clock, overflowed, watched, reader, overlay, saved, evidence,
            memo, indexing, pending, dirty, scheduled, polling, catchUp, hiddenComplete,
            deferred, replaying, recovery, scanning, tail, startup, reconcile, ignore,
            recheck, pass, build, cache, search, faults, requests, excused>>
<1>1. /\ act["watcher"].at = "idle"
      /\ pass.by # "overflow"
      /\ p \in queue
      /\ queue' = queue \ {p}
      /\ UNCHANGED <<disk, clock, overflowed, watched, reader, overlay, saved, evidence,
         memo, indexing, pending, dirty, scheduled, polling, catchUp, hiddenComplete,
         deferred, replaying, recovery, scanning, tail, startup, reconcile, ignore, recheck,
         pass, build, cache, search, faults, requests, excused>>
  BY Zenon DEF TakeEvent, file, notices, index, flags, refreshes, replays, searches, due,
     bounds
<1>2. /\ \A b \in Actors \ {"watcher"} : act'[b] = act[b]
      /\ polling => act' = act
      /\ ~polling => act'["watcher"].at = (IF indexing THEN "defer" ELSE "gate") /\
         act'["watcher"].path = p
  <2>1. /\ polling => act' = act
        /\ ~polling => Hand("watcher", IF indexing THEN "defer" ELSE "gate", p)
    BY Zenon DEF TakeEvent, Handle
  <2>2. "watcher" \in Actors
    BY DEF Actors
  <2>3. CASE indexing
    BY <2>1, <2>2, <2>3, HandsEvent, Zenon
  <2>4. CASE ~indexing
    BY <2>1, <2>2, <2>4, HandsEvent, Zenon
  <2> QED
    BY <2>3, <2>4, Zenon
<1> QED
  BY <1>1, <1>2, Zenon

\* or a replay does.
LEMMA ReplayEventDoes ==
  ASSUME TypeOK, ThreadsOK, NEW p \in Paths, ReplayEvent(p)
  PROVE  /\ act["replay"].at = "idle"
         /\ recovery # "scan"
         /\ p \in replaying
         /\ replaying' = replaying \ {p}
         /\ \A b \in Actors \ {"replay"} : act'[b] = act[b]
         /\ polling => act' = act
         /\ ~polling => act'["replay"].at = (IF indexing THEN "defer" ELSE "gate") /\
            act'["replay"].path = p
         /\ UNCHANGED <<disk, clock, queue, overflowed, watched, reader, overlay, saved,
            evidence, memo, indexing, pending, dirty, scheduled, polling, catchUp,
            hiddenComplete, deferred, recovery, scanning, tail, startup, reconcile, ignore,
            recheck, pass, build, cache, search, faults, requests, excused>>
<1>1. /\ act["replay"].at = "idle"
      /\ recovery # "scan"
      /\ p \in replaying
      /\ replaying' = replaying \ {p}
      /\ UNCHANGED <<disk, clock, queue, overflowed, watched, reader, overlay, saved,
         evidence, memo, indexing, pending, dirty, scheduled, polling, catchUp,
         hiddenComplete, deferred, recovery, scanning, tail, startup, reconcile, ignore,
         recheck, pass, build, cache, search, faults, requests, excused>>
  BY Zenon DEF ReplayEvent, file, notices, index, flags, refreshes, replays, searches,
     due, bounds
<1>2. /\ \A b \in Actors \ {"replay"} : act'[b] = act[b]
      /\ polling => act' = act
      /\ ~polling => act'["replay"].at = (IF indexing THEN "defer" ELSE "gate") /\
         act'["replay"].path = p
  <2>1. /\ polling => act' = act
        /\ ~polling => Hand("replay", IF indexing THEN "defer" ELSE "gate", p)
    BY Zenon DEF ReplayEvent, Handle
  <2>2. "replay" \in Actors
    BY DEF Actors
  <2>3. CASE indexing
    BY <2>1, <2>2, <2>3, HandsEvent, Zenon
  <2>4. CASE ~indexing
    BY <2>1, <2>2, <2>4, HandsEvent, Zenon
  <2> QED
    BY <2>3, <2>4, Zenon
<1> QED
  BY <1>1, <1>2, Zenon

\* An event is deferred, or the build is over.
LEMMA DeferDoes ==
  ASSUME TypeOK, ThreadsOK, NEW a \in Actors, Defer(a)
  PROVE  /\ act[a].at = "defer"
         /\ deferred' # deferred => indexing
         /\ \A b \in Actors \ {a} : act'[b] = act[b]
         /\ ~indexing => act'[a].at = "gate" /\ act'[a].path = act[a].path
         /\ indexing => act'[a].at = "idle"
         /\ indexing => deferred' \in {Overflown, Deferred(deferred.paths \cup
            {act[a].path})} /\ (deferred.all => deferred' = Overflown)
         /\ UNCHANGED <<disk, clock, queue, overflowed, watched, reader, overlay, saved,
            evidence, memo, indexing, pending, dirty, scheduled, polling, catchUp,
            hiddenComplete, replaying, recovery, scanning, tail, startup, reconcile, ignore,
            recheck, pass, build, cache, search, faults, requests, excused>>
<1>1. /\ act[a].at = "defer"
      /\ deferred' # deferred => indexing
      /\ UNCHANGED <<disk, clock, queue, overflowed, watched, reader, overlay, saved,
         evidence, memo, indexing, pending, dirty, scheduled, polling, catchUp,
         hiddenComplete, replaying, recovery, scanning, tail, startup, reconcile, ignore,
         recheck, pass, build, cache, search, faults, requests, excused>>
  BY Zenon DEF Defer, file, notices, index, flags, refreshes, replays, searches, due, bounds
<1>2. /\ \A b \in Actors \ {a} : act'[b] = act[b]
      /\ ~indexing => act'[a].at = "gate" /\ act'[a].path = act[a].path
      /\ indexing => act'[a].at = "idle"
  <2>1. act[a].path \in Paths
    BY Handles, Zenon
  <2>2. (indexing => LetGo(a)) /\ (~indexing => Hand(a, "gate", act[a].path))
    BY Zenon DEF Defer
  <2>3. CASE indexing
    BY <2>2, <2>3, LetsGo, Zenon
  <2>4. CASE ~indexing
    BY <2>1, <2>2, <2>4, HandsEvent, Zenon
  <2> QED
    BY <2>3, <2>4, Zenon
<1>3. /\ indexing => deferred' \in {Overflown, Deferred(deferred.paths \cup {act[a].path})}
         /\ (deferred.all => deferred' = Overflown)
  <2>1. indexing => deferred' \in IF deferred.all THEN {Overflown}
                     ELSE {Overflown, Deferred(deferred.paths \cup {act[a].path})}
    BY Zenon DEF Defer
  <2> QED
    BY <2>1, Zenon
<1> QED
  BY <1>1, <1>2, <1>3, Zenon

\* An event enters the gate, unless there is no matcher or its path cannot be looked at.
LEMMA EnterDoes ==
  ASSUME TypeOK, ThreadsOK, NEW a \in Actors, Enter(a)
  PROVE  /\ act[a].at = "gate"
         /\ pass.by = "none"
         /\ excused \subseteq excused'
         /\ \A b \in Actors \ {a} : act'[b] = act[b]
         /\ act'[a].at \in {"idle", "drop", "open"}
         /\ act'[a].at = "idle" \/ (~pending /\ act'[a].path = act[a].path)
         /\ act'[a].at = "drop" => disk[act[a].path] = None
         /\ act'[a].at # "idle" \/ pending \/ act[a].path \in excused'
         /\ UNCHANGED <<disk, clock, queue, overflowed, watched, reader, overlay, saved,
            evidence, memo, indexing, pending, dirty, scheduled, polling, catchUp,
            hiddenComplete, deferred, replaying, recovery, scanning, tail, startup,
            reconcile, ignore, recheck, pass, build, cache, search, requests>>
<1>1. /\ act[a].at = "gate"
      /\ pass.by = "none"
      /\ excused \subseteq excused'
      /\ UNCHANGED <<disk, clock, queue, overflowed, watched, reader, overlay, saved,
         evidence, memo, indexing, pending, dirty, scheduled, polling, catchUp,
         hiddenComplete, deferred, replaying, recovery, scanning, tail, startup, reconcile,
         ignore, recheck, pass, build, cache, search, requests>>
  BY Zenon DEF Enter, file, notices, index, flags, refreshes, replays, searches, due, bounds
<1>2. /\ \A b \in Actors \ {a} : act'[b] = act[b]
      /\ act'[a].at \in {"idle", "drop", "open"}
      /\ act'[a].at = "idle" \/ (~pending /\ act'[a].path = act[a].path)
      /\ act'[a].at = "drop" => disk[act[a].path] = None
      /\ act'[a].at # "idle" \/ pending \/ act[a].path \in excused'
  <2>1. act[a].path \in Paths
    BY Handles, Zenon
  <2>2. \/ pending /\ LetGo(a)
        \/ ~pending /\ Hand(a, "drop", act[a].path) /\ disk[act[a].path] = None
        \/ ~pending /\ Hand(a, "open", act[a].path)
        \/ ~pending /\ LetGo(a) /\ excused' = excused \cup {act[a].path}
    BY Zenon DEF Enter
  <2>3. CASE LetGo(a) /\ (pending \/ excused' = excused \cup {act[a].path})
    <3>1. pending \/ act[a].path \in excused'
      BY <2>3, SMT
    <3> QED
      BY <2>3, <3>1, LetsGo, Zenon
  <2>4. CASE ~pending /\ Hand(a, "drop", act[a].path) /\ disk[act[a].path] = None
    BY <2>1, <2>4, HandsEvent, Zenon
  <2>5. CASE ~pending /\ Hand(a, "open", act[a].path)
    BY <2>1, <2>5, HandsEvent, Zenon
  <2> QED
    BY <2>2, <2>3, <2>4, <2>5, Zenon
<1> QED
  BY <1>1, <1>2, Zenon

\* What was gone is dropped.
LEMMA DropGoneDoes ==
  ASSUME TypeOK, ThreadsOK, NEW a \in Actors, DropGone(a)
  PROVE  /\ act[a].at = "drop"
         /\ UNCHANGED <<reader, saved>>
         /\ \A b \in Actors \ {a} : act'[b] = act[b]
         /\ act'[a].at = "idle"
         /\ excused \subseteq excused'
         /\ a = "replay" /\ disk[act[a].path] # None => act[a].path \in excused'
         /\ UNCHANGED <<disk, clock, queue, overflowed, watched, memo, indexing, pending,
            dirty, scheduled, polling, catchUp, hiddenComplete, deferred, replaying,
            recovery, scanning, tail, startup, reconcile, ignore, recheck, pass, build,
            faults, requests>>
<1>1. /\ act[a].at = "drop"
      /\ UNCHANGED <<disk, clock, queue, overflowed, watched, memo, indexing, pending,
         dirty, scheduled, polling, catchUp, hiddenComplete, deferred, replaying, recovery,
         scanning, tail, startup, reconcile, ignore, recheck, pass, build, faults,
         requests>>
  BY Zenon DEF DropGone, file, notices, index, flags, refreshes, replays, due, bounds
<1>2. /\ UNCHANGED <<reader, saved>>
  BY Zenon DEF DropGone, Drop
<1>3. /\ \A b \in Actors \ {a} : act'[b] = act[b]
      /\ act'[a].at = "idle"
  <2>1. LetGo(a)
    BY Zenon DEF DropGone
  <2> QED
    BY <2>1, LetsGo, Zenon
<1>4. /\ excused \subseteq excused'
      /\ a = "replay" /\ disk[act[a].path] # None => act[a].path \in excused'
  <2>1. excused' = IF a = "replay" /\ disk[act[a].path] # None
                   THEN excused \cup {act[a].path} ELSE excused
    BY Zenon DEF DropGone
  <2> QED
    BY <2>1, SMT
<1> QED
  BY <1>1, <1>2, <1>3, <1>4, Zenon

\* A file is opened, dropped, known, or left for a refresh.
LEMMA OpenDoes ==
  ASSUME TypeOK, ThreadsOK, NEW a \in Actors, Open(a)
  PROVE  /\ act[a].at = "open"
         /\ \A b \in Actors \ {a} : act'[b] = act[b]
         /\ act'[a].at = "idle" \/ (act'[a].at = "verify" /\ act'[a].path = act[a].path)
         /\ (scheduled' /\ ignore' = "check") \/ UNCHANGED <<scheduled, ignore>>
         /\ dirty => dirty'
         /\ UNCHANGED <<dirty, scheduled>> \/ (dirty' /\ (polling \/ scheduled'))
         /\ scheduled => UNCHANGED <<scheduled, ignore>>
         /\ UNCHANGED recheck
         /\ UNCHANGED <<reader, saved>>
         /\ UNCHANGED <<disk, clock, queue, overflowed, watched, memo, indexing, pending,
            polling, catchUp, hiddenComplete, deferred, replaying, recovery, scanning, tail,
            startup, reconcile, pass, build, requests, excused>>
<1>1. /\ act[a].at = "open"
      /\ UNCHANGED <<disk, clock, queue, overflowed, watched, memo, indexing, pending,
         polling, catchUp, hiddenComplete, deferred, replaying, recovery, scanning, tail,
         startup, reconcile, pass, build, requests, excused>>
  BY Zenon DEF Open, file, notices, index, flags, refreshes, replays, due, bounds
<1>2. /\ \A b \in Actors \ {a} : act'[b] = act[b]
      /\ act'[a].at = "idle" \/ (act'[a].at = "verify" /\ act'[a].path = act[a].path)
  BY Opens, Zenon
<1>3. /\ (scheduled' /\ ignore' = "check") \/ UNCHANGED <<scheduled, ignore>>
      /\ dirty => dirty'
      /\ UNCHANGED <<dirty, scheduled>> \/ (dirty' /\ (polling \/ scheduled'))
      /\ scheduled => UNCHANGED <<scheduled, ignore>>
      /\ UNCHANGED recheck
  <2>1. UNCHANGED refreshes \/ (dirty' = TRUE /\ Schedule)
    BY LooksLeaveFlags, Zenon
  <2>2. CASE UNCHANGED refreshes
    BY <2>2, Zenon DEF refreshes
  <2>3. CASE dirty' = TRUE /\ (polling \/ scheduled) /\ Schedule
    <3>1. UNCHANGED <<scheduled, ignore, recheck>>
      BY <2>3, Zenon DEF Schedule
    <3> QED
      BY <2>3, <3>1, Zenon
  <2>4. CASE dirty' = TRUE /\ ~(polling \/ scheduled) /\ Schedule
    <3>1. scheduled' = TRUE /\ ignore' = "check" /\ recheck' = recheck
      BY <2>4, Zenon DEF Schedule
    <3> QED
      BY <2>4, <3>1, Zenon
  <2> QED
    BY <2>1, <2>2, <2>3, <2>4, Zenon
<1>4. /\ UNCHANGED <<reader, saved>>
  BY Looks, Drops, Retries, Commits, Zenon DEF index
<1> QED
  BY <1>1, <1>2, <1>3, <1>4, Zenon

\* What was read is indexed, or not.
LEMMA VerifyDoes ==
  ASSUME TypeOK, ThreadsOK, NEW a \in Actors, Verify(a)
  PROVE  /\ act[a].at = "verify"
         /\ \A b \in Actors \ {a} : act'[b] = act[b]
         /\ act'[a].at = "idle"
         /\ (scheduled' /\ ignore' = "check") \/ UNCHANGED <<scheduled, ignore>>
         /\ dirty => dirty'
         /\ UNCHANGED <<dirty, scheduled>> \/ (dirty' /\ (polling \/ scheduled'))
         /\ scheduled => UNCHANGED <<scheduled, ignore>>
         /\ UNCHANGED recheck
         /\ UNCHANGED <<reader, saved>>
         /\ UNCHANGED <<disk, clock, queue, overflowed, watched, memo, indexing, pending,
            polling, catchUp, hiddenComplete, deferred, replaying, recovery, scanning, tail,
            startup, reconcile, pass, build, faults, requests, excused>>
<1>1. /\ act[a].at = "verify"
      /\ UNCHANGED <<disk, clock, queue, overflowed, watched, memo, indexing, pending,
         polling, catchUp, hiddenComplete, deferred, replaying, recovery, scanning, tail,
         startup, reconcile, pass, build, faults, requests, excused>>
  BY Zenon DEF Verify, file, notices, index, flags, refreshes, replays, due, bounds
<1>2. /\ \A b \in Actors \ {a} : act'[b] = act[b]
      /\ act'[a].at = "idle"
  <2>1. LetGo(a)
    BY Zenon DEF Verify
  <2> QED
    BY <2>1, LetsGo, Zenon
<1>3. /\ (scheduled' /\ ignore' = "check") \/ UNCHANGED <<scheduled, ignore>>
      /\ dirty => dirty'
      /\ UNCHANGED <<dirty, scheduled>> \/ (dirty' /\ (polling \/ scheduled'))
      /\ scheduled => UNCHANGED <<scheduled, ignore>>
      /\ UNCHANGED recheck
  <2>1. UNCHANGED refreshes \/ (dirty' = TRUE /\ Schedule)
    BY LooksLeaveFlags, Zenon
  <2>2. CASE UNCHANGED refreshes
    BY <2>2, Zenon DEF refreshes
  <2>3. CASE dirty' = TRUE /\ (polling \/ scheduled) /\ Schedule
    <3>1. UNCHANGED <<scheduled, ignore, recheck>>
      BY <2>3, Zenon DEF Schedule
    <3> QED
      BY <2>3, <3>1, Zenon
  <2>4. CASE dirty' = TRUE /\ ~(polling \/ scheduled) /\ Schedule
    <3>1. scheduled' = TRUE /\ ignore' = "check" /\ recheck' = recheck
      BY <2>4, Zenon DEF Schedule
    <3> QED
      BY <2>4, <3>1, Zenon
  <2> QED
    BY <2>1, <2>2, <2>3, <2>4, Zenon
<1>4. /\ UNCHANGED <<reader, saved>>
  BY Looks, Drops, Retries, Commits, Zenon DEF index
<1> QED
  BY <1>1, <1>2, <1>3, <1>4, Zenon

\* A recovery replays what was deferred,
LEMMA RecoveryReplaysDoes ==
  ASSUME TypeOK, ThreadsOK, RecoveryReplays
  PROVE  /\ recovery = "wait"
         /\ ~indexing
         /\ polling => recovery' = "off" /\ UNCHANGED <<deferred, replaying, reconcile>>
         /\ ~polling => recovery' = "replay" /\ scanning' = scanning /\ deferred' =
            Deferred({})
         /\ ~polling /\ deferred.all => reconcile'
         /\ ~polling /\ ~deferred.all => replaying' = replaying \cup deferred.paths /\
            reconcile' = reconcile
         /\ replaying \subseteq replaying'
         /\ reconcile => reconcile'
         /\ UNCHANGED <<disk, clock, queue, overflowed, watched, reader, overlay, saved,
            evidence, memo, indexing, pending, dirty, scheduled, polling, catchUp,
            hiddenComplete, act, tail, startup, ignore, recheck, pass, build, cache, search,
            faults, requests, excused>>
BY Zenon DEF RecoveryReplays, Replay, file, notices, index, flags, refreshes, replays,
   searches,
       due, bounds

\* takes the gate,
LEMMA RecoveryScansDoes ==
  ASSUME TypeOK, ThreadsOK, RecoveryScans
  PROVE  /\ recovery = "replay"
         /\ pass.by = "none"
         /\ act["replay"].at = "idle"
         /\ polling => recovery' = "off"
         /\ ~polling => recovery' = "scan"
         /\ polling \/ scanning' = scanning
         /\ replaying = {}
         /\ UNCHANGED <<disk, clock, queue, overflowed, watched, reader, overlay, saved,
            evidence, memo, indexing, pending, dirty, scheduled, polling, catchUp,
            hiddenComplete, deferred, act, replaying, tail, startup, reconcile, ignore,
            recheck, pass, build, cache, search, faults, requests, excused>>
BY Zenon DEF RecoveryScans, Replayed, file, notices, index, flags, refreshes, replays,
   searches,
       due, bounds

\* looks at each file,
LEMMA ScanOneDoes ==
  ASSUME TypeOK, ThreadsOK, NEW p \in Paths, ScanOne(p)
  PROVE  /\ recovery = "scan"
         /\ act["replay"].at = "idle"
         /\ p \in scanning
         /\ scanning' = scanning \ {p}
         /\ \A b \in Actors \ {"replay"} : act'[b] = act[b]
         /\ act'["replay"].at = "open"
         /\ act'["replay"].path = p
         /\ UNCHANGED <<disk, clock, queue, overflowed, watched, reader, overlay, saved,
            evidence, memo, indexing, pending, dirty, scheduled, polling, catchUp,
            hiddenComplete, deferred, replaying, recovery, tail, startup, reconcile, ignore,
            recheck, pass, build, cache, search, faults, requests, excused>>
<1>1. /\ recovery = "scan"
      /\ act["replay"].at = "idle"
      /\ p \in scanning
      /\ scanning' = scanning \ {p}
      /\ UNCHANGED <<disk, clock, queue, overflowed, watched, reader, overlay, saved,
         evidence, memo, indexing, pending, dirty, scheduled, polling, catchUp,
         hiddenComplete, deferred, replaying, recovery, tail, startup, reconcile, ignore,
         recheck, pass, build, cache, search, faults, requests, excused>>
  BY Zenon DEF ScanOne, file, notices, index, flags, refreshes, replays, searches, due,
     bounds
<1>2. /\ \A b \in Actors \ {"replay"} : act'[b] = act[b]
      /\ act'["replay"].at = "open"
      /\ act'["replay"].path = p
  <2>1. act' = [act EXCEPT !["replay"] = [Idle EXCEPT !.at = "open", !.path = p]]
    BY Zenon DEF ScanOne
  <2>2. "replay" \in Actors
    BY DEF Actors
  <2> QED
    BY <2>1, <2>2, HandsFile, Zenon
<1> QED
  BY <1>1, <1>2, Zenon

\* and releases the gate.
LEMMA RecoveryEndsDoes ==
  ASSUME TypeOK, ThreadsOK, RecoveryEnds
  PROVE  /\ recovery = "scan"
         /\ act["replay"].at = "idle"
         /\ recovery' = "off"
         /\ scanning = {}
         /\ UNCHANGED <<disk, clock, queue, overflowed, watched, reader, overlay, saved,
            evidence, memo, indexing, pending, dirty, scheduled, polling, catchUp,
            hiddenComplete, deferred, act, replaying, scanning, tail, startup, reconcile,
            ignore, recheck, pass, build, cache, search, faults, requests, excused>>
BY Zenon DEF RecoveryEnds, file, notices, index, flags, refreshes, replays, searches,
   due, bounds

\* A refresh of the rules takes the request,
LEMMA IgnoreChecksDoes ==
  ASSUME TypeOK, ThreadsOK, IgnoreChecks
  PROVE  /\ ignore = "check"
         /\ polling => ignore' = "off" /\ ~scheduled'
         /\ ~polling => ignore' \in {"wait", "clear"} /\ scheduled' = scheduled
         /\ ~polling /\ dirty => ignore' = "wait"
         /\ polling \/ ~dirty'
         /\ UNCHANGED <<disk, clock, queue, overflowed, watched, reader, overlay, saved,
            evidence, memo, indexing, pending, polling, catchUp, hiddenComplete, deferred,
            act, replaying, recovery, scanning, tail, startup, reconcile, recheck, pass,
            build, cache, search, faults, requests, excused>>
BY Zenon DEF IgnoreChecks, file, notices, index, flags, refreshes, replays, searches,
   due, bounds

\* waits for a build,
LEMMA IgnoreWaitsDoes ==
  ASSUME TypeOK, ThreadsOK, IgnoreWaits
  PROVE  /\ ignore = "wait"
         /\ ~indexing
         /\ polling => ignore' = "off" /\ ~scheduled'
         /\ ~polling => ignore' = "run" /\ scheduled' = scheduled
         /\ UNCHANGED <<disk, clock, queue, overflowed, watched, reader, overlay, saved,
            evidence, memo, indexing, pending, dirty, polling, catchUp, hiddenComplete,
            deferred, act, replaying, recovery, scanning, tail, startup, reconcile, recheck,
            pass, build, cache, search, faults, requests, excused>>
BY Zenon DEF IgnoreWaits, file, notices, index, flags, refreshes, replays, searches, due,
   bounds

\* is unscheduled,
LEMMA IgnoreClearsDoes ==
  ASSUME TypeOK, ThreadsOK, IgnoreClears
  PROVE  /\ ignore = "clear"
         /\ ignore' = "off"
         /\ ~scheduled'
         /\ recheck'
         /\ UNCHANGED <<disk, clock, queue, overflowed, watched, reader, overlay, saved,
            evidence, memo, indexing, pending, dirty, polling, catchUp, hiddenComplete,
            deferred, act, replaying, recovery, scanning, tail, startup, reconcile, pass,
            build, cache, search, faults, requests, excused>>
BY Zenon DEF IgnoreClears, file, notices, index, flags, refreshes, replays, searches,
   due, bounds

\* and looks at the request again.
LEMMA IgnoreRechecksDoes ==
  ASSUME TypeOK, ThreadsOK, IgnoreRechecks
  PROVE  /\ dirty /\ ~scheduled => scheduled' /\ ignore' = "check"
         /\ ~(dirty /\ ~scheduled) => UNCHANGED <<scheduled, ignore>>
         /\ recheck
         /\ ~recheck'
         /\ UNCHANGED <<disk, clock, queue, overflowed, watched, reader, overlay, saved,
            evidence, memo, indexing, pending, dirty, polling, catchUp, hiddenComplete,
            deferred, act, replaying, recovery, scanning, tail, startup, reconcile, pass,
            build, cache, search, faults, requests, excused>>
BY Zenon DEF IgnoreRechecks, file, notices, index, flags, refreshes, replays, searches, due,
       bounds

\* A pass begins for the startup,
LEMMA StartupPassDoes ==
  ASSUME TypeOK, ThreadsOK, StartupPass
  PROVE  /\ startup
         /\ pass'.by = "startup"
         /\ UNCHANGED <<disk, clock, queue, overflowed, watched, reader, overlay, saved,
            evidence, memo, indexing, pending, scheduled, polling, hiddenComplete, deferred,
            act, replaying, recovery, scanning, tail, startup, reconcile, ignore, recheck,
            build, cache, search, faults, requests, excused>>
<1>1. /\ startup
      /\ UNCHANGED <<disk, clock, queue, overflowed, watched, reader, overlay, saved,
         evidence, memo, indexing, pending, scheduled, polling, hiddenComplete, deferred,
         act, replaying, recovery, scanning, tail, startup, reconcile, ignore, recheck,
         build, cache, search, faults, requests, excused>>
  BY Zenon DEF StartupPass, BeginPass, file, notices, index, flags, refreshes, replays,
     searches,
       due, bounds
<1>2. /\ pass'.by = "startup"
  BY NewWalks, Zenon DEF StartupPass, BeginPass
<1> QED
  BY <1>1, <1>2, Zenon

\* for the rules,
LEMMA IgnorePassDoes ==
  ASSUME TypeOK, ThreadsOK, IgnorePass
  PROVE  /\ ignore = "run"
         /\ pass'.by = "ignore"
         /\ UNCHANGED <<disk, clock, queue, overflowed, watched, reader, overlay, saved,
            evidence, memo, indexing, pending, scheduled, polling, hiddenComplete, deferred,
            act, replaying, recovery, scanning, tail, startup, reconcile, ignore, recheck,
            build, cache, search, faults, requests, excused>>
<1>1. /\ ignore = "run"
      /\ UNCHANGED <<disk, clock, queue, overflowed, watched, reader, overlay, saved,
         evidence, memo, indexing, pending, scheduled, polling, hiddenComplete, deferred,
         act, replaying, recovery, scanning, tail, startup, reconcile, ignore, recheck,
         build, cache, search, faults, requests, excused>>
  BY Zenon DEF IgnorePass, BeginPass, file, notices, index, flags, refreshes, replays,
     searches,
       due, bounds
<1>2. /\ pass'.by = "ignore"
  BY NewWalks, Zenon DEF IgnorePass, BeginPass
<1> QED
  BY <1>1, <1>2, Zenon

\* for a loss of events,
LEMMA OverflowPassDoes ==
  ASSUME TypeOK, ThreadsOK, OverflowPass
  PROVE  /\ act["watcher"].at = "idle"
         /\ overflowed
         /\ ~polling
         /\ ~indexing
         /\ ~pending
         /\ ~overflowed'
         /\ pass'.by = "overflow"
         /\ UNCHANGED <<disk, clock, queue, watched, reader, overlay, saved, evidence, memo,
            indexing, pending, scheduled, polling, hiddenComplete, deferred, act, replaying,
            recovery, scanning, tail, startup, reconcile, ignore, recheck, build, cache,
            search, faults, requests, excused>>
<1>1. /\ act["watcher"].at = "idle"
      /\ overflowed
      /\ ~polling
      /\ ~indexing
      /\ ~pending
      /\ ~overflowed'
      /\ UNCHANGED <<disk, clock, queue, watched, reader, overlay, saved, evidence, memo,
         indexing, pending, scheduled, polling, hiddenComplete, deferred, act, replaying,
         recovery, scanning, tail, startup, reconcile, ignore, recheck, build, cache,
         search, faults, requests, excused>>
  BY Zenon DEF OverflowPass, BeginPass, file, notices, index, flags, refreshes, replays,
     searches,
       due, bounds
<1>2. /\ pass'.by = "overflow"
  BY NewWalks, Zenon DEF OverflowPass, BeginPass
<1> QED
  BY <1>1, <1>2, Zenon

\* for a loss of deferred ones,
LEMMA DeferredPassDoes ==
  ASSUME TypeOK, ThreadsOK, DeferredPass
  PROVE  /\ reconcile
         /\ ~reconcile'
         /\ pass'.by = "deferred"
         /\ UNCHANGED <<disk, clock, queue, overflowed, watched, reader, overlay, saved,
            evidence, memo, indexing, pending, scheduled, polling, hiddenComplete, deferred,
            act, replaying, recovery, scanning, tail, startup, ignore, recheck, build,
            cache, search, faults, requests, excused>>
<1>1. /\ reconcile
      /\ ~reconcile'
      /\ UNCHANGED <<disk, clock, queue, overflowed, watched, reader, overlay, saved,
         evidence, memo, indexing, pending, scheduled, polling, hiddenComplete, deferred,
         act, replaying, recovery, scanning, tail, startup, ignore, recheck, build, cache,
         search, faults, requests, excused>>
  BY Zenon DEF DeferredPass, BeginPass, file, notices, index, flags, refreshes, replays,
     searches,
       due, bounds
<1>2. /\ pass'.by = "deferred"
  BY NewWalks, Zenon DEF DeferredPass, BeginPass
<1> QED
  BY <1>1, <1>2, Zenon

\* after a build,
LEMMA BuildPassDoes ==
  ASSUME TypeOK, ThreadsOK, BuildPass
  PROVE  /\ build.by = "published"
         /\ pass'.by = "build"
         /\ UNCHANGED <<disk, clock, queue, overflowed, watched, reader, overlay, saved,
            evidence, memo, indexing, pending, scheduled, polling, hiddenComplete, deferred,
            act, replaying, recovery, scanning, tail, startup, reconcile, ignore, recheck,
            build, cache, search, faults, requests, excused>>
<1>1. /\ build.by = "published"
      /\ UNCHANGED <<disk, clock, queue, overflowed, watched, reader, overlay, saved,
         evidence, memo, indexing, pending, scheduled, polling, hiddenComplete, deferred,
         act, replaying, recovery, scanning, tail, startup, reconcile, ignore, recheck,
         build, cache, search, faults, requests, excused>>
  BY Zenon DEF BuildPass, BeginPass, file, notices, index, flags, refreshes, replays,
     searches, due,
       bounds
<1>2. /\ pass'.by = "build"
  BY NewWalks, Zenon DEF BuildPass, BeginPass
<1> QED
  BY <1>1, <1>2, Zenon

\* or after a reload.
LEMMA ReloadPassDoes ==
  ASSUME TypeOK, ThreadsOK, ReloadPass
  PROVE  /\ tail = "catchup"
         /\ pass'.by = "catchup"
         /\ UNCHANGED <<disk, clock, queue, overflowed, watched, reader, overlay, saved,
            evidence, memo, indexing, pending, scheduled, polling, hiddenComplete, deferred,
            act, replaying, recovery, scanning, tail, startup, reconcile, ignore, recheck,
            build, cache, search, faults, requests, excused>>
<1>1. /\ tail = "catchup"
      /\ UNCHANGED <<disk, clock, queue, overflowed, watched, reader, overlay, saved,
         evidence, memo, indexing, pending, scheduled, polling, hiddenComplete, deferred,
         act, replaying, recovery, scanning, tail, startup, reconcile, ignore, recheck,
         build, cache, search, faults, requests, excused>>
  BY Zenon DEF ReloadPass, BeginPass, file, notices, index, flags, refreshes, replays,
     searches,
       due, bounds
<1>2. /\ pass'.by = "catchup"
  BY NewWalks, Zenon DEF ReloadPass, BeginPass
<1> QED
  BY <1>1, <1>2, Zenon

\* It walks,
LEMMA WalkDoes ==
  ASSUME TypeOK, ThreadsOK, NEW p \in Paths, Walk(p)
  PROVE  /\ UNCHANGED <<disk, clock, queue, overflowed, watched, reader, overlay, saved,
            evidence, memo, indexing, pending, dirty, scheduled, polling, catchUp,
            hiddenComplete, deferred, act, replaying, recovery, scanning, tail, startup,
            reconcile, ignore, recheck, build, cache, search, faults, requests, excused>>
BY Zenon DEF Walk, file, notices, index, flags, refreshes, replays, searches, due, bounds

\* reads,
LEMMA ReadDoes ==
  ASSUME TypeOK, ThreadsOK, NEW p \in Paths, Read(p)
  PROVE  /\ excused \subseteq excused'
         /\ UNCHANGED <<disk, clock, queue, overflowed, watched, reader, overlay, saved,
            evidence, memo, indexing, pending, dirty, scheduled, polling, catchUp,
            hiddenComplete, deferred, act, replaying, recovery, scanning, tail, startup,
            reconcile, ignore, recheck, build, cache, search, requests>>
BY Zenon DEF Read, file, notices, index, flags, refreshes, replays, searches, due, bounds

\* scans what it newly watches,
LEMMA PassScansDoes ==
  ASSUME TypeOK, ThreadsOK, NEW p \in Paths, PassScans(p)
  PROVE  /\ pass.at = "scan"
         /\ act["scan"].at = "idle"
         /\ p \in pass.scan
         /\ \A b \in Actors \ {"scan"} : act'[b] = act[b]
         /\ act'["scan"].at = "open"
         /\ act'["scan"].path = p
         /\ UNCHANGED <<disk, clock, queue, overflowed, watched, reader, overlay, saved,
            evidence, memo, indexing, pending, dirty, scheduled, polling, catchUp,
            hiddenComplete, deferred, replaying, recovery, scanning, tail, startup,
            reconcile, ignore, recheck, build, cache, search, faults, requests, excused>>
<1>1. /\ pass.at = "scan"
      /\ act["scan"].at = "idle"
      /\ p \in pass.scan
      /\ UNCHANGED <<disk, clock, queue, overflowed, watched, reader, overlay, saved,
         evidence, memo, indexing, pending, dirty, scheduled, polling, catchUp,
         hiddenComplete, deferred, replaying, recovery, scanning, tail, startup, reconcile,
         ignore, recheck, build, cache, search, faults, requests, excused>>
  BY Zenon DEF PassScans, file, notices, index, flags, refreshes, replays, searches, due,
     bounds
<1>2. /\ \A b \in Actors \ {"scan"} : act'[b] = act[b]
      /\ act'["scan"].at = "open"
      /\ act'["scan"].path = p
  <2>1. act' = [act EXCEPT !["scan"] = [Idle EXCEPT !.at = "open", !.path = p]]
    BY Zenon DEF PassScans
  <2>2. "scan" \in Actors
    BY DEF Actors
  <2> QED
    BY <2>1, <2>2, HandsFile, Zenon
<1> QED
  BY <1>1, <1>2, Zenon

\* has walked: a matcher is published,
LEMMA ClassifyDoes ==
  ASSUME TypeOK, ThreadsOK, Classify
  PROVE  /\ ~pending'
         /\ watched'
         /\ UNCHANGED <<disk, clock, queue, overflowed, reader, overlay, saved, evidence,
            indexing, dirty, scheduled, polling, catchUp, deferred, act, replaying,
            recovery, scanning, tail, startup, reconcile, ignore, recheck, build, cache,
            search, requests, excused>>
BY Zenon DEF Classify, file, notices, index, flags, refreshes, replays, searches, due,
   bounds

\* publishes,
LEMMA PublishDoes ==
  ASSUME TypeOK, ThreadsOK, Publish
  PROVE  /\ UNCHANGED <<disk, clock, queue, overflowed, watched, indexing, pending, dirty,
            scheduled, polling, catchUp, deferred, act, replaying, recovery, scanning, tail,
            startup, reconcile, ignore, recheck, build, requests, excused>>
BY Zenon DEF Publish, file, notices, flags, refreshes, replays, due, bounds

\* and ends, its caller told how.
LEMMA EndPassDoes ==
  ASSUME TypeOK, ThreadsOK, EndPass
  PROVE  /\ pass.at = "failed" \/ (pass.at = "scan" /\ act["scan"].at = "idle")
         /\ ignore' = IF pass.by = "ignore" THEN "clear" ELSE ignore
         /\ excused' = Paths \/ excused' = excused
         /\ tail' = IF pass.by = "catchup" THEN "off" ELSE tail
         /\ pass.at = "failed" \/ pass.scan = {}
         /\ startup' => startup
         /\ startup /\ pass.by # "startup" => startup'
         /\ dirty => dirty'
         /\ overflowed => overflowed'
         /\ ~polling /\ pass.by = "startup" /\ pass.at = "failed" => startup' = startup
         /\ pass.by = "ignore" /\ pass.at = "failed" => dirty'
         /\ pass.by = "overflow" /\ pass.at = "failed" => overflowed'
         /\ pass.by \in {"deferred", "catchup"} /\ pass.at = "failed" => excused' = Paths
         /\ UNCHANGED <<disk, clock, queue, watched, reader, overlay, saved, evidence, memo,
            indexing, pending, scheduled, polling, catchUp, hiddenComplete, deferred, act,
            replaying, recovery, scanning, reconcile, recheck, cache, search, faults,
            requests>>
<1>1. /\ pass.at = "failed" \/ (pass.at = "scan" /\ act["scan"].at = "idle")
      /\ ignore' = IF pass.by = "ignore" THEN "clear" ELSE ignore
      /\ excused' = Paths \/ excused' = excused
      /\ tail' = IF pass.by = "catchup" THEN "off" ELSE tail
      /\ pass.at = "failed" \/ pass.scan = {}
      /\ UNCHANGED <<disk, clock, queue, watched, reader, overlay, saved, evidence, memo,
         indexing, pending, scheduled, polling, catchUp, hiddenComplete, deferred, act,
         replaying, recovery, scanning, reconcile, recheck, cache, search, faults,
         requests>>
  BY Zenon DEF EndPass, file, notices, index, flags, refreshes, replays, searches, due,
     bounds
<1>2. /\ startup' => startup
      /\ startup /\ pass.by # "startup" => startup'
      /\ dirty => dirty'
      /\ overflowed => overflowed'
  BY Zenon DEF EndPass
<1>3. /\ ~polling /\ pass.by = "startup" /\ pass.at = "failed" => startup' = startup
      /\ pass.by = "ignore" /\ pass.at = "failed" => dirty'
      /\ pass.by = "overflow" /\ pass.at = "failed" => overflowed'
      /\ pass.by \in {"deferred", "catchup"} /\ pass.at = "failed" => excused' = Paths
  <2>1. ASSUME pass.at = "failed"
        PROVE  /\ startup' = (startup /\ ~(pass.by = "startup" /\ polling))
               /\ dirty' = (dirty \/ pass.by = "ignore")
               /\ overflowed' = (overflowed \/ pass.by = "overflow")
               /\ excused' = IF pass.by \in {"deferred", "catchup"} THEN Paths ELSE excused
    <3>1. ~(pass.at = "scan")
      BY <2>1
    <3> QED
      BY <3>1, SMT DEF EndPass
  <2>2. startup \in BOOLEAN
    BY Zenon DEF TypeOK
  <2> QED
    BY <2>1, <2>2, Zenon
<1> QED
  BY <1>1, <1>2, <1>3, Zenon

\* The startup refresh leaves its work to the poller.
LEMMA StartupYieldsDoes ==
  ASSUME TypeOK, ThreadsOK, StartupYields
  PROVE  /\ startup
         /\ polling
         /\ pass.by \in {"none", "autosave"}
         /\ ~startup'
         /\ UNCHANGED <<disk, clock, queue, overflowed, watched, reader, overlay, saved,
            evidence, memo, indexing, pending, dirty, scheduled, polling, catchUp,
            hiddenComplete, deferred, act, replaying, recovery, scanning, tail, reconcile,
            ignore, recheck, pass, build, cache, search, faults, requests, excused>>
BY Zenon DEF StartupYields, file, notices, index, flags, refreshes, replays, searches,
   due, bounds

\* A build reads a file,
LEMMA BuildReadDoes ==
  ASSUME TypeOK, ThreadsOK, NEW p \in Paths, BuildRead(p)
  PROVE  /\ excused \subseteq excused'
         /\ UNCHANGED <<disk, clock, queue, overflowed, watched, reader, overlay, saved,
            evidence, memo, indexing, pending, dirty, scheduled, polling, catchUp,
            hiddenComplete, deferred, act, replaying, recovery, scanning, tail, startup,
            reconcile, ignore, recheck, pass, cache, search, requests>>
BY Zenon DEF BuildRead, file, notices, index, flags, refreshes, replays, searches, due,
   bounds

\* publishes,
LEMMA BuildPublishDoes ==
  ASSUME TypeOK, ThreadsOK, BuildPublish
  PROVE  /\ build.by = "startup"
         /\ GateFree
         /\ ~pending'
         /\ watched'
         /\ overlay' = [p \in Paths |-> None]
         /\ polling => UNCHANGED <<recovery, scanning>>
         /\ ~polling => recovery' = "wait" /\ scanning' = Paths
         /\ Invalidate(Paths)
         /\ UNCHANGED <<disk, clock, queue, overflowed, memo, indexing, dirty, scheduled,
            polling, catchUp, deferred, act, replaying, tail, startup, reconcile, ignore,
            recheck, pass, faults, requests, excused>>
BY Zenon DEF BuildPublish, file, notices, flags, refreshes, replays, due, bounds

\* fails,
LEMMA BuildFailsDoes ==
  ASSUME TypeOK, ThreadsOK, BuildFails
  PROVE  /\ build.by = "startup"
         /\ UNCHANGED <<disk, clock, queue, overflowed, watched, reader, overlay, saved,
            evidence, memo, indexing, pending, dirty, scheduled, polling, catchUp,
            hiddenComplete, deferred, act, replaying, recovery, scanning, tail, startup,
            reconcile, ignore, recheck, pass, cache, search, requests, excused>>
BY Zenon DEF BuildFails, file, notices, index, flags, refreshes, replays, searches, due,
   bounds

\* and ends.
LEMMA BuildEndsDoes ==
  ASSUME TypeOK, ThreadsOK, BuildEnds
  PROVE  /\ build.by \in {"complete", "failed"}
         /\ ~indexing'
         /\ build.by = "failed" => pass.by = "none" /\ excused' = Paths /\ UNCHANGED
            <<scheduled, ignore>>
         /\ (scheduled' /\ ignore' = "check") \/ UNCHANGED <<scheduled, ignore>>
         /\ build.by = "complete" => excused' = excused
         /\ UNCHANGED <<disk, clock, queue, overflowed, watched, reader, overlay, saved,
            evidence, memo, pending, dirty, polling, catchUp, deferred, act, replaying,
            recovery, scanning, tail, startup, reconcile, recheck, pass, cache, search,
            faults, requests>>
BY Zenon DEF BuildEnds, Schedule, file, notices, index, flags, refreshes, replays,
   searches, due,
       bounds

\* A reload publishes,
LEMMA ReloadPublishDoes ==
  ASSUME TypeOK, ThreadsOK, ReloadPublish
  PROVE  /\ build.by = "reload"
         /\ ~pending'
         /\ watched'
         /\ ~indexing'
         /\ tail' = "replay"
         /\ overlay' = [p \in Paths |-> None]
         /\ UNCHANGED <<disk, clock, queue, overflowed, memo, dirty, scheduled, polling,
            catchUp, deferred, act, replaying, recovery, scanning, startup, reconcile,
            ignore, recheck, faults, requests, excused>>
BY Zenon DEF ReloadPublish, file, notices, flags, refreshes, replays, due, bounds

\* or fails,
LEMMA ReloadFailsDoes ==
  ASSUME TypeOK, ThreadsOK, ReloadFails
  PROVE  /\ build.by = "reload"
         /\ ~indexing'
         /\ tail' = "failed"
         /\ UNCHANGED <<disk, clock, queue, overflowed, watched, reader, overlay, saved,
            evidence, memo, pending, dirty, scheduled, polling, catchUp, hiddenComplete,
            deferred, act, replaying, recovery, scanning, startup, reconcile, ignore,
            recheck, cache, search, requests, excused>>
BY Zenon DEF ReloadFails, file, notices, index, flags, refreshes, replays, searches, due,
   bounds

\* replays what was deferred,
LEMMA ReloadReplaysDoes ==
  ASSUME TypeOK, ThreadsOK, ReloadReplays
  PROVE  /\ tail \in {"replay", "failed"}
         /\ tail' = IF tail = "replay" THEN "rest" ELSE "last"
         /\ deferred' = Deferred({})
         /\ ~polling /\ deferred.all => reconcile'
         /\ ~polling /\ ~deferred.all => replaying' = replaying \cup deferred.paths
         /\ replaying \subseteq replaying'
         /\ reconcile => reconcile'
         /\ UNCHANGED <<disk, clock, queue, overflowed, watched, reader, overlay, saved,
            evidence, memo, indexing, pending, dirty, scheduled, polling, catchUp,
            hiddenComplete, act, recovery, scanning, startup, ignore, recheck, pass, build,
            cache, search, faults, requests, excused>>
BY Zenon DEF ReloadReplays, Replay, file, notices, index, flags, refreshes, replays,
   searches,
       due, bounds

\* and rests.
LEMMA ReloadRestsDoes ==
  ASSUME TypeOK, ThreadsOK, ReloadRests
  PROVE  /\ tail \in {"rest", "last"}
         /\ tail' \in {"off", "catchup"}
         /\ tail = "last" \/ polling => UNCHANGED <<recovery, scanning>>
         /\ tail = "last" => tail' = "off"
         /\ recovery' = recovery \/ (recovery = "off" /\ recovery' = "wait" /\ tail =
            "rest")
         /\ (scheduled' /\ ignore' = "check") \/ UNCHANGED <<scheduled, ignore>>
         /\ scheduled => UNCHANGED <<scheduled, ignore>>
         /\ replaying = {}
         /\ act["replay"].at = "idle"
         /\ polling \/ tail = "last" \/ tail' = "off"
         /\ scanning \subseteq scanning'
         /\ UNCHANGED <<disk, clock, queue, overflowed, watched, reader, overlay, saved,
            evidence, memo, indexing, pending, dirty, polling, catchUp, hiddenComplete,
            deferred, act, replaying, startup, reconcile, recheck, pass, build, cache,
            search, faults, requests, excused>>
BY Zenon DEF ReloadRests, Schedule, Replayed, file, notices, index, flags, refreshes,
   replays,
       searches, due, bounds

\* A search looks into the cache,
LEMMA LoadDoes ==
  ASSUME TypeOK, ThreadsOK, Load
  PROVE  /\ UNCHANGED <<disk, clock, queue, overflowed, watched, reader, overlay, saved,
            evidence, memo, indexing, pending, dirty, scheduled, polling, catchUp,
            hiddenComplete, deferred, act, replaying, recovery, scanning, tail, startup,
            reconcile, ignore, recheck, pass, build, cache, faults, requests, excused>>
BY Zenon DEF Load, SearchFrame, file, notices, index, flags, refreshes, replays,
   searches, due,
       bounds

\* reads the file,
LEMMA ReadFileDoes ==
  ASSUME TypeOK, ThreadsOK, ReadFile
  PROVE  /\ UNCHANGED <<disk, clock, queue, overflowed, watched, reader, overlay, saved,
            evidence, memo, indexing, pending, dirty, scheduled, polling, catchUp,
            hiddenComplete, deferred, act, replaying, recovery, scanning, tail, startup,
            reconcile, ignore, recheck, pass, build, cache, faults, requests, excused>>
BY Zenon DEF ReadFile, SearchFrame, file, notices, index, flags, refreshes, replays,
   searches,
       due, bounds

\* and keeps what it read.
LEMMA UpdateCacheDoes ==
  ASSUME TypeOK, ThreadsOK, UpdateCache
  PROVE  /\ search.at = "read"
         /\ UNCHANGED <<disk, clock, queue, overflowed, watched, reader, overlay, saved,
            evidence, memo, indexing, pending, dirty, scheduled, polling, catchUp,
            hiddenComplete, deferred, act, replaying, recovery, scanning, tail, startup,
            reconcile, ignore, recheck, pass, build, faults, requests, excused>>
BY Zenon DEF UpdateCache, SearchFrame, file, notices, index, flags, refreshes, replays, due,
       bounds

-----------------------------------------------------------------------------
(* Control. *)

\* What changes the index may only empty the cache and mark a search.
LEMMA IndexEmptiesCache ==
  ASSUME TypeOK, ThreadsOK,
         \/ \E a \in Actors : Open(a) \/ Verify(a) \/ DropGone(a)
         \/ Publish \/ BuildPublish \/ ReloadPublish
  PROVE  /\ \A p \in Paths : cache'[p] = cache[p] \/ cache'[p] = None
         /\ search'.at = search.at /\ search'.path = search.path /\ search'.copy = search.copy
         /\ search' = search \/ search'.moved
<1>1. UNCHANGED searches \/ \E S \in SUBSET Paths : Invalidate(S)
  <2>1. CASE \E a \in Actors : Open(a) \/ Verify(a) \/ DropGone(a)
    BY <2>1, LookInvalidates, Zenon
  <2>2. CASE Publish \/ BuildPublish \/ ReloadPublish
    <3>1. Paths \in SUBSET Paths
      OBVIOUS
    <3> QED
      BY <2>2, <3>1, Merges, Zenon DEF Publish, BuildPublish, ReloadPublish
  <2> QED
    BY <2>1, <2>2
<1>2. CASE UNCHANGED searches
  BY <1>2, Zenon DEF searches
<1>3. ASSUME NEW S \in SUBSET Paths, Invalidate(S)
      PROVE  /\ \A p \in Paths : cache'[p] = cache[p] \/ cache'[p] = None
             /\ search' = search \/ search' = [search EXCEPT !.moved = TRUE]
  BY <1>3, Invalidates, Zenon
<1>4. CASE \E S \in SUBSET Paths : Invalidate(S)
  BY <1>3, <1>4, SearchMarked, Zenon
<1> QED
  BY <1>1, <1>2, <1>4

\* A refresh that is asked for has a thread, and what is deferred a replay.
LEMMA QueueInvStep == TypeOK /\ ThreadsOK /\ ControlInv /\ [Next]_vars => QueueInv'
<1> SUFFICES ASSUME TypeOK, ThreadsOK, ControlInv, [Next]_vars
             PROVE  QueueInv'
  OBVIOUS
<1> USE DEF ControlInv, QueueInv, GateInv, BuildInv
<1>t. excused \subseteq Paths /\ excused' \subseteq Paths
  BY TypeBounds, Zenon DEF TypeOK, BoundsOK
<1>b. FlagsOK /\ FlagsOK'
  BY TypeFlags, Zenon DEF TypeOK, FlagsOK
<1>0. ASSUME UNCHANGED <<deferred, excused, ignore, indexing, polling, recovery,
                              scheduled, tail>> PROVE QueueInv'
  BY <1>0, SMT
<1>1. CASE UNCHANGED vars
  <2>1. UNCHANGED <<deferred, excused, ignore, indexing, polling, recovery, scheduled,
                  tail>>
    BY <1>1 DEF vars, flags, refreshes, replays, bounds
  <2> QED
    BY <1>0, <2>1
<1>2. CASE Environment
  <2>1. ASSUME RulesEvent PROVE QueueInv'
    BY <2>1, <1>t, RulesEventDoes, SMT
  <2>2. ASSUME TurnToPolling PROVE QueueInv'
    BY <2>2, <1>t, TurnToPollingDoes, SMT
  <2>3. ASSUME BeginReload PROVE QueueInv'
    BY <2>3, <1>t, BeginReloadDoes, PassMoves, BuildMoves, SMT
  <2>4. ASSUME (\E p \in Paths : \E d \in Contents : Write(p, d)) \/ (\E p \in Paths :
               Remove(p)) \/ PeriodicPass \/ BeginSave \/ (\E p \in Paths : Admit(p))
        PROVE  QueueInv'
    <3>1. UNCHANGED <<deferred, excused, ignore, indexing, polling, recovery, scheduled,
                    tail>>
      BY <2>4, Zenon DEF Write, Remove, PeriodicPass, BeginPass, BeginSave, Admit,
         SearchFrame, flags,
          refreshes, replays, bounds
    <3> QED
      BY <1>0, <3>1
  <2> QED
    BY <1>2, <2>1, <2>2, <2>3, <2>4 DEF Environment
<1>3. CASE Checkpoint
  <2>1. UNCHANGED <<deferred, excused, ignore, indexing, polling, recovery, scheduled,
                  tail>>
    BY <1>3, Zenon DEF Checkpoint, flags, refreshes, replays, bounds
  <2> QED
    BY <1>0, <2>1
<1>4. CASE Events
  <2>1. ASSUME NEW a \in Actors, Defer(a) PROVE QueueInv'
    BY <2>1, <1>t, DeferDoes, Zenon
  <2>2. ASSUME NEW a \in Actors, Enter(a) PROVE QueueInv'
    BY <2>2, <1>t, EnterDoes, SMT
  <2>3. ASSUME NEW a \in Actors, DropGone(a) PROVE QueueInv'
    BY <2>3, <1>t, DropGoneDoes, Zenon
  <2>4. ASSUME NEW a \in Actors, Open(a) PROVE QueueInv'
    BY <2>4, <1>t, OpenDoes, SMT
  <2>5. ASSUME NEW a \in Actors, Verify(a) PROVE QueueInv'
    BY <2>5, <1>t, VerifyDoes, SMT
  <2>6. ASSUME (\E p \in Paths : TakeEvent(p)) \/ (\E p \in Paths : ReplayEvent(p))
        PROVE  QueueInv'
    <3>1. UNCHANGED <<deferred, excused, ignore, indexing, polling, recovery, scheduled,
                    tail>>
      BY <2>6, Zenon DEF TakeEvent, ReplayEvent, flags, refreshes, replays, bounds
    <3> QED
      BY <1>0, <3>1
  <2> QED
    BY <1>4, <2>1, <2>2, <2>3, <2>4, <2>5, <2>6 DEF Events
<1>5. CASE Recovering
  <2>1. ASSUME RecoveryReplays PROVE QueueInv'
    BY <2>1, <1>t, RecoveryReplaysDoes, SMT
  <2>2. ASSUME RecoveryScans PROVE QueueInv'
    BY <2>2, <1>t, RecoveryScansDoes, SMT
  <2>3. ASSUME RecoveryEnds PROVE QueueInv'
    BY <2>3, <1>t, RecoveryEndsDoes, SMT
  <2>4. ASSUME (\E p \in Paths : ScanOne(p))
        PROVE  QueueInv'
    <3>1. UNCHANGED <<deferred, excused, ignore, indexing, polling, recovery, scheduled,
                    tail>>
      BY <2>4, Zenon DEF ScanOne, flags, refreshes, replays, bounds
    <3> QED
      BY <1>0, <3>1
  <2> QED
    BY <1>5, <2>1, <2>2, <2>3, <2>4 DEF Recovering
<1>6. CASE Ignoring
  <2>1. ASSUME IgnoreChecks PROVE QueueInv'
    BY <2>1, <1>t, IgnoreChecksDoes, Zenon
  <2>2. ASSUME IgnoreWaits PROVE QueueInv'
    BY <2>2, <1>t, IgnoreWaitsDoes, Zenon
  <2>3. ASSUME IgnoreClears PROVE QueueInv'
    BY <2>3, <1>t, IgnoreClearsDoes, SMT
  <2>4. ASSUME IgnoreRechecks PROVE QueueInv'
    BY <2>4, <1>t, IgnoreRechecksDoes, SMT
  <2> QED
    BY <1>6, <2>1, <2>2, <2>3, <2>4 DEF Ignoring
<1>7. CASE Begins
  <2>1. ASSUME StartupPass \/ IgnorePass \/ OverflowPass \/ DeferredPass \/ BuildPass \/
               ReloadPass
        PROVE  QueueInv'
    <3>1. UNCHANGED <<deferred, excused, ignore, indexing, polling, recovery, scheduled,
                    tail>>
      BY <2>1, Zenon DEF StartupPass, BeginPass, IgnorePass, OverflowPass, DeferredPass,
         BuildPass,
          ReloadPass, flags, refreshes, replays, bounds
    <3> QED
      BY <1>0, <3>1
  <2> QED
    BY <1>7, <2>1 DEF Begins
<1>8. CASE Passing
  <2>1. ASSUME NEW p \in Paths, Read(p) PROVE QueueInv'
    BY <2>1, <1>t, ReadDoes, PassReads, Zenon
  <2>2. ASSUME EndPass PROVE QueueInv'
    BY <2>2, <1>t, EndPassDoes, PassMoves, NewPasses, BuildIsCompleted, SMT
  <2>3. ASSUME (\E p \in Paths : Walk(p)) \/ (\E p \in Paths : PassScans(p)) \/ Classify \/
               Publish \/ StartupYields
        PROVE  QueueInv'
    <3>1. UNCHANGED <<deferred, excused, ignore, indexing, polling, recovery, scheduled,
                    tail>>
      BY <2>3, Zenon DEF Walk, PassScans, Classify, Publish, StartupYields, flags,
         refreshes, replays,
          bounds
    <3> QED
      BY <1>0, <3>1
  <2> QED
    BY <1>8, <2>1, <2>2, <2>3 DEF Passing
<1>9. CASE Building
  <2>1. ASSUME NEW p \in Paths, BuildRead(p) PROVE QueueInv'
    BY <2>1, <1>t, BuildReadDoes, BuildReads, Zenon
  <2>2. ASSUME BuildPublish PROVE QueueInv'
    BY <2>2, <1>t, BuildPublishDoes, BuildMoves, SMT
  <2>3. ASSUME BuildEnds PROVE QueueInv'
    BY <2>3, <1>t, BuildEndsDoes, BuildMoves, NewBuilds, SMT
  <2>4. ASSUME BuildFails
        PROVE  QueueInv'
    <3>1. UNCHANGED <<deferred, excused, ignore, indexing, polling, recovery, scheduled,
                    tail>>
      BY <2>4, Zenon DEF BuildFails, flags, refreshes, replays, bounds
    <3> QED
      BY <1>0, <3>1
  <2> QED
    BY <1>9, <2>1, <2>2, <2>3, <2>4 DEF Building
<1>10. CASE Reloading
  <2>1. ASSUME ReloadPublish PROVE QueueInv'
    BY <2>1, <1>t, ReloadPublishDoes, PassMoves, NewPasses, BuildMoves, NewBuilds, SMT
  <2>2. ASSUME ReloadFails PROVE QueueInv'
    BY <2>2, <1>t, ReloadFailsDoes, PassMoves, NewPasses, BuildMoves, NewBuilds, SMT
  <2>3. ASSUME ReloadReplays PROVE QueueInv'
    BY <2>3, <1>t, ReloadReplaysDoes, SMT
  <2>4. ASSUME ReloadRests PROVE QueueInv'
    BY <2>4, <1>t, ReloadRestsDoes, SMT
  <2> QED
    BY <1>10, <2>1, <2>2, <2>3, <2>4 DEF Reloading
<1>11. CASE Searching
  <2>1. ASSUME Load \/ ReadFile \/ UpdateCache
        PROVE  QueueInv'
    <3>1. UNCHANGED <<deferred, excused, ignore, indexing, polling, recovery, scheduled,
                    tail>>
      BY <2>1, Zenon DEF Load, SearchFrame, ReadFile, UpdateCache, flags, refreshes,
         replays, bounds
    <3> QED
      BY <1>0, <3>1
  <2> QED
    BY <1>11, <2>1 DEF Searching
<1> QED
  BY <1>1, <1>2, <1>3, <1>4, <1>5, <1>6, <1>7, <1>8, <1>9, <1>10, <1>11 DEF Next, Progress

\* A build and a reload run alone.
LEMMA BuildInvStep == TypeOK /\ ThreadsOK /\ ControlInv /\ [Next]_vars => BuildInv'
<1> SUFFICES ASSUME TypeOK, ThreadsOK, ControlInv, [Next]_vars
             PROVE  BuildInv'
  OBVIOUS
<1> USE DEF ControlInv, BuildInv, GateInv, PendingInv, QueueInv
<1>t. excused \subseteq Paths /\ excused' \subseteq Paths
  BY TypeBounds, Zenon DEF TypeOK, BoundsOK
<1>b. FlagsOK /\ FlagsOK'
  BY TypeFlags, Zenon DEF TypeOK, FlagsOK
<1>0. ASSUME UNCHANGED <<build, cache, ignore, indexing, pass, pending, polling,
                              reconcile, recovery, replaying, scanning, search, startup,
                              tail>> PROVE BuildInv'
  BY <1>0, SMT
<1>1. CASE UNCHANGED vars
  <2>1. UNCHANGED <<build, cache, ignore, indexing, pass, pending, polling, reconcile,
                  recovery, replaying, scanning, search, startup, tail>>
    BY <1>1 DEF vars, flags, refreshes, replays, searches, due
  <2> QED
    BY <1>0, <2>1
<1>2. CASE Environment
  <2>1. ASSUME RulesEvent PROVE BuildInv'
    BY <2>1, <1>t, RulesEventDoes, SMT DEF GateFree
  <2>2. ASSUME TurnToPolling PROVE BuildInv'
    BY <2>2, <1>t, TurnToPollingDoes, SMT DEF GateFree
  <2>3. ASSUME BeginReload PROVE BuildInv'
    BY <2>3, <1>t, BeginReloadDoes, PassMoves, BuildMoves, SMT DEF GateFree
  <2>4. ASSUME PeriodicPass PROVE BuildInv'
    BY <2>4, <1>t, PeriodicPassDoes, PassBegins, SMT DEF GateFree
  <2>5. ASSUME BeginSave PROVE BuildInv'
    BY <2>5, <1>t, BeginSaveDoes, PassSaves, SMT DEF GateFree
  <2>6. ASSUME NEW p \in Paths, Admit(p) PROVE BuildInv'
    BY <2>6, <1>t, AdmitDoes, SearchGoesOn, SMT DEF GateFree
  <2>7. ASSUME (\E p \in Paths : \E d \in Contents : Write(p, d)) \/ (\E p \in Paths :
               Remove(p))
        PROVE  BuildInv'
    <3>1. UNCHANGED <<build, cache, ignore, indexing, pass, pending, polling, reconcile,
                    recovery, replaying, scanning, search, startup, tail>>
      BY <2>7, Zenon DEF Write, Remove, flags, refreshes, replays, searches, due
    <3> QED
      BY <1>0, <3>1
  <2> QED
    BY <1>2, <2>1, <2>2, <2>3, <2>4, <2>5, <2>6, <2>7 DEF Environment
<1>3. CASE Checkpoint
  <2>1. UNCHANGED <<build, cache, ignore, indexing, pass, pending, polling, reconcile,
                  recovery, replaying, scanning, search, startup, tail>>
    BY <1>3, Zenon DEF Checkpoint, flags, refreshes, replays, searches, due
  <2> QED
    BY <1>0, <2>1
<1>4. CASE Events
  <2>1. ASSUME NEW p \in Paths, ReplayEvent(p) PROVE BuildInv'
    BY <2>1, <1>t, ReplayEventDoes, SMT DEF GateFree
  <2>2. ASSUME NEW a \in Actors, DropGone(a) PROVE BuildInv'
    BY <2>2, <1>t, DropGoneDoes, IndexEmptiesCache, SMT DEF GateFree
  <2>3. ASSUME NEW a \in Actors, Open(a) PROVE BuildInv'
    BY <2>3, <1>t, OpenDoes, IndexEmptiesCache, SMT DEF GateFree
  <2>4. ASSUME NEW a \in Actors, Verify(a) PROVE BuildInv'
    BY <2>4, <1>t, VerifyDoes, IndexEmptiesCache, SMT DEF GateFree
  <2>5. ASSUME (\E p \in Paths : TakeEvent(p)) \/ (\E a \in Actors : Defer(a)) \/ (\E a \in
               Actors : Enter(a))
        PROVE  BuildInv'
    <3>1. UNCHANGED <<build, cache, ignore, indexing, pass, pending, polling, reconcile,
                    recovery, replaying, scanning, search, startup, tail>>
      BY <2>5, Zenon DEF TakeEvent, Defer, Enter, flags, refreshes, replays, searches, due
    <3> QED
      BY <1>0, <3>1
  <2> QED
    BY <1>4, <2>1, <2>2, <2>3, <2>4, <2>5 DEF Events
<1>5. CASE Recovering
  <2>1. ASSUME RecoveryReplays PROVE BuildInv'
    BY <2>1, <1>t, RecoveryReplaysDoes, SMT DEF GateFree
  <2>2. ASSUME RecoveryScans PROVE BuildInv'
    BY <2>2, <1>t, RecoveryScansDoes, SMT DEF GateFree
  <2>3. ASSUME NEW p \in Paths, ScanOne(p) PROVE BuildInv'
    BY <2>3, <1>t, ScanOneDoes, SMT DEF GateFree
  <2>4. ASSUME RecoveryEnds PROVE BuildInv'
    BY <2>4, <1>t, RecoveryEndsDoes, SMT DEF GateFree
  <2> QED
    BY <1>5, <2>1, <2>2, <2>3, <2>4 DEF Recovering
<1>6. CASE Ignoring
  <2>1. ASSUME IgnoreChecks PROVE BuildInv'
    <3>1. /\ polling => ignore' = "off"
          /\ ~polling => ignore' \in {"wait", "clear"}
          /\ UNCHANGED <<pass, recovery, indexing, pending, build, polling, scanning, startup,
                reconcile, replaying, tail, search, cache>>
      BY <2>1, IgnoreChecksDoes, Zenon
    <3> QED
      BY <3>1, SMT
  <2>2. ASSUME IgnoreWaits PROVE BuildInv'
    BY <2>2, <1>t, IgnoreWaitsDoes, SMT DEF GateFree
  <2>3. ASSUME IgnoreClears PROVE BuildInv'
    BY <2>3, <1>t, IgnoreClearsDoes, SMT DEF GateFree
  <2>4. ASSUME IgnoreRechecks PROVE BuildInv'
    BY <2>4, <1>t, IgnoreRechecksDoes, SMT DEF GateFree
  <2> QED
    BY <1>6, <2>1, <2>2, <2>3, <2>4 DEF Ignoring
<1>7. CASE Begins
  <2>1. ASSUME StartupPass PROVE BuildInv'
    <3>1. /\ pass.by = "none"
          /\ startup
          /\ pass'.by = "startup"
          /\ UNCHANGED <<recovery, indexing, pending, build, polling, scanning, startup,
             replaying, ignore, tail, search, cache, reconcile>>
      BY <2>1, StartupPassDoes, PassBegins, Zenon DEF GateFree, Begins
    <3> QED
      BY <3>1, SMT
  <2>2. ASSUME IgnorePass PROVE BuildInv'
    <3>1. /\ pass.by = "none"
          /\ ignore = "run"
          /\ pass'.by = "ignore"
          /\ UNCHANGED <<recovery, indexing, pending, build, polling, scanning, startup,
             replaying, ignore, tail, search, cache, reconcile>>
      BY <2>2, IgnorePassDoes, PassBegins, Zenon DEF GateFree, Begins
    <3> QED
      BY <3>1, SMT
  <2>3. ASSUME OverflowPass PROVE BuildInv'
    BY <2>3, <1>t, OverflowPassDoes, PassBegins, SMT DEF GateFree
  <2>4. ASSUME DeferredPass PROVE BuildInv'
    <3>1. /\ pass.by = "none"
          /\ reconcile
          /\ ~reconcile'
          /\ pass'.by = "deferred"
          /\ UNCHANGED <<recovery, indexing, pending, build, polling, scanning, startup,
             replaying, ignore, tail, search, cache>>
      BY <2>4, DeferredPassDoes, PassBegins, Zenon DEF GateFree, Begins
    <3> QED
      BY <3>1, SMT
  <2>5. ASSUME BuildPass PROVE BuildInv'
    BY <2>5, <1>t, BuildPassDoes, PassBegins, SMT DEF GateFree
  <2>6. ASSUME ReloadPass PROVE BuildInv'
    BY <2>6, <1>t, ReloadPassDoes, PassBegins, SMT DEF GateFree
  <2> QED
    BY <1>7, <2>1, <2>2, <2>3, <2>4, <2>5, <2>6 DEF Begins
<1>8. CASE Passing
  <2>1. ASSUME NEW p \in Paths, Walk(p) PROVE BuildInv'
    BY <2>1, <1>t, WalkDoes, PassWalks, SMT DEF GateFree
  <2>2. ASSUME NEW p \in Paths, Read(p) PROVE BuildInv'
    BY <2>2, <1>t, ReadDoes, PassReads, SMT DEF GateFree
  <2>3. ASSUME NEW p \in Paths, PassScans(p) PROVE BuildInv'
    BY <2>3, <1>t, PassScansDoes, PassMoves, SMT DEF GateFree
  <2>4. ASSUME Classify PROVE BuildInv'
    BY <2>4, <1>t, ClassifyDoes, PassClassifies, SMT DEF GateFree
  <2>5. ASSUME Publish PROVE BuildInv'
    BY <2>5, <1>t, PublishDoes, PassMoves, IndexEmptiesCache, SMT DEF GateFree
  <2>6. ASSUME EndPass PROVE BuildInv'
    BY <2>6, <1>t, EndPassDoes, PassMoves, NewPasses, BuildIsCompleted, SMT DEF GateFree
  <2>7. ASSUME StartupYields PROVE BuildInv'
    BY <2>7, <1>t, StartupYieldsDoes, SMT DEF GateFree
  <2> QED
    BY <1>8, <2>1, <2>2, <2>3, <2>4, <2>5, <2>6, <2>7 DEF Passing
<1>9. CASE Building
  <2>1. ASSUME NEW p \in Paths, BuildRead(p) PROVE BuildInv'
    BY <2>1, <1>t, BuildReadDoes, BuildReads, SMT DEF GateFree
  <2>2. ASSUME BuildPublish PROVE BuildInv'
    BY <2>2, <1>t, BuildPublishDoes, BuildMoves, IndexEmptiesCache, SMT DEF GateFree
  <2>3. ASSUME BuildFails PROVE BuildInv'
    BY <2>3, <1>t, BuildFailsDoes, BuildMoves, SMT DEF GateFree
  <2>4. ASSUME BuildEnds PROVE BuildInv'
    BY <2>4, <1>t, BuildEndsDoes, BuildMoves, NewBuilds, SMT DEF GateFree
  <2> QED
    BY <1>9, <2>1, <2>2, <2>3, <2>4 DEF Building
<1>10. CASE Reloading
  <2>1. ASSUME ReloadPublish PROVE BuildInv'
    BY <2>1, <1>t, ReloadPublishDoes, PassMoves, NewPasses, BuildMoves, NewBuilds,
       IndexEmptiesCache, SMT DEF GateFree
  <2>2. ASSUME ReloadFails PROVE BuildInv'
    BY <2>2, <1>t, ReloadFailsDoes, PassMoves, NewPasses, BuildMoves, NewBuilds, SMT DEF
       GateFree
  <2>3. ASSUME ReloadReplays PROVE BuildInv'
    BY <2>3, <1>t, ReloadReplaysDoes, SMT DEF GateFree
  <2>4. ASSUME ReloadRests PROVE BuildInv'
    BY <2>4, <1>t, ReloadRestsDoes, SMT DEF GateFree
  <2> QED
    BY <1>10, <2>1, <2>2, <2>3, <2>4 DEF Reloading
<1>11. CASE Searching
  <2>1. ASSUME Load PROVE BuildInv'
    BY <2>1, <1>t, LoadDoes, SearchGoesOn, SMT DEF GateFree
  <2>2. ASSUME ReadFile PROVE BuildInv'
    BY <2>2, <1>t, ReadFileDoes, SearchGoesOn, SMT DEF GateFree
  <2>3. ASSUME UpdateCache PROVE BuildInv'
    BY <2>3, <1>t, UpdateCacheDoes, SearchGoesOn, SMT DEF GateFree
  <2> QED
    BY <1>11, <2>1, <2>2, <2>3 DEF Searching
<1> QED
  BY <1>1, <1>2, <1>3, <1>4, <1>5, <1>6, <1>7, <1>8, <1>9, <1>10, <1>11 DEF Next, Progress

\* The gate has one holder.
LEMMA GateInvStep == TypeOK /\ ThreadsOK /\ ControlInv /\ [Next]_vars => GateInv'
<1> SUFFICES ASSUME TypeOK, ThreadsOK, ControlInv, [Next]_vars
             PROVE  GateInv'
  OBVIOUS
<1> USE DEF ControlInv, BuildInv, GateInv, PendingInv, QueueInv
<1>t. excused \subseteq Paths /\ excused' \subseteq Paths
  BY TypeBounds, Zenon DEF TypeOK, BoundsOK
<1>b. FlagsOK /\ FlagsOK'
  BY TypeFlags, Zenon DEF TypeOK, FlagsOK
<1>0. ASSUME UNCHANGED <<act, ignore, pass, pending, recovery, startup, tail>> PROVE GateInv'
  BY <1>0, SMT
<1>1. CASE UNCHANGED vars
  <2>1. UNCHANGED <<act, ignore, pass, pending, recovery, startup, tail>>
    BY <1>1 DEF vars, flags, refreshes, replays, due
  <2> QED
    BY <1>0, <2>1
<1>2. CASE Environment
  <2>1. ASSUME RulesEvent PROVE GateInv'
    BY <2>1, <1>t, RulesEventDoes, SMT DEF GateFree, Actors, Touching
  <2>2. ASSUME BeginReload PROVE GateInv'
    BY <2>2, <1>t, BeginReloadDoes, PassMoves, BuildMoves, SMT DEF GateFree, Actors,
       Touching
  <2>3. ASSUME PeriodicPass PROVE GateInv'
    <3>1. /\ pass.by = "none" /\ recovery # "scan"
          /\ \A a \in Actors : act[a].at \notin Touching
          /\ pass'.at = "walk"
          /\ ~indexing
          /\ pass'.by = "periodic"
          /\ UNCHANGED <<recovery, act, pending, startup, ignore, tail>>
      BY <2>3, PeriodicPassDoes, PassBegins, Zenon DEF GateFree, Touching, Begins
    <3>2. pass.at = "none" /\ act["scan"].at = "idle"
      BY <3>1, SMT
    <3> QED
      BY <3>1, <3>2, SMT
  <2>4. ASSUME BeginSave PROVE GateInv'
    <3>1. /\ pass.by = "none" /\ recovery # "scan"
          /\ \A a \in Actors : act[a].at \notin Touching
          /\ pass'.by = "autosave" /\ pass'.at = "read"
          /\ UNCHANGED <<recovery, act, pending, startup, ignore, tail>>
      BY <2>4, BeginSaveDoes, PassSaves, Zenon DEF GateFree, Touching
    <3>2. \E p \in Paths : overlay[p] # None
      <4>1. {p \in Paths : overlay[p] # None} # {}
        BY <2>4, Zenon DEF BeginSave
      <4> QED
        BY <4>1, SMT
    <3>3. pass.at = "none" /\ act["scan"].at = "idle" /\ ~pending
      BY <3>1, <3>2, SMT DEF PendingInv
    <3> QED
      BY <3>1, <3>3, SMT
  <2>5. ASSUME (\E p \in Paths : \E d \in Contents : Write(p, d)) \/ (\E p \in Paths :
               Remove(p)) \/ TurnToPolling \/ (\E p \in Paths : Admit(p))
        PROVE  GateInv'
    <3>1. UNCHANGED <<act, ignore, pass, pending, recovery, startup, tail>>
      BY <2>5, Zenon DEF Write, Remove, TurnToPolling, Admit, SearchFrame, flags,
         refreshes, replays, due
    <3> QED
      BY <1>0, <3>1
  <2> QED
    BY <1>2, <2>1, <2>2, <2>3, <2>4, <2>5 DEF Environment
<1>3. CASE Checkpoint
  <2>1. UNCHANGED <<act, ignore, pass, pending, recovery, startup, tail>>
    BY <1>3, Zenon DEF Checkpoint, flags, refreshes, replays, due
  <2> QED
    BY <1>0, <2>1
<1>4. CASE Events
  <2>1. ASSUME NEW p \in Paths, TakeEvent(p) PROVE GateInv'
    BY <2>1, <1>t, TakeEventDoes, SMT DEF GateFree, Actors, Touching
  <2>2. ASSUME NEW p \in Paths, ReplayEvent(p) PROVE GateInv'
    BY <2>2, <1>t, ReplayEventDoes, SMT DEF GateFree, Actors, Touching
  <2>3. ASSUME NEW a \in Actors, Defer(a) PROVE GateInv'
    BY <2>3, <1>t, DeferDoes, SMT DEF GateFree, Actors, Touching
  <2>4. ASSUME NEW a \in Actors, Enter(a) PROVE GateInv'
    BY <2>4, <1>t, EnterDoes, SMT DEF GateFree, Actors, Touching
  <2>5. ASSUME NEW a \in Actors, DropGone(a) PROVE GateInv'
    BY <2>5, <1>t, DropGoneDoes, SMT DEF GateFree, Actors, Touching
  <2>6. ASSUME NEW a \in Actors, Open(a) PROVE GateInv'
    BY <2>6, <1>t, OpenDoes, SMT DEF GateFree, Actors, Touching
  <2>7. ASSUME NEW a \in Actors, Verify(a) PROVE GateInv'
    BY <2>7, <1>t, VerifyDoes, SMT DEF GateFree, Actors, Touching
  <2> QED
    BY <1>4, <2>1, <2>2, <2>3, <2>4, <2>5, <2>6, <2>7 DEF Events
<1>5. CASE Recovering
  <2>1. ASSUME RecoveryReplays PROVE GateInv'
    BY <2>1, <1>t, RecoveryReplaysDoes, SMT DEF GateFree, Actors, Touching
  <2>2. ASSUME RecoveryScans PROVE GateInv'
    BY <2>2, <1>t, RecoveryScansDoes, SMT DEF GateFree, Actors, Touching
  <2>3. ASSUME NEW p \in Paths, ScanOne(p) PROVE GateInv'
    BY <2>3, <1>t, ScanOneDoes, SMT DEF GateFree, Actors, Touching
  <2>4. ASSUME RecoveryEnds PROVE GateInv'
    BY <2>4, <1>t, RecoveryEndsDoes, SMT DEF GateFree, Actors, Touching
  <2> QED
    BY <1>5, <2>1, <2>2, <2>3, <2>4 DEF Recovering
<1>6. CASE Ignoring
  <2>1. ASSUME IgnoreChecks PROVE GateInv'
    BY <2>1, <1>t, IgnoreChecksDoes, SMT DEF GateFree, Actors, Touching
  <2>2. ASSUME IgnoreWaits PROVE GateInv'
    BY <2>2, <1>t, IgnoreWaitsDoes, SMT DEF GateFree, Actors, Touching
  <2>3. ASSUME IgnoreClears PROVE GateInv'
    BY <2>3, <1>t, IgnoreClearsDoes, SMT DEF GateFree, Actors, Touching
  <2>4. ASSUME IgnoreRechecks PROVE GateInv'
    BY <2>4, <1>t, IgnoreRechecksDoes, SMT DEF GateFree, Actors, Touching
  <2> QED
    BY <1>6, <2>1, <2>2, <2>3, <2>4 DEF Ignoring
<1>7. CASE Begins
  <2>1. ASSUME StartupPass PROVE GateInv'
    <3>1. /\ pass.by = "none" /\ recovery # "scan"
          /\ \A a \in Actors : act[a].at \notin Touching
          /\ pass'.at = "walk"
          /\ startup
          /\ pass'.by = "startup"
          /\ UNCHANGED <<recovery, act, pending, startup, ignore, tail>>
      BY <2>1, StartupPassDoes, PassBegins, Zenon DEF GateFree, Touching, Begins
    <3>2. pass.at = "none" /\ act["scan"].at = "idle"
      BY <3>1, SMT
    <3> QED
      BY <3>1, <3>2, SMT
  <2>2. ASSUME IgnorePass PROVE GateInv'
    <3>1. /\ pass.by = "none" /\ recovery # "scan"
          /\ \A a \in Actors : act[a].at \notin Touching
          /\ pass'.at = "walk"
          /\ ignore = "run"
          /\ pass'.by = "ignore"
          /\ UNCHANGED <<recovery, act, pending, startup, ignore, tail>>
      BY <2>2, IgnorePassDoes, PassBegins, Zenon DEF GateFree, Touching, Begins
    <3>2. pass.at = "none" /\ act["scan"].at = "idle"
      BY <3>1, SMT
    <3> QED
      BY <3>1, <3>2, SMT
  <2>3. ASSUME OverflowPass PROVE GateInv'
    <3>1. /\ pass.by = "none" /\ recovery # "scan"
          /\ \A a \in Actors : act[a].at \notin Touching
          /\ pass'.at = "walk"
          /\ ~pending
          /\ pass'.by = "overflow"
          /\ UNCHANGED <<recovery, act, pending, startup, ignore, tail>>
      BY <2>3, OverflowPassDoes, PassBegins, Zenon DEF GateFree, Touching, Begins
    <3>2. pass.at = "none" /\ act["scan"].at = "idle"
      BY <3>1, SMT
    <3> QED
      BY <3>1, <3>2, SMT
  <2>4. ASSUME DeferredPass PROVE GateInv'
    <3>1. /\ pass.by = "none" /\ recovery # "scan"
          /\ \A a \in Actors : act[a].at \notin Touching
          /\ pass'.at = "walk"
          /\ reconcile
          /\ ~reconcile'
          /\ pass'.by = "deferred"
          /\ UNCHANGED <<recovery, act, pending, startup, ignore, tail>>
      BY <2>4, DeferredPassDoes, PassBegins, Zenon DEF GateFree, Touching, Begins
    <3>2. pass.at = "none" /\ act["scan"].at = "idle"
      BY <3>1, SMT
    <3> QED
      BY <3>1, <3>2, SMT
  <2>5. ASSUME BuildPass PROVE GateInv'
    <3>1. /\ pass.by = "none" /\ recovery # "scan"
          /\ \A a \in Actors : act[a].at \notin Touching
          /\ pass'.at = "walk"
          /\ build.by = "published"
          /\ pass'.by = "build"
          /\ UNCHANGED <<recovery, act, pending, startup, ignore, tail>>
      BY <2>5, BuildPassDoes, PassBegins, Zenon DEF GateFree, Touching, Begins
    <3>2. pass.at = "none" /\ act["scan"].at = "idle"
      BY <3>1, SMT
    <3> QED
      BY <3>1, <3>2, SMT
  <2>6. ASSUME ReloadPass PROVE GateInv'
    <3>1. /\ pass.by = "none" /\ recovery # "scan"
          /\ \A a \in Actors : act[a].at \notin Touching
          /\ pass'.at = "walk"
          /\ tail = "catchup"
          /\ pass'.by = "catchup"
          /\ UNCHANGED <<recovery, act, pending, startup, ignore, tail>>
      BY <2>6, ReloadPassDoes, PassBegins, Zenon DEF GateFree, Touching, Begins
    <3>2. pass.at = "none" /\ act["scan"].at = "idle"
      BY <3>1, SMT
    <3> QED
      BY <3>1, <3>2, SMT
  <2> QED
    BY <1>7, <2>1, <2>2, <2>3, <2>4, <2>5, <2>6 DEF Begins
<1>8. CASE Passing
  <2>1. ASSUME NEW p \in Paths, Walk(p) PROVE GateInv'
    BY <2>1, <1>t, WalkDoes, PassWalks, SMT DEF GateFree, Actors, Touching
  <2>2. ASSUME NEW p \in Paths, Read(p) PROVE GateInv'
    BY <2>2, <1>t, ReadDoes, PassReads, SMT DEF GateFree, Actors, Touching
  <2>3. ASSUME NEW p \in Paths, PassScans(p) PROVE GateInv'
    BY <2>3, <1>t, PassScansDoes, PassMoves, SMT DEF GateFree, Actors, Touching
  <2>4. ASSUME Classify PROVE GateInv'
    BY <2>4, <1>t, ClassifyDoes, PassClassifies, SMT DEF GateFree, Actors, Touching
  <2>5. ASSUME Publish PROVE GateInv'
    BY <2>5, <1>t, PublishDoes, PassMoves, SMT DEF GateFree, Actors, Touching
  <2>6. ASSUME EndPass PROVE GateInv'
    BY <2>6, <1>t, EndPassDoes, PassMoves, NewPasses, BuildIsCompleted, SMT DEF GateFree,
       Actors, Touching
  <2>7. ASSUME StartupYields PROVE GateInv'
    BY <2>7, <1>t, StartupYieldsDoes, SMT DEF GateFree, Actors, Touching
  <2> QED
    BY <1>8, <2>1, <2>2, <2>3, <2>4, <2>5, <2>6, <2>7 DEF Passing
<1>9. CASE Building
  <2>1. ASSUME BuildPublish PROVE GateInv'
    BY <2>1, <1>t, BuildPublishDoes, BuildMoves, SMT DEF GateFree, Actors, Touching
  <2>2. ASSUME BuildEnds PROVE GateInv'
    BY <2>2, <1>t, BuildEndsDoes, BuildMoves, NewBuilds, SMT DEF GateFree, Actors, Touching
  <2>3. ASSUME (\E p \in Paths : BuildRead(p)) \/ BuildFails
        PROVE  GateInv'
    <3>1. UNCHANGED <<act, ignore, pass, pending, recovery, startup, tail>>
      BY <2>3, Zenon DEF BuildRead, BuildFails, flags, refreshes, replays, due
    <3> QED
      BY <1>0, <3>1
  <2> QED
    BY <1>9, <2>1, <2>2, <2>3 DEF Building
<1>10. CASE Reloading
  <2>1. ASSUME ReloadPublish PROVE GateInv'
    BY <2>1, <1>t, ReloadPublishDoes, PassMoves, NewPasses, BuildMoves, NewBuilds, SMT
       DEF GateFree, Actors, Touching
  <2>2. ASSUME ReloadFails PROVE GateInv'
    BY <2>2, <1>t, ReloadFailsDoes, PassMoves, NewPasses, BuildMoves, NewBuilds, SMT DEF
       GateFree, Actors, Touching
  <2>3. ASSUME ReloadReplays PROVE GateInv'
    BY <2>3, <1>t, ReloadReplaysDoes, SMT DEF GateFree, Actors, Touching
  <2>4. ASSUME ReloadRests PROVE GateInv'
    <3>1. /\ tail \in {"rest", "last"} 
          /\ recovery' = recovery \/ recovery' = "wait"
          /\ scheduled => ignore' = ignore
          /\ UNCHANGED <<pass, act, pending, startup>>
      BY <2>4, ReloadRestsDoes, Zenon
    <3>2. pass.by = "ignore" => scheduled
      BY SMT
    <3> QED
      BY <3>1, <3>2, SMT
  <2> QED
    BY <1>10, <2>1, <2>2, <2>3, <2>4 DEF Reloading
<1>11. CASE Searching
  <2>1. ASSUME Load \/ ReadFile \/ UpdateCache
        PROVE  GateInv'
    <3>1. UNCHANGED <<act, ignore, pass, pending, recovery, startup, tail>>
      BY <2>1, Zenon DEF Load, SearchFrame, ReadFile, UpdateCache, flags, refreshes,
         replays, due
    <3> QED
      BY <1>0, <3>1
  <2> QED
    BY <1>11, <2>1 DEF Searching
<1> QED
  BY <1>1, <1>2, <1>3, <1>4, <1>5, <1>6, <1>7, <1>8, <1>9, <1>10, <1>11 DEF Next, Progress

\* Nothing is indexed from events before a matcher is published.
LEMMA PendingInvStep == TypeOK /\ ThreadsOK /\ ControlInv /\ [Next]_vars => PendingInv'
<1> SUFFICES ASSUME TypeOK, ThreadsOK, ControlInv, [Next]_vars
             PROVE  PendingInv'
  OBVIOUS
<1> USE DEF ControlInv, BuildInv, GateInv, PendingInv, QueueInv
<1>t. excused \subseteq Paths /\ excused' \subseteq Paths
  BY TypeBounds, Zenon DEF TypeOK, BoundsOK
<1>b. FlagsOK /\ FlagsOK'
  BY TypeFlags, Zenon DEF TypeOK, FlagsOK
<1>0. ASSUME UNCHANGED <<act, build, excused, overlay, pending, polling, recovery,
                              startup, tail, watched>> PROVE PendingInv'
  BY <1>0, SMT
<1>1. CASE UNCHANGED vars
  <2>1. UNCHANGED <<act, build, excused, overlay, pending, polling, recovery, startup, tail,
                  watched>>
    BY <1>1 DEF vars, index, flags, replays, due, bounds
  <2> QED
    BY <1>0, <2>1
<1>2. CASE Environment
  <2>1. ASSUME TurnToPolling PROVE PendingInv'
    BY <2>1, <1>t, TurnToPollingDoes, SMT DEF GateFree, Actors, Touching
  <2>2. ASSUME BeginReload PROVE PendingInv'
    BY <2>2, <1>t, BeginReloadDoes, PassMoves, BuildMoves, SMT DEF GateFree, Actors,
       Touching
  <2>3. ASSUME (\E p \in Paths : \E d \in Contents : Write(p, d)) \/ (\E p \in Paths :
               Remove(p)) \/ RulesEvent \/ PeriodicPass \/ BeginSave \/ (\E p \in Paths :
               Admit(p))
        PROVE  PendingInv'
    <3>1. UNCHANGED <<act, build, excused, overlay, pending, polling, recovery, startup,
                    tail, watched>>
      BY <2>3, Zenon DEF Write, Remove, RulesEvent, PeriodicPass, BeginPass, BeginSave,
         Admit, SearchFrame,
          index, flags, replays, due, bounds
    <3> QED
      BY <1>0, <3>1
  <2> QED
    BY <1>2, <2>1, <2>2, <2>3 DEF Environment
<1>3. CASE Checkpoint
  <2>1. UNCHANGED <<act, build, excused, overlay, pending, polling, recovery, startup, tail,
                  watched>>
    BY <1>3, Zenon DEF Checkpoint, index, flags, replays, due, bounds
  <2> QED
    BY <1>0, <2>1
<1>4. CASE Events
  <2>1. ASSUME NEW p \in Paths, TakeEvent(p) PROVE PendingInv'
    BY <2>1, <1>t, TakeEventDoes, SMT DEF GateFree, Actors, Touching
  <2>2. ASSUME NEW p \in Paths, ReplayEvent(p) PROVE PendingInv'
    BY <2>2, <1>t, ReplayEventDoes, SMT DEF GateFree, Actors, Touching
  <2>3. ASSUME NEW a \in Actors, Defer(a) PROVE PendingInv'
    BY <2>3, <1>t, DeferDoes, SMT DEF GateFree, Actors, Touching
  <2>4. ASSUME NEW a \in Actors, Enter(a) PROVE PendingInv'
    BY <2>4, <1>t, EnterDoes, SMT DEF GateFree, Actors, Touching
  <2>5. ASSUME NEW a \in Actors, DropGone(a) PROVE PendingInv'
    BY <2>5, <1>t, DropGoneDoes, SMT DEF GateFree, Actors, Touching
  <2>6. ASSUME NEW a \in Actors, Open(a) PROVE PendingInv'
    BY <2>6, <1>t, OpenDoes, SMT DEF GateFree, Actors, Touching
  <2>7. ASSUME NEW a \in Actors, Verify(a) PROVE PendingInv'
    BY <2>7, <1>t, VerifyDoes, SMT DEF GateFree, Actors, Touching
  <2> QED
    BY <1>4, <2>1, <2>2, <2>3, <2>4, <2>5, <2>6, <2>7 DEF Events
<1>5. CASE Recovering
  <2>1. ASSUME RecoveryReplays PROVE PendingInv'
    BY <2>1, <1>t, RecoveryReplaysDoes, SMT DEF GateFree, Actors, Touching
  <2>2. ASSUME RecoveryScans PROVE PendingInv'
    BY <2>2, <1>t, RecoveryScansDoes, SMT DEF GateFree, Actors, Touching
  <2>3. ASSUME NEW p \in Paths, ScanOne(p) PROVE PendingInv'
    BY <2>3, <1>t, ScanOneDoes, SMT DEF GateFree, Actors, Touching
  <2>4. ASSUME RecoveryEnds PROVE PendingInv'
    BY <2>4, <1>t, RecoveryEndsDoes, SMT DEF GateFree, Actors, Touching
  <2> QED
    BY <1>5, <2>1, <2>2, <2>3, <2>4 DEF Recovering
<1>6. CASE Ignoring
  <2>1. ASSUME IgnoreChecks \/ IgnoreWaits \/ IgnoreClears \/ IgnoreRechecks
        PROVE  PendingInv'
    <3>1. UNCHANGED <<act, build, excused, overlay, pending, polling, recovery, startup,
                    tail, watched>>
      BY <2>1, Zenon DEF IgnoreChecks, IgnoreWaits, IgnoreClears, IgnoreRechecks, index,
         flags, replays,
          due, bounds
    <3> QED
      BY <1>0, <3>1
  <2> QED
    BY <1>6, <2>1 DEF Ignoring
<1>7. CASE Begins
  <2>1. ASSUME StartupPass \/ IgnorePass \/ OverflowPass \/ DeferredPass \/ BuildPass \/
               ReloadPass
        PROVE  PendingInv'
    <3>1. UNCHANGED <<act, build, excused, overlay, pending, polling, recovery, startup,
                    tail, watched>>
      BY <2>1, Zenon DEF StartupPass, BeginPass, IgnorePass, OverflowPass, DeferredPass,
         BuildPass,
          ReloadPass, index, flags, replays, due, bounds
    <3> QED
      BY <1>0, <3>1
  <2> QED
    BY <1>7, <2>1 DEF Begins
<1>8. CASE Passing
  <2>1. ASSUME NEW p \in Paths, Read(p) PROVE PendingInv'
    BY <2>1, <1>t, ReadDoes, PassReads, SMT DEF GateFree, Actors, Touching
  <2>2. ASSUME NEW p \in Paths, PassScans(p) PROVE PendingInv'
    BY <2>2, <1>t, PassScansDoes, PassMoves, SMT DEF GateFree, Actors, Touching
  <2>3. ASSUME Classify PROVE PendingInv'
    BY <2>3, <1>t, ClassifyDoes, PassClassifies, SMT DEF GateFree, Actors, Touching
  <2>4. ASSUME Publish PROVE PendingInv'
    BY <2>4, <1>t, PublishDoes, PassMoves, SMT DEF GateFree, Actors, Touching
  <2>5. ASSUME EndPass PROVE PendingInv'
    BY <2>5, <1>t, EndPassDoes, PassMoves, NewPasses, BuildIsCompleted, SMT DEF GateFree,
       Actors, Touching
  <2>6. ASSUME StartupYields PROVE PendingInv'
    BY <2>6, <1>t, StartupYieldsDoes, SMT DEF GateFree, Actors, Touching
  <2>7. ASSUME (\E p \in Paths : Walk(p))
        PROVE  PendingInv'
    <3>1. UNCHANGED <<act, build, excused, overlay, pending, polling, recovery, startup,
                    tail, watched>>
      BY <2>7, Zenon DEF Walk, index, flags, replays, due, bounds
    <3> QED
      BY <1>0, <3>1
  <2> QED
    BY <1>8, <2>1, <2>2, <2>3, <2>4, <2>5, <2>6, <2>7 DEF Passing
<1>9. CASE Building
  <2>1. ASSUME NEW p \in Paths, BuildRead(p) PROVE PendingInv'
    BY <2>1, <1>t, BuildReadDoes, BuildReads, Zenon DEF GateFree, Actors, Touching
  <2>2. ASSUME BuildPublish PROVE PendingInv'
    BY <2>2, <1>t, BuildPublishDoes, BuildMoves, SMT DEF GateFree, Actors, Touching
  <2>3. ASSUME BuildFails PROVE PendingInv'
    BY <2>3, <1>t, BuildFailsDoes, BuildMoves, SMT DEF GateFree, Actors, Touching
  <2>4. ASSUME BuildEnds PROVE PendingInv'
    BY <2>4, <1>t, BuildEndsDoes, BuildMoves, NewBuilds, SMT DEF GateFree, Actors, Touching
  <2> QED
    BY <1>9, <2>1, <2>2, <2>3, <2>4 DEF Building
<1>10. CASE Reloading
  <2>1. ASSUME ReloadPublish PROVE PendingInv'
    BY <2>1, <1>t, ReloadPublishDoes, PassMoves, NewPasses, BuildMoves, NewBuilds, SMT
       DEF GateFree, Actors, Touching
  <2>2. ASSUME ReloadFails PROVE PendingInv'
    BY <2>2, <1>t, ReloadFailsDoes, PassMoves, NewPasses, BuildMoves, NewBuilds, SMT DEF
       GateFree, Actors, Touching
  <2>3. ASSUME ReloadReplays PROVE PendingInv'
    BY <2>3, <1>t, ReloadReplaysDoes, SMT DEF GateFree, Actors, Touching
  <2>4. ASSUME ReloadRests PROVE PendingInv'
    BY <2>4, <1>t, ReloadRestsDoes, SMT DEF GateFree, Actors, Touching
  <2> QED
    BY <1>10, <2>1, <2>2, <2>3, <2>4 DEF Reloading
<1>11. CASE Searching
  <2>1. ASSUME Load \/ ReadFile \/ UpdateCache
        PROVE  PendingInv'
    <3>1. UNCHANGED <<act, build, excused, overlay, pending, polling, recovery, startup,
                    tail, watched>>
      BY <2>1, Zenon DEF Load, SearchFrame, ReadFile, UpdateCache, index, flags, replays,
         due, bounds
    <3> QED
      BY <1>0, <3>1
  <2> QED
    BY <1>11, <2>1 DEF Searching
<1> QED
  BY <1>1, <1>2, <1>3, <1>4, <1>5, <1>6, <1>7, <1>8, <1>9, <1>10, <1>11 DEF Next, Progress

-----------------------------------------------------------------------------
(* Versions. *)

\* What is no copy and no version is good anywhere.
LEMMA NothingIsGood ==
  ASSUME NEW d, NEW k
  PROVE  /\ GoodCopy(d, k, None) /\ GoodCopy(d, k, Tombstone) /\ GoodCopy(d, k, Unread)
         /\ GoodVersion(d, k, None) /\ GoodVersion(d, k, Unknown)
         /\ GoodEvidence(d, k, NoStamp)
         /\ GoodEvidence(d, k, [ver |-> Unknown, data |-> None])
<1>1. NoStamp.ver = None /\ [ver |-> Unknown, data |-> None].ver = Unknown
  BY SMT DEF NoStamp
<1>2. /\ None \notin Copies /\ Tombstone \notin Copies /\ Unread \notin Copies
      /\ None \notin Versions /\ Unknown \notin Versions
  BY Sentinels, Zenon
<1> QED
  BY <1>1, <1>2, Zenon DEF GoodCopy, GoodVersion, GoodEvidence

\* Evidence taken from a good copy is good, and so is its version.
LEMMA CopyIsEvidence ==
  ASSUME NEW d, NEW k, NEW c \in Copies, GoodCopy(d, k, c)
  PROVE  /\ GoodEvidence(d, k, [ver |-> c.ver, data |-> c.data])
         /\ GoodVersion(d, k, c.ver)
<1>1. c = [ver |-> c.ver, data |-> c.data]
  BY SMT DEF Copies
<1> QED
  BY <1>1, Zenon DEF GoodEvidence, GoodCopy

\* The version of good evidence is good.
LEMMA EvidenceIsVersion ==
  ASSUME NEW d, NEW k, NEW e, GoodEvidence(d, k, e)
  PROVE  GoodVersion(d, k, e.ver)
BY Zenon DEF GoodEvidence, GoodCopy, GoodVersion

\* Evidence goes on to be good of a file that is written or removed later.
LEMMA GoodLater ==
  ASSUME NEW d \in Copies \cup {None}, NEW k \in Versions, NEW e \in Copies \cup {None},
         e # None => e.ver = k + 1
  PROVE  /\ \A v : GoodVersion(d, k, v) => GoodVersion(e, k + 1, v)
         /\ \A c : GoodCopy(d, k, c) => GoodCopy(e, k + 1, c)
         /\ \A s : GoodEvidence(d, k, s) => GoodEvidence(e, k + 1, s)
<1> USE Sentinels
<1>1. ASSUME NEW v, GoodVersion(d, k, v) PROVE GoodVersion(e, k + 1, v)
  BY <1>1, SMT DEF GoodVersion
<1>2. ASSUME NEW c, GoodCopy(d, k, c) PROVE GoodCopy(e, k + 1, c)
  <2>1. c \in Copies => GoodVersion(e, k + 1, c.ver) /\ c.ver <= k /\ c.ver \in Int
    <3>1. c \in Copies => GoodVersion(d, k, c.ver) /\ c.ver \in Versions
      BY <1>2, Zenon DEF GoodCopy
    <3>2. c \in Copies => c.ver <= k
      BY <3>1, Zenon DEF GoodVersion
    <3> QED
      BY <1>1, <3>1, <3>2, Zenon
  <2>2. e # None => e.ver = k + 1 /\ k \in Int
    BY SMT
  <2> QED
    BY <2>1, <2>2, SMT DEF GoodCopy
<1>3. ASSUME NEW s, GoodEvidence(d, k, s) PROVE GoodEvidence(e, k + 1, s)
  BY <1>2, <1>3, Zenon DEF GoodEvidence
<1> QED
  BY <1>1, <1>2, <1>3, Zenon

\* A file that is there is a good copy of itself, and its version is good.
LEMMA FileIsGood ==
  ASSUME TypeOK, VersionsInv, NEW p \in Paths
  PROVE  GoodCopy(disk[p], clock, disk[p]) /\ GoodVersion(disk[p], clock, VersionOn(p))
<1>1. GoodCopy(disk[p], clock, disk[p])
  BY Zenon DEF VersionsInv, IndexVersions
<1>2. CASE disk[p] \in Copies
  BY <1>1, <1>2, Zenon DEF GoodCopy, VersionOn
<1>3. CASE disk[p] \notin Copies
  BY <1>1, <1>3, NothingIsGood, Zenon DEF VersionOn
<1> QED
  BY <1>1, <1>2, <1>3

\* A write or a removal makes one file newer than all there was.
LEMMA FileChanges ==
  ASSUME TypeOK, ThreadsOK, NEW p \in Paths,
         Remove(p) \/ \E d \in Contents : Write(p, d)
  PROVE  /\ disk'[p] \in Copies \cup {None} /\ (disk'[p] # None => disk'[p].ver = clock + 1)
         /\ clock' = clock + 1
         /\ \A q \in Paths \ {p} : disk'[q] = disk[q]
         /\ UNCHANGED <<watched, reader, overlay, saved, evidence, memo, indexing, pending,
              dirty, scheduled, polling, deferred, act, replaying, recovery, scanning, tail,
              startup, reconcile, ignore, recheck, pass, build, cache, search, excused>>
<1>1. CASE Remove(p)
  BY <1>1, RemoveDoes, Zenon
<1>2. ASSUME NEW d \in Contents, Write(p, d)
      PROVE  /\ disk'[p] \in Copies /\ disk'[p].ver = clock + 1 /\ clock' = clock + 1
             /\ \A q \in Paths \ {p} : disk'[q] = disk[q]
             /\ UNCHANGED <<watched, reader, overlay, saved, evidence, memo, indexing, pending,
                  dirty, scheduled, polling, deferred, act, replaying, recovery, scanning, tail,
                  startup, reconcile, ignore, recheck, pass, build, cache, search, excused>>
  BY <1>2, WriteDoes, Zenon
<1> QED
  BY <1>1, <1>2, Zenon

\* So what was good before is good after.
LEMMA GoodStays ==
  ASSUME TypeOK, ThreadsOK, NEW p \in Paths, NEW q \in Paths,
         Remove(p) \/ \E d \in Contents : Write(p, d)
  PROVE  /\ \A v : GoodVersion(disk[q], clock, v) => GoodVersion(disk'[q], clock', v)
         /\ \A c : GoodCopy(disk[q], clock, c) => GoodCopy(disk'[q], clock', c)
         /\ \A s : GoodEvidence(disk[q], clock, s) => GoodEvidence(disk'[q], clock', s)
<1>0. disk[q] \in Copies \cup {None} /\ clock \in Versions
  BY Zenon DEF TypeOK
<1>1. CASE q = p
  BY <1>0, <1>1, FileChanges, GoodLater, Zenon
<1>2. CASE q # p
  <2>1. disk'[q] = disk[q] /\ clock' = clock + 1
    BY <1>2, FileChanges, Zenon
  <2>2. \A v : GoodVersion(disk[q], clock, v) => GoodVersion(disk[q], clock + 1, v)
    BY <1>0, Sentinels, SMT DEF GoodVersion
  <2> QED
    BY <2>1, <2>2, Zenon DEF GoodCopy, GoodEvidence
<1> QED
  BY <1>1, <1>2

\* A thread commits what it read, while nobody else may.
LEMMA HandVersionsStep == TypeOK /\ ThreadsOK /\ VersionsInv /\ [Next]_vars => HandVersions'
<1> SUFFICES ASSUME TypeOK, ThreadsOK, VersionsInv, [Next]_vars
             PROVE  HandVersions'
  OBVIOUS
<1>0. ASSUME UNCHANGED <<act, clock, disk>> PROVE HandVersions'
  BY <1>0, Zenon DEF VersionsInv, HandVersions
<1>1. CASE UNCHANGED vars
  <2>1. UNCHANGED <<act, clock, disk>>
    BY <1>1 DEF vars, file
  <2> QED
    BY <1>0, <2>1
<1>2. CASE Environment
  <2>1. ASSUME NEW p \in Paths, NEW d \in Contents, Write(p, d) PROVE HandVersions'
    BY <2>1, GoodStays, FileChanges, Zenon DEF VersionsInv, HandVersions
  <2>2. ASSUME NEW p \in Paths, Remove(p) PROVE HandVersions'
    BY <2>2, GoodStays, FileChanges, Zenon DEF VersionsInv, HandVersions
  <2>3. ASSUME RulesEvent \/ TurnToPolling \/ BeginReload \/ PeriodicPass \/ BeginSave \/
               (\E p \in Paths : Admit(p))
        PROVE  HandVersions'
    <3>1. UNCHANGED <<act, clock, disk>>
      BY <2>3, Zenon DEF RulesEvent, TurnToPolling, BeginReload, PeriodicPass, BeginPass,
         BeginSave, Admit,
          SearchFrame, file
    <3> QED
      BY <1>0, <3>1
  <2> QED
    BY <1>2, <2>1, <2>2, <2>3 DEF Environment
<1>3. CASE Checkpoint
  <2>1. UNCHANGED <<act, clock, disk>>
    BY <1>3, Zenon DEF Checkpoint, file
  <2> QED
    BY <1>0, <2>1
<1>4. CASE Events
  <2>1. ASSUME NEW p \in Paths, TakeEvent(p) PROVE HandVersions'
    BY <2>1, TakeEventDoes, Zenon DEF VersionsInv, HandVersions
  <2>2. ASSUME NEW p \in Paths, ReplayEvent(p) PROVE HandVersions'
    BY <2>2, ReplayEventDoes, Zenon DEF VersionsInv, HandVersions
  <2>3. ASSUME NEW a \in Actors, Defer(a) PROVE HandVersions'
    BY <2>3, DeferDoes, Zenon DEF VersionsInv, HandVersions
  <2>4. ASSUME NEW a \in Actors, Enter(a) PROVE HandVersions'
    BY <2>4, EnterDoes, Zenon DEF VersionsInv, HandVersions
  <2>5. ASSUME NEW a \in Actors, DropGone(a) PROVE HandVersions'
    BY <2>5, DropGoneDoes, Zenon DEF VersionsInv, HandVersions
  <2>6. ASSUME NEW a \in Actors, Open(a) PROVE HandVersions'
    <3>1. disk' = disk /\ clock' = clock
      BY <2>6, OpenDoes, Zenon
    <3> QED
      <4> USE DEF HandVersions
      <4> TAKE q \in Paths
      <4> TAKE b \in Actors
      <4>1. CASE b = a
        <5>1. \/ act'[a].at = "idle"
              \/ act'[a].path = act[a].path /\ act'[a].copy = disk[act[a].path]
          BY <2>6, Opens, Zenon
        <5>2. act'[a].at = "idle" => act'[a].at # "verify"
          BY SMT
        <5>3. act'[a].at = "verify" /\ act'[a].path = q => act'[a].copy = disk[q]
          BY <5>1, <5>2, Zenon
        <5> QED
          BY <3>1, <4>1, <5>3, FileIsGood, Zenon
      <4>2. CASE b # a
        <5>1. act'[b] = act[b]
          BY <2>6, <4>2, OpenDoes, Zenon
        <5> QED
          BY <3>1, <5>1, Zenon DEF VersionsInv, HandVersions
      <4> QED
        BY <4>1, <4>2
  <2>7. ASSUME NEW a \in Actors, Verify(a) PROVE HandVersions'
    BY <2>7, VerifyDoes, Zenon DEF VersionsInv, HandVersions
  <2> QED
    BY <1>4, <2>1, <2>2, <2>3, <2>4, <2>5, <2>6, <2>7 DEF Events
<1>5. CASE Recovering
  <2>1. ASSUME NEW p \in Paths, ScanOne(p) PROVE HandVersions'
    BY <2>1, ScanOneDoes, Zenon DEF VersionsInv, HandVersions
  <2>2. ASSUME RecoveryReplays \/ RecoveryScans \/ RecoveryEnds
        PROVE  HandVersions'
    <3>1. UNCHANGED <<act, clock, disk>>
      BY <2>2, Zenon DEF RecoveryReplays, RecoveryScans, RecoveryEnds, file
    <3> QED
      BY <1>0, <3>1
  <2> QED
    BY <1>5, <2>1, <2>2 DEF Recovering
<1>6. CASE Ignoring
  <2>1. ASSUME IgnoreChecks \/ IgnoreWaits \/ IgnoreClears \/ IgnoreRechecks
        PROVE  HandVersions'
    <3>1. UNCHANGED <<act, clock, disk>>
      BY <2>1, Zenon DEF IgnoreChecks, IgnoreWaits, IgnoreClears, IgnoreRechecks, file
    <3> QED
      BY <1>0, <3>1
  <2> QED
    BY <1>6, <2>1 DEF Ignoring
<1>7. CASE Begins
  <2>1. ASSUME StartupPass \/ IgnorePass \/ OverflowPass \/ DeferredPass \/ BuildPass \/
               ReloadPass
        PROVE  HandVersions'
    <3>1. UNCHANGED <<act, clock, disk>>
      BY <2>1, Zenon DEF StartupPass, BeginPass, IgnorePass, OverflowPass, DeferredPass,
         BuildPass,
          ReloadPass, file
    <3> QED
      BY <1>0, <3>1
  <2> QED
    BY <1>7, <2>1 DEF Begins
<1>8. CASE Passing
  <2>1. ASSUME NEW p \in Paths, PassScans(p) PROVE HandVersions'
    BY <2>1, PassScansDoes, Zenon DEF VersionsInv, HandVersions
  <2>2. ASSUME (\E p \in Paths : Walk(p)) \/ (\E p \in Paths : Read(p)) \/ Classify \/
               Publish \/ EndPass \/ StartupYields
        PROVE  HandVersions'
    <3>1. UNCHANGED <<act, clock, disk>>
      BY <2>2, Zenon DEF Walk, Read, Classify, Publish, EndPass, StartupYields, file
    <3> QED
      BY <1>0, <3>1
  <2> QED
    BY <1>8, <2>1, <2>2 DEF Passing
<1>9. CASE Building
  <2>1. ASSUME (\E p \in Paths : BuildRead(p)) \/ BuildPublish \/ BuildFails \/ BuildEnds
        PROVE  HandVersions'
    <3>1. UNCHANGED <<act, clock, disk>>
      BY <2>1, Zenon DEF BuildRead, BuildPublish, BuildFails, BuildEnds, file
    <3> QED
      BY <1>0, <3>1
  <2> QED
    BY <1>9, <2>1 DEF Building
<1>10. CASE Reloading
  <2>1. ASSUME ReloadPublish \/ ReloadFails \/ ReloadReplays \/ ReloadRests
        PROVE  HandVersions'
    <3>1. UNCHANGED <<act, clock, disk>>
      BY <2>1, Zenon DEF ReloadPublish, ReloadFails, ReloadReplays, ReloadRests, file
    <3> QED
      BY <1>0, <3>1
  <2> QED
    BY <1>10, <2>1 DEF Reloading
<1>11. CASE Searching
  <2>1. ASSUME Load \/ ReadFile \/ UpdateCache
        PROVE  HandVersions'
    <3>1. UNCHANGED <<act, clock, disk>>
      BY <2>1, Zenon DEF Load, SearchFrame, ReadFile, UpdateCache, file
    <3> QED
      BY <1>0, <3>1
  <2> QED
    BY <1>11, <2>1 DEF Searching
<1> QED
  BY <1>1, <1>2, <1>3, <1>4, <1>5, <1>6, <1>7, <1>8, <1>9, <1>10, <1>11 DEF Next, Progress

\* A build reads what is there.
LEMMA BuildVersionsStep == TypeOK /\ ThreadsOK /\ VersionsInv /\ [Next]_vars => BuildVersions'
<1> SUFFICES ASSUME TypeOK, ThreadsOK, VersionsInv, [Next]_vars
             PROVE  BuildVersions'
  OBVIOUS
<1>0. ASSUME UNCHANGED <<build, clock, disk>> PROVE BuildVersions'
  BY <1>0, Zenon DEF VersionsInv, BuildVersions
<1>1. CASE UNCHANGED vars
  <2>1. UNCHANGED <<build, clock, disk>>
    BY <1>1 DEF vars, file
  <2> QED
    BY <1>0, <2>1
<1>2. CASE Environment
  <2>1. ASSUME NEW p \in Paths, NEW d \in Contents, Write(p, d) PROVE BuildVersions'
    BY <2>1, GoodStays, FileChanges, Zenon DEF VersionsInv, BuildVersions
  <2>2. ASSUME NEW p \in Paths, Remove(p) PROVE BuildVersions'
    BY <2>2, GoodStays, FileChanges, Zenon DEF VersionsInv, BuildVersions
  <2>3. ASSUME BeginReload PROVE BuildVersions'
    <3>1. disk' = disk /\ clock' = clock
      BY <2>3, BeginReloadDoes, Zenon
    <3> QED
      BY <2>3, <3>1, BuildMoves, NewBuilds, NothingIsGood, Zenon DEF BuildVersions
  <2>4. ASSUME RulesEvent \/ TurnToPolling \/ PeriodicPass \/ BeginSave \/ (\E p \in Paths :
               Admit(p))
        PROVE  BuildVersions'
    <3>1. UNCHANGED <<build, clock, disk>>
      BY <2>4, Zenon DEF RulesEvent, TurnToPolling, PeriodicPass, BeginPass, BeginSave,
         Admit, SearchFrame,
          file
    <3> QED
      BY <1>0, <3>1
  <2> QED
    BY <1>2, <2>1, <2>2, <2>3, <2>4 DEF Environment
<1>3. CASE Checkpoint
  <2>1. UNCHANGED <<build, clock, disk>>
    BY <1>3, Zenon DEF Checkpoint, file
  <2> QED
    BY <1>0, <2>1
<1>4. CASE Events
  <2>1. ASSUME (\E p \in Paths : TakeEvent(p)) \/ (\E p \in Paths : ReplayEvent(p)) \/ (\E a
               \in Actors : Defer(a)) \/ (\E a \in Actors : Enter(a)) \/ (\E a \in Actors :
               DropGone(a)) \/ (\E a \in Actors : Open(a)) \/ (\E a \in Actors : Verify(a))
        PROVE  BuildVersions'
    <3>1. UNCHANGED <<build, clock, disk>>
      BY <2>1, Zenon DEF TakeEvent, ReplayEvent, Defer, Enter, DropGone, Open, Verify, file
    <3> QED
      BY <1>0, <3>1
  <2> QED
    BY <1>4, <2>1 DEF Events
<1>5. CASE Recovering
  <2>1. ASSUME RecoveryReplays \/ RecoveryScans \/ (\E p \in Paths : ScanOne(p)) \/
               RecoveryEnds
        PROVE  BuildVersions'
    <3>1. UNCHANGED <<build, clock, disk>>
      BY <2>1, Zenon DEF RecoveryReplays, RecoveryScans, ScanOne, RecoveryEnds, file
    <3> QED
      BY <1>0, <3>1
  <2> QED
    BY <1>5, <2>1 DEF Recovering
<1>6. CASE Ignoring
  <2>1. ASSUME IgnoreChecks \/ IgnoreWaits \/ IgnoreClears \/ IgnoreRechecks
        PROVE  BuildVersions'
    <3>1. UNCHANGED <<build, clock, disk>>
      BY <2>1, Zenon DEF IgnoreChecks, IgnoreWaits, IgnoreClears, IgnoreRechecks, file
    <3> QED
      BY <1>0, <3>1
  <2> QED
    BY <1>6, <2>1 DEF Ignoring
<1>7. CASE Begins
  <2>1. ASSUME StartupPass \/ IgnorePass \/ OverflowPass \/ DeferredPass \/ BuildPass \/
               ReloadPass
        PROVE  BuildVersions'
    <3>1. UNCHANGED <<build, clock, disk>>
      BY <2>1, Zenon DEF StartupPass, BeginPass, IgnorePass, OverflowPass, DeferredPass,
         BuildPass,
          ReloadPass, file
    <3> QED
      BY <1>0, <3>1
  <2> QED
    BY <1>7, <2>1 DEF Begins
<1>8. CASE Passing
  <2>1. ASSUME EndPass PROVE BuildVersions'
    <3>1. disk' = disk /\ clock' = clock /\ build'.got = build.got
      BY <2>1, EndPassDoes, BuildIsCompleted, Zenon
    <3> QED
      BY <3>1, Zenon DEF VersionsInv, BuildVersions
  <2>2. ASSUME (\E p \in Paths : Walk(p)) \/ (\E p \in Paths : Read(p)) \/ (\E p \in Paths :
               PassScans(p)) \/ Classify \/ Publish \/ StartupYields
        PROVE  BuildVersions'
    <3>1. UNCHANGED <<build, clock, disk>>
      BY <2>2, Zenon DEF Walk, Read, PassScans, Classify, Publish, StartupYields, file
    <3> QED
      BY <1>0, <3>1
  <2> QED
    BY <1>8, <2>1, <2>2 DEF Passing
<1>9. CASE Building
  <2>1. ASSUME NEW p \in Paths, BuildRead(p) PROVE BuildVersions'
    <3>1. disk' = disk /\ clock' = clock
      BY <2>1, BuildReadDoes, Zenon
    <3> QED
      <4> USE DEF BuildVersions
      <4> TAKE q \in Paths
      <4>1. CASE q = p
        <5>1. build'.got[q] = disk[q] \/ build'.got[q] = Unread
          BY <2>1, <4>1, BuildReads, Zenon
        <5> QED
          BY <3>1, <5>1, FileIsGood, NothingIsGood, Zenon
      <4>2. CASE q # p
        BY <2>1, <3>1, <4>2, BuildReads, Zenon DEF VersionsInv
      <4> QED
        BY <4>1, <4>2
  <2>2. ASSUME BuildPublish PROVE BuildVersions'
    <3>1. disk' = disk /\ clock' = clock
      BY <2>2, BuildPublishDoes, Zenon
    <3> QED
      BY <2>2, <3>1, BuildMoves, NewBuilds, NothingIsGood, Zenon DEF BuildVersions
  <2>3. ASSUME BuildFails PROVE BuildVersions'
    <3>1. disk' = disk /\ clock' = clock
      BY <2>3, BuildFailsDoes, Zenon
    <3> QED
      BY <2>3, <3>1, BuildMoves, NewBuilds, NothingIsGood, Zenon DEF BuildVersions
  <2>4. ASSUME BuildEnds PROVE BuildVersions'
    <3>1. disk' = disk /\ clock' = clock
      BY <2>4, BuildEndsDoes, Zenon
    <3> QED
      BY <2>4, <3>1, BuildMoves, NewBuilds, NothingIsGood, Zenon DEF BuildVersions
  <2> QED
    BY <1>9, <2>1, <2>2, <2>3, <2>4 DEF Building
<1>10. CASE Reloading
  <2>1. ASSUME ReloadPublish PROVE BuildVersions'
    <3>1. disk' = disk /\ clock' = clock
      BY <2>1, ReloadPublishDoes, Zenon
    <3> QED
      BY <2>1, <3>1, BuildMoves, NewBuilds, NothingIsGood, Zenon DEF BuildVersions
  <2>2. ASSUME ReloadFails PROVE BuildVersions'
    <3>1. disk' = disk /\ clock' = clock
      BY <2>2, ReloadFailsDoes, Zenon
    <3> QED
      BY <2>2, <3>1, BuildMoves, NewBuilds, NothingIsGood, Zenon DEF BuildVersions
  <2>3. ASSUME ReloadReplays \/ ReloadRests
        PROVE  BuildVersions'
    <3>1. UNCHANGED <<build, clock, disk>>
      BY <2>3, Zenon DEF ReloadReplays, ReloadRests, file
    <3> QED
      BY <1>0, <3>1
  <2> QED
    BY <1>10, <2>1, <2>2, <2>3 DEF Reloading
<1>11. CASE Searching
  <2>1. ASSUME Load \/ ReadFile \/ UpdateCache
        PROVE  BuildVersions'
    <3>1. UNCHANGED <<build, clock, disk>>
      BY <2>1, Zenon DEF Load, SearchFrame, ReadFile, UpdateCache, file
    <3> QED
      BY <1>0, <3>1
  <2> QED
    BY <1>11, <2>1 DEF Searching
<1> QED
  BY <1>1, <1>2, <1>3, <1>4, <1>5, <1>6, <1>7, <1>8, <1>9, <1>10, <1>11 DEF Next, Progress

\* A pass sees versions that are there, and reads them.
LEMMA PassVersionsStep == TypeOK /\ ThreadsOK /\ VersionsInv /\ [Next]_vars => PassVersions'
<1> SUFFICES ASSUME TypeOK, ThreadsOK, VersionsInv, [Next]_vars
             PROVE  PassVersions'
  OBVIOUS
<1>0. ASSUME UNCHANGED <<clock, disk, pass>> PROVE PassVersions'
  BY <1>0, Zenon DEF VersionsInv, PassVersions
<1>1. CASE UNCHANGED vars
  <2>1. UNCHANGED <<clock, disk, pass>>
    BY <1>1 DEF vars, file
  <2> QED
    BY <1>0, <2>1
<1>2. CASE Environment
  <2>1. ASSUME PeriodicPass PROVE PassVersions'
    <3>1. disk' = disk /\ clock' = clock
      BY <2>1, BeginsShare, Zenon DEF file
    <3> QED
      BY <2>1, <3>1, PassBegins, NothingIsGood, Zenon DEF PassVersions
  <2>2. ASSUME NEW p \in Paths, NEW d \in Contents, Write(p, d) PROVE PassVersions'
    BY <2>2, GoodStays, FileChanges, Zenon DEF VersionsInv, PassVersions
  <2>3. ASSUME NEW p \in Paths, Remove(p) PROVE PassVersions'
    BY <2>3, GoodStays, FileChanges, Zenon DEF VersionsInv, PassVersions
  <2>4. ASSUME BeginReload PROVE PassVersions'
    <3>1. disk' = disk /\ clock' = clock
      BY <2>4, BeginReloadDoes, Zenon
    <3> QED
      BY <2>4, <3>1, PassMoves, NothingIsGood, Zenon DEF VersionsInv, PassVersions
  <2>5. ASSUME BeginSave PROVE PassVersions'
    <3>1. disk' = disk /\ clock' = clock
      BY <2>5, BeginSaveDoes, Zenon
    <3>2. \A q \in Paths : pass'.seen[q] = VersionOn(q) /\ pass'.got[q] = None
      BY <2>5, PassSaves, Zenon
    <3> QED
      BY <3>1, <3>2, FileIsGood, NothingIsGood, Zenon DEF PassVersions
  <2>6. ASSUME RulesEvent \/ TurnToPolling \/ (\E p \in Paths : Admit(p))
        PROVE  PassVersions'
    <3>1. UNCHANGED <<clock, disk, pass>>
      BY <2>6, Zenon DEF RulesEvent, TurnToPolling, Admit, SearchFrame, file
    <3> QED
      BY <1>0, <3>1
  <2> QED
    BY <1>2, <2>1, <2>2, <2>3, <2>4, <2>5, <2>6 DEF Environment
<1>3. CASE Checkpoint
  <2>1. UNCHANGED <<clock, disk, pass>>
    BY <1>3, Zenon DEF Checkpoint, file
  <2> QED
    BY <1>0, <2>1
<1>4. CASE Events
  <2>1. ASSUME (\E p \in Paths : TakeEvent(p)) \/ (\E p \in Paths : ReplayEvent(p)) \/ (\E a
               \in Actors : Defer(a)) \/ (\E a \in Actors : Enter(a)) \/ (\E a \in Actors :
               DropGone(a)) \/ (\E a \in Actors : Open(a)) \/ (\E a \in Actors : Verify(a))
        PROVE  PassVersions'
    <3>1. UNCHANGED <<clock, disk, pass>>
      BY <2>1, Zenon DEF TakeEvent, ReplayEvent, Defer, Enter, DropGone, Open, Verify, file
    <3> QED
      BY <1>0, <3>1
  <2> QED
    BY <1>4, <2>1 DEF Events
<1>5. CASE Recovering
  <2>1. ASSUME RecoveryReplays \/ RecoveryScans \/ (\E p \in Paths : ScanOne(p)) \/
               RecoveryEnds
        PROVE  PassVersions'
    <3>1. UNCHANGED <<clock, disk, pass>>
      BY <2>1, Zenon DEF RecoveryReplays, RecoveryScans, ScanOne, RecoveryEnds, file
    <3> QED
      BY <1>0, <3>1
  <2> QED
    BY <1>5, <2>1 DEF Recovering
<1>6. CASE Ignoring
  <2>1. ASSUME IgnoreChecks \/ IgnoreWaits \/ IgnoreClears \/ IgnoreRechecks
        PROVE  PassVersions'
    <3>1. UNCHANGED <<clock, disk, pass>>
      BY <2>1, Zenon DEF IgnoreChecks, IgnoreWaits, IgnoreClears, IgnoreRechecks, file
    <3> QED
      BY <1>0, <3>1
  <2> QED
    BY <1>6, <2>1 DEF Ignoring
<1>7. CASE Begins
  <2>1. ASSUME Begins PROVE PassVersions'
    <3>1. disk' = disk /\ clock' = clock
      BY <2>1, BeginsShare, Zenon DEF file
    <3> QED
      BY <2>1, <3>1, PassBegins, NothingIsGood, Zenon DEF PassVersions
  <2> QED
    BY <1>7, <2>1
<1>8. CASE Passing
  <2>1. ASSUME NEW p \in Paths, Walk(p) PROVE PassVersions'
    <3>1. disk' = disk /\ clock' = clock
      BY <2>1, WalkDoes, Zenon
    <3> QED
      <4> USE DEF PassVersions
      <4> TAKE q \in Paths
      <4>1. CASE q = p
        <5>1. pass'.got[q] = pass.got[q] /\ pass'.seen[q] = VersionOn(q)
          BY <2>1, <4>1, PassWalks, Zenon
        <5> QED
          BY <3>1, <5>1, FileIsGood, NothingIsGood, Zenon DEF VersionsInv
      <4>2. CASE q # p
        <5>1. pass'.got[q] = pass.got[q] /\ pass'.seen[q] = pass.seen[q]
          BY <2>1, <4>2, PassWalks, Zenon
        <5> QED
          BY <3>1, <5>1, Zenon DEF VersionsInv
      <4> QED
        BY <4>1, <4>2
  <2>2. ASSUME NEW p \in Paths, Read(p) PROVE PassVersions'
    <3>1. disk' = disk /\ clock' = clock
      BY <2>2, ReadDoes, Zenon
    <3> QED
      <4> USE DEF PassVersions
      <4> TAKE q \in Paths
      <4>1. CASE q = p
        <5>1. (pass'.got[q] = disk[q] \/ pass'.got[q] = Unread) /\ pass'.seen[q] = pass.seen[q]
          BY <2>2, <4>1, PassReads, Zenon
        <5> QED
          BY <3>1, <5>1, FileIsGood, NothingIsGood, Zenon DEF VersionsInv
      <4>2. CASE q # p
        <5>1. pass'.got[q] = pass.got[q] /\ pass'.seen[q] = pass.seen[q]
          BY <2>2, <4>2, PassReads, Zenon
        <5> QED
          BY <3>1, <5>1, Zenon DEF VersionsInv
      <4> QED
        BY <4>1, <4>2
  <2>3. ASSUME NEW p \in Paths, PassScans(p) PROVE PassVersions'
    <3>1. disk' = disk /\ clock' = clock
      BY <2>3, PassScansDoes, Zenon
    <3> QED
      BY <2>3, <3>1, PassMoves, Zenon DEF VersionsInv, PassVersions
  <2>4. ASSUME Classify PROVE PassVersions'
    <3>1. disk' = disk /\ clock' = clock
      BY <2>4, ClassifyDoes, Zenon
    <3> QED
      BY <2>4, <3>1, PassClassifies, Zenon DEF VersionsInv, PassVersions
  <2>5. ASSUME Publish PROVE PassVersions'
    <3>1. disk' = disk /\ clock' = clock
      BY <2>5, PublishDoes, Zenon
    <3> QED
      BY <2>5, <3>1, PassMoves, Zenon DEF VersionsInv, PassVersions
  <2>6. ASSUME EndPass PROVE PassVersions'
    <3>1. disk' = disk /\ clock' = clock
      BY <2>6, EndPassDoes, Zenon
    <3> QED
      BY <2>6, <3>1, PassMoves, NewPasses, NothingIsGood, Zenon DEF VersionsInv,
         PassVersions
  <2>7. ASSUME StartupYields
        PROVE  PassVersions'
    <3>1. UNCHANGED <<clock, disk, pass>>
      BY <2>7, Zenon DEF StartupYields, file
    <3> QED
      BY <1>0, <3>1
  <2> QED
    BY <1>8, <2>1, <2>2, <2>3, <2>4, <2>5, <2>6, <2>7 DEF Passing
<1>9. CASE Building
  <2>1. ASSUME (\E p \in Paths : BuildRead(p)) \/ BuildPublish \/ BuildFails \/ BuildEnds
        PROVE  PassVersions'
    <3>1. UNCHANGED <<clock, disk, pass>>
      BY <2>1, Zenon DEF BuildRead, BuildPublish, BuildFails, BuildEnds, file
    <3> QED
      BY <1>0, <3>1
  <2> QED
    BY <1>9, <2>1 DEF Building
<1>10. CASE Reloading
  <2>1. ASSUME ReloadPublish PROVE PassVersions'
    <3>1. disk' = disk /\ clock' = clock
      BY <2>1, ReloadPublishDoes, Zenon
    <3> QED
      BY <2>1, <3>1, PassMoves, NewPasses, NothingIsGood, Zenon DEF VersionsInv,
         PassVersions
  <2>2. ASSUME ReloadFails PROVE PassVersions'
    <3>1. disk' = disk /\ clock' = clock
      BY <2>2, ReloadFailsDoes, Zenon
    <3> QED
      BY <2>2, <3>1, PassMoves, NewPasses, NothingIsGood, Zenon DEF VersionsInv,
         PassVersions
  <2>3. ASSUME ReloadReplays \/ ReloadRests
        PROVE  PassVersions'
    <3>1. UNCHANGED <<clock, disk, pass>>
      BY <2>3, Zenon DEF ReloadReplays, ReloadRests, file
    <3> QED
      BY <1>0, <3>1
  <2> QED
    BY <1>10, <2>1, <2>2, <2>3 DEF Reloading
<1>11. CASE Searching
  <2>1. ASSUME Load \/ ReadFile \/ UpdateCache
        PROVE  PassVersions'
    <3>1. UNCHANGED <<clock, disk, pass>>
      BY <2>1, Zenon DEF Load, SearchFrame, ReadFile, UpdateCache, file
    <3> QED
      BY <1>0, <3>1
  <2> QED
    BY <1>11, <2>1 DEF Searching
<1> QED
  BY <1>1, <1>2, <1>3, <1>4, <1>5, <1>6, <1>7, <1>8, <1>9, <1>10, <1>11 DEF Next, Progress

\* What a build read of a file, and what it says of it.
LEMMA BuiltAt ==
  ASSUME TypeOK, ThreadsOK, NEW S \in SUBSET Paths, NEW p \in Paths
  PROVE  /\ Built[p] = IF build.got[p] = Unread THEN None ELSE build.got[p]
         /\ Built[p] \in Copies \cup {None}
         /\ KnownOf(S)[p] = IF Built[p] = None THEN NoStamp
                            ELSE [ver |-> IF p \in S \cup build.raced THEN None ELSE Built[p].ver,
                                  data |-> Built[p].data]
         /\ Stamps(KnownOf(S))[p] = KnownOf(S)[p].ver
<1>1. Built[p] = IF build.got[p] = Unread THEN None ELSE build.got[p]
  BY Zenon DEF Built
<1>2. KnownOf(S)[p] = IF Built[p] = None THEN NoStamp
                      ELSE [ver |-> IF p \in S \cup build.raced THEN None ELSE Built[p].ver,
                            data |-> Built[p].data]
  BY Zenon DEF KnownOf
<1>3. Stamps(KnownOf(S))[p] = KnownOf(S)[p].ver
  BY Zenon DEF Stamps
<1>4. Built[p] \in Copies \cup {None}
  BY Builds, Zenon
<1> QED
  BY <1>1, <1>2, <1>3, <1>4, Zenon

\* So a build's evidence is as good as its copies.
LEMMA BuiltIsGood ==
  ASSUME TypeOK, ThreadsOK, VersionsInv, NEW S \in SUBSET Paths, NEW p \in Paths
  PROVE  /\ GoodCopy(disk[p], clock, Built[p])
         /\ GoodEvidence(disk[p], clock, KnownOf(S)[p])
         /\ GoodVersion(disk[p], clock, Stamps(KnownOf(S))[p])
<1>1. GoodCopy(disk[p], clock, Built[p])
  BY BuiltAt, NothingIsGood, Zenon DEF VersionsInv, BuildVersions
<1>2. GoodEvidence(disk[p], clock, KnownOf(S)[p])
  <2>1. CASE Built[p] = None
    BY <2>1, BuiltAt, NothingIsGood, Zenon
  <2>2. CASE Built[p] \in Copies /\ p \in S \cup build.raced
    <3>0. Built[p] # None
      BY <2>2, Sentinels, Zenon
    <3>1. KnownOf(S)[p] = [ver |-> None, data |-> Built[p].data]
      BY <2>2, <3>0, BuiltAt, Zenon
    <3>2. KnownOf(S)[p].ver \notin Versions
      BY <3>1, Sentinels, SMT
    <3> QED
      BY <3>2, Zenon DEF GoodEvidence
  <2>3. CASE Built[p] \in Copies /\ p \notin S \cup build.raced
    <3>0. Built[p] # None
      BY <2>3, Sentinels, Zenon
    <3>1. KnownOf(S)[p] = [ver |-> Built[p].ver, data |-> Built[p].data]
      BY <2>3, <3>0, BuiltAt, Zenon
    <3> QED
      BY <1>1, <2>3, <3>1, CopyIsEvidence, Zenon
  <2> QED
    BY <2>1, <2>2, <2>3, BuiltAt, Zenon
<1>3. GoodVersion(disk[p], clock, KnownOf(S)[p].ver)
  BY <1>2, EvidenceIsVersion, Zenon
<1>4. Stamps(KnownOf(S))[p] = KnownOf(S)[p].ver
  BY BuiltAt, Zenon
<1> QED
  BY <1>1, <1>2, <1>3, <1>4, Zenon

\* What a merge makes of one file: of what it read,
LEMMA MergedAt ==
  ASSUME TypeOK, ThreadsOK, NEW p \in Paths
  PROVE  /\ p \in Done =>
              /\ pass.got[p] \in Copies \cup {None}
              /\ Merged[p] = pass.got[p] /\ Pruned[p] = None
              /\ Evidenced[p] = IF pass.got[p] = None THEN NoStamp
                                ELSE [ver |-> pass.got[p].ver, data |-> pass.got[p].data]
              /\ Memoised[p] \in {None, Unknown, pass.seen[p]}
         /\ p \notin Done =>
              /\ Merged[p] = reader[p] /\ Pruned[p] \in {overlay[p], None}
              /\ \/ Evidenced[p] = NoStamp
                 \/ /\ p \notin pass.cand \cup pass.skip
                    /\ \/ Evidenced[p] = evidence[p]
                       \/ /\ pass.seen[p] # None /\ pass.by # "autosave"
                          /\ Evidenced[p] = [ver |-> Old(p), data |-> evidence[p].data]
              /\ p \in pass.cand \cup pass.skip => Evidenced[p] = NoStamp
         /\ Stamps(Evidenced)[p] = Evidenced[p].ver
         /\ \/ Memoised[p] \in {None, Unknown, memo[p]}
            \/ Memoised[p] = pass.seen[p] /\ pass.got[p] = Unread
<1>1. Stamps(Evidenced)[p] = Evidenced[p].ver
  BY Zenon DEF Stamps
<1>2. ASSUME p \in Done
      PROVE  /\ pass.got[p] \in Copies \cup {None}
             /\ Merged[p] = pass.got[p] /\ Pruned[p] = None
             /\ Evidenced[p] = IF pass.got[p] = None THEN NoStamp
                               ELSE [ver |-> pass.got[p].ver, data |-> pass.got[p].data]
  <2>1. pass.got[p] \in Copies \cup {None}
    BY <1>2, Merges, Zenon
  <2> QED
    BY <1>2, <2>1, Zenon DEF Merged, Pruned, Evidenced
<1>3. ASSUME p \notin Done
      PROVE  /\ Merged[p] = reader[p] /\ Pruned[p] \in {overlay[p], None}
             /\ \/ Evidenced[p] = NoStamp
                \/ /\ p \notin pass.cand \cup pass.skip
                   /\ \/ Evidenced[p] = evidence[p]
                      \/ /\ pass.seen[p] # None /\ pass.by # "autosave"
                         /\ Evidenced[p] = [ver |-> Old(p), data |-> evidence[p].data]
             /\ p \in pass.cand \cup pass.skip => Evidenced[p] = NoStamp
  <2>1. Merged[p] = reader[p] /\ Pruned[p] \in {overlay[p], None}
    BY <1>3, Zenon DEF Merged, Pruned
  <2>2. Evidenced[p] = IF p \in Kept THEN NoStamp
                       ELSE IF pass.by = "autosave" THEN evidence[p]
                       ELSE IF pass.seen[p] = None THEN NoStamp
                       ELSE [ver |-> Old(p), data |-> evidence[p].data]
    BY <1>3, Zenon DEF Evidenced
  <2>3. p \in Kept <=> p \in pass.cand \cup pass.skip
    BY <1>3, Zenon DEF Kept, Done, Unreadable
  <2> QED
    BY <2>1, <2>2, <2>3, Zenon
<1>4. /\ p \in Done => Memoised[p] \in {None, Unknown, pass.seen[p]}
      /\ \/ Memoised[p] \in {None, Unknown, memo[p]}
         \/ Memoised[p] = pass.seen[p] /\ pass.got[p] = Unread
  BY Zenon DEF Memoised, Unreadable
<1> QED
  BY <1>1, <1>2, <1>3, <1>4, Zenon

\* The version a refresh takes the index to hold is good evidence of what the
\* index does hold, where nothing overlays it.
LEMMA OldIsGood ==
  ASSUME TypeOK, VersionsInv, IndexInv, NEW p \in Paths, overlay[p] = None
  PROVE  /\ GoodEvidence(disk[p], clock, [ver |-> Old(p), data |-> evidence[p].data])
         /\ GoodVersion(disk[p], clock, Old(p))
<1>1. GoodEvidence(disk[p], clock, evidence[p]) /\ GoodCopy(disk[p], clock, reader[p])
  BY Zenon DEF VersionsInv, IndexVersions
<1>2. CASE evidence[p].ver # None
  <2>1. evidence[p] \in [ver : Stamp, data : Contents \cup {None}]
    BY Zenon DEF TypeOK
  <2>2. [ver |-> Old(p), data |-> evidence[p].data] = evidence[p]
    BY <1>2, <2>1, SMT DEF Old
  <2>3. Old(p) = evidence[p].ver
    BY <1>2, Zenon DEF Old
  <2> QED
    BY <1>1, <2>2, <2>3, EvidenceIsVersion, Zenon
<1>3. CASE evidence[p].ver = None /\ saved[p] \in Versions
  <2>1. reader[p] \in Copies /\ reader[p].ver = Old(p) /\ reader[p].data = evidence[p].data
    BY <1>3, Sentinels, Zenon DEF IndexInv, KnownInv, Old
  <2> QED
    BY <1>1, <2>1, CopyIsEvidence, Zenon
<1>4. CASE evidence[p].ver = None /\ saved[p] \notin Versions
  <2>1. Old(p) \notin Versions
    BY <1>4, Zenon DEF Old
  <2>2. [ver |-> Old(p), data |-> evidence[p].data].ver = Old(p)
    OBVIOUS
  <2> QED
    BY <2>1, <2>2, Zenon DEF GoodEvidence, GoodVersion
<1> QED
  BY <1>2, <1>3, <1>4

\* A merge leaves good evidence.
LEMMA MergedIsGood ==
  ASSUME TypeOK, ThreadsOK, VersionsInv, IndexInv, ReadInv, pass.at = "read", NEW p \in Paths
  PROVE  /\ GoodCopy(disk[p], clock, Merged[p]) /\ GoodCopy(disk[p], clock, Pruned[p])
         /\ GoodEvidence(disk[p], clock, Evidenced[p])
         /\ GoodVersion(disk[p], clock, Stamps(Evidenced)[p])
         /\ GoodVersion(disk[p], clock, Memoised[p])
<1>1. /\ GoodCopy(disk[p], clock, reader[p]) /\ GoodCopy(disk[p], clock, overlay[p])
      /\ GoodCopy(disk[p], clock, pass.got[p]) /\ GoodEvidence(disk[p], clock, evidence[p])
      /\ GoodVersion(disk[p], clock, memo[p]) /\ GoodVersion(disk[p], clock, pass.seen[p])
  BY Zenon DEF VersionsInv, IndexVersions, PassVersions
<1>2. GoodCopy(disk[p], clock, None) /\ GoodEvidence(disk[p], clock, NoStamp)
      /\ GoodVersion(disk[p], clock, None) /\ GoodVersion(disk[p], clock, Unknown)
  BY NothingIsGood, Zenon
<1>3. GoodVersion(disk[p], clock, Memoised[p])
  BY <1>1, <1>2, MergedAt, Zenon
<1>4. GoodCopy(disk[p], clock, Merged[p]) /\ GoodCopy(disk[p], clock, Pruned[p])
  BY <1>1, <1>2, MergedAt, Zenon
<1>5. GoodEvidence(disk[p], clock, Evidenced[p])
  <2>1. CASE Evidenced[p] = NoStamp \/ Evidenced[p] = evidence[p]
    BY <1>1, <1>2, <2>1, Zenon
  <2>2. CASE p \in Done /\ pass.got[p] \in Copies
    <3>1. Evidenced[p] = [ver |-> pass.got[p].ver, data |-> pass.got[p].data]
      BY <2>2, MergedAt, Sentinels, Zenon
    <3> QED
      BY <1>1, <2>2, <3>1, CopyIsEvidence, Zenon
  <2>3. CASE /\ p \notin pass.cand \cup pass.skip
             /\ Evidenced[p] = [ver |-> Old(p), data |-> evidence[p].data]
    <3>1. overlay[p] = None
      BY <2>3, Zenon DEF ReadInv
    <3> QED
      BY <2>3, <3>1, OldIsGood, Zenon
  <2> QED
    BY <2>1, <2>2, <2>3, MergedAt, Zenon
<1>6. GoodVersion(disk[p], clock, Evidenced[p].ver)
  BY <1>5, EvidenceIsVersion, Zenon
<1>7. Stamps(Evidenced)[p] = Evidenced[p].ver
  BY MergedAt, Zenon
<1> QED
  BY <1>3, <1>4, <1>5, <1>6, <1>7, Zenon

\* What looking at a file does to what is known of it and of the others.
LEMMA LooksAt ==
  ASSUME TypeOK, ThreadsOK, NEW a \in Actors, Open(a) \/ Verify(a) \/ DropGone(a), NEW q \in Paths
  PROVE  /\ UNCHANGED <<disk, clock, reader, saved, memo>>
         /\ \/ overlay'[q] = overlay[q] /\ evidence'[q] = evidence[q]
            \/ /\ q = act[a].path
               /\ \/ /\ \/ overlay'[q] = Tombstone
                        \/ overlay'[q] = overlay[q] /\ evidence[q].ver = None
                     /\ evidence'[q] = NoStamp
                     /\ Visible(q)' = None /\ (DropGone(a) \/ disk[q] = None)
                  \/ /\ overlay'[q] = overlay[q]
                     /\ evidence'[q] = [ver |-> Unknown, data |-> None]
                  \/ /\ act[a].at = "verify" /\ act[a].copy \in Copies
                     /\ VersionOn(q) = act[a].copy.ver
                     /\ \/ overlay'[q] = act[a].copy
                        \/ /\ overlay'[q] = overlay[q] /\ overlay[q] \in Copies
                           /\ overlay[q].data = act[a].copy.data
                        \/ /\ overlay'[q] = overlay[q] /\ overlay[q] = None
                           /\ reader[q] # None /\ evidence[q].data = act[a].copy.data
                     /\ evidence'[q] = [ver |-> act[a].copy.ver, data |-> act[a].copy.data]
<1>1. UNCHANGED <<disk, clock, reader, saved, memo>>
  BY OpenDoes, VerifyDoes, DropGoneDoes, Zenon
<1> DEFINE p == act[a].path
           copy == act[a].copy
<1>2. /\ p \in Paths
      /\ \/ UNCHANGED <<index, searches>>
         \/ (DropGone(a) \/ disk[p] = None) /\ Drop(p)
         \/ RetryLater(p)
         \/ /\ act[a].at = "verify" /\ copy \in Copies /\ VersionOn(p) = copy.ver
            /\ Commit(p, copy)
  BY Looks, Zenon
<1> HIDE DEF p, copy
<1>3. CASE UNCHANGED <<index, searches>>
  BY <1>1, <1>3, Zenon DEF index
<1>4. CASE (DropGone(a) \/ disk[p] = None) /\ Drop(p)
  <2>2. CASE q = p
    <3>1. Drop(q)
      BY <1>4, <2>2, Zenon
    <3>2. /\ \/ overlay'[q] = Tombstone
             \/ overlay'[q] = overlay[q] /\ evidence[q].ver = None
          /\ evidence'[q] = NoStamp /\ Visible(q)' = None
      BY <3>1, Drops, Zenon
    <3> QED
      BY <1>1, <1>4, <2>2, <3>2, Zenon DEF p
  <2>3. CASE q # p
    <3>1. \A r \in Paths \ {p} : overlay'[r] = overlay[r] /\ evidence'[r] = evidence[r]
      BY <1>2, <1>4, Drops, Zenon
    <3> QED
      BY <1>1, <2>3, <3>1, Zenon
  <2> QED
    BY <2>2, <2>3
<1>5. CASE RetryLater(p)
  <2>1. /\ overlay' = overlay
        /\ evidence'[p] = [ver |-> Unknown, data |-> None]
        /\ \A r \in Paths \ {p} : evidence'[r] = evidence[r]
    BY <1>2, <1>5, Retries, Zenon
  <2>2. CASE q = p
    BY <1>1, <2>1, <2>2, Zenon DEF p
  <2>3. CASE q # p
    BY <1>1, <2>1, <2>3, Zenon
  <2> QED
    BY <2>2, <2>3
<1>6. CASE /\ act[a].at = "verify" /\ copy \in Copies /\ VersionOn(p) = copy.ver
           /\ Commit(p, copy)
  <2>1. /\ \/ overlay'[p] = copy
           \/ /\ overlay'[p] = overlay[p] /\ overlay[p] \in Copies
              /\ overlay[p].data = copy.data
           \/ /\ overlay'[p] = overlay[p] /\ overlay[p] = None
              /\ reader[p] # None /\ evidence[p].data = copy.data
        /\ evidence'[p] = [ver |-> copy.ver, data |-> copy.data]
        /\ \A r \in Paths \ {p} : overlay'[r] = overlay[r] /\ evidence'[r] = evidence[r]
    BY <1>2, <1>6, Commits, Zenon
  <2>2. CASE q = p
    BY <1>1, <1>6, <2>1, <2>2, Zenon DEF p, copy
  <2>3. CASE q # p
    BY <1>1, <2>1, <2>3, Zenon
  <2> QED
    BY <2>2, <2>3
<1> QED
  BY <1>2, <1>3, <1>4, <1>5, <1>6

\* What a look leaves is good.
LEMMA LookIsGood ==
  ASSUME TypeOK, ThreadsOK, VersionsInv, NEW a \in Actors, Open(a) \/ Verify(a) \/ DropGone(a),
         NEW q \in Paths
  PROVE  /\ GoodCopy(disk[q], clock, overlay'[q])
         /\ GoodEvidence(disk[q], clock, evidence'[q])
<1>1. /\ GoodCopy(disk[q], clock, overlay[q]) /\ GoodEvidence(disk[q], clock, evidence[q])
      /\ act[a].at = "verify" /\ act[a].path = q => GoodCopy(disk[q], clock, act[a].copy)
  BY Zenon DEF VersionsInv, IndexVersions, HandVersions
<1>2. /\ GoodCopy(disk[q], clock, Tombstone) /\ GoodEvidence(disk[q], clock, NoStamp)
      /\ GoodEvidence(disk[q], clock, [ver |-> Unknown, data |-> None])
  BY NothingIsGood, Zenon
<1>3. \/ overlay'[q] = overlay[q] /\ evidence'[q] = evidence[q]
      \/ overlay'[q] \in {overlay[q], Tombstone} /\ evidence'[q] = NoStamp
      \/ overlay'[q] = overlay[q] /\ evidence'[q] = [ver |-> Unknown, data |-> None]
      \/ /\ act[a].at = "verify" /\ act[a].path = q /\ act[a].copy \in Copies
         /\ overlay'[q] = overlay[q] \/ overlay'[q] = act[a].copy
         /\ evidence'[q] = [ver |-> act[a].copy.ver, data |-> act[a].copy.data]
  BY LooksAt, Zenon
<1>4. ASSUME act[a].at = "verify", act[a].path = q, act[a].copy \in Copies
      PROVE  GoodEvidence(disk[q], clock, [ver |-> act[a].copy.ver, data |-> act[a].copy.data])
  BY <1>1, <1>4, CopyIsEvidence, Zenon
<1> QED
  BY <1>1, <1>2, <1>3, <1>4, Zenon

\* A file just written is good.
LEMMA WrittenIsGood ==
  ASSUME NEW d \in Copies \cup {None}, NEW k \in Versions, d # None => d.ver = k + 1
  PROVE  GoodCopy(d, k + 1, d)
BY Sentinels, SMT DEF GoodCopy, GoodVersion

\* The index is filled from what was read.
LEMMA IndexVersionsStep ==
  TypeOK /\ ThreadsOK /\ ControlInv /\ VersionsInv /\ IndexInv /\ ReadInv /\ [Next]_vars => IndexVersions'
<1> SUFFICES ASSUME TypeOK, ThreadsOK, ControlInv, VersionsInv, IndexInv, ReadInv, [Next]_vars
             PROVE  IndexVersions'
  OBVIOUS
<1>0. ASSUME UNCHANGED <<clock, disk, evidence, memo, overlay, reader, saved>> PROVE IndexVersions'
  BY <1>0, Zenon DEF VersionsInv, IndexVersions
<1>1. CASE UNCHANGED vars
  <2>1. UNCHANGED <<clock, disk, evidence, memo, overlay, reader, saved>>
    BY <1>1 DEF vars, file, index
  <2> QED
    BY <1>0, <2>1
<1>2. CASE Environment
  <2>1. ASSUME NEW p \in Paths, NEW d \in Contents, Write(p, d) PROVE IndexVersions'
    <3> USE DEF IndexVersions
    <3> TAKE q \in Paths
    <3>1. /\ GoodCopy(disk[q], clock, reader[q]) /\ GoodCopy(disk[q], clock, overlay[q])
          /\ GoodEvidence(disk[q], clock, evidence[q]) /\ GoodCopy(disk[q], clock, disk[q])
          /\ GoodVersion(disk[q], clock, saved[q]) /\ GoodVersion(disk[q], clock, memo[q])
      BY Zenon DEF VersionsInv
    <3>2. UNCHANGED <<reader, overlay, evidence, saved, memo>>
      BY <2>1, FileChanges, Zenon
    <3>3. /\ \A v : GoodVersion(disk[q], clock, v) => GoodVersion(disk'[q], clock', v)
          /\ \A c : GoodCopy(disk[q], clock, c) => GoodCopy(disk'[q], clock', c)
          /\ \A s : GoodEvidence(disk[q], clock, s) => GoodEvidence(disk'[q], clock', s)
      BY <2>1, GoodStays, Zenon
    <3>4. GoodCopy(disk'[q], clock', disk'[q])
      <4>1. CASE q = p
        <5>1. /\ disk'[q] \in Copies \cup {None} /\ clock \in Versions
              /\ disk'[q] # None => disk'[q].ver = clock + 1
              /\ clock' = clock + 1
          BY <2>1, <4>1, FileChanges, Zenon DEF TypeOK
        <5> QED
          BY <5>1, WrittenIsGood, Zenon
      <4>2. CASE q # p
        <5>1. disk'[q] = disk[q]
          BY <2>1, <4>2, FileChanges, Zenon
        <5> QED
          BY <3>1, <3>3, <5>1, Zenon
      <4> QED
        BY <4>1, <4>2
    <3> QED
      BY <3>1, <3>2, <3>3, <3>4, Zenon
  <2>2. ASSUME NEW p \in Paths, Remove(p) PROVE IndexVersions'
    <3> USE DEF IndexVersions
    <3> TAKE q \in Paths
    <3>1. /\ GoodCopy(disk[q], clock, reader[q]) /\ GoodCopy(disk[q], clock, overlay[q])
          /\ GoodEvidence(disk[q], clock, evidence[q]) /\ GoodCopy(disk[q], clock, disk[q])
          /\ GoodVersion(disk[q], clock, saved[q]) /\ GoodVersion(disk[q], clock, memo[q])
      BY Zenon DEF VersionsInv
    <3>2. UNCHANGED <<reader, overlay, evidence, saved, memo>>
      BY <2>2, FileChanges, Zenon
    <3>3. /\ \A v : GoodVersion(disk[q], clock, v) => GoodVersion(disk'[q], clock', v)
          /\ \A c : GoodCopy(disk[q], clock, c) => GoodCopy(disk'[q], clock', c)
          /\ \A s : GoodEvidence(disk[q], clock, s) => GoodEvidence(disk'[q], clock', s)
      BY <2>2, GoodStays, Zenon
    <3>4. GoodCopy(disk'[q], clock', disk'[q])
      <4>1. CASE q = p
        <5>1. /\ disk'[q] \in Copies \cup {None} /\ clock \in Versions
              /\ disk'[q] # None => disk'[q].ver = clock + 1
              /\ clock' = clock + 1
          BY <2>2, <4>1, FileChanges, Zenon DEF TypeOK
        <5> QED
          BY <5>1, WrittenIsGood, Zenon
      <4>2. CASE q # p
        <5>1. disk'[q] = disk[q]
          BY <2>2, <4>2, FileChanges, Zenon
        <5> QED
          BY <3>1, <3>3, <5>1, Zenon
      <4> QED
        BY <4>1, <4>2
    <3> QED
      BY <3>1, <3>2, <3>3, <3>4, Zenon
  <2>3. ASSUME RulesEvent \/ TurnToPolling \/ BeginReload \/ PeriodicPass \/ BeginSave \/
               (\E p \in Paths : Admit(p))
        PROVE  IndexVersions'
    <3>1. UNCHANGED <<clock, disk, evidence, memo, overlay, reader, saved>>
      BY <2>3, Zenon DEF RulesEvent, TurnToPolling, BeginReload, PeriodicPass, BeginPass,
         BeginSave, Admit,
          SearchFrame, file, index
    <3> QED
      BY <1>0, <3>1
  <2> QED
    BY <1>2, <2>1, <2>2, <2>3 DEF Environment
<1>3. CASE Checkpoint
  <2> USE DEF IndexVersions
  <2> TAKE q \in Paths
  <2>1. disk' = disk /\ clock' = clock /\ memo' = memo
    BY <1>3, CheckpointDoes, Zenon
  <2>2. /\ reader' = Built /\ overlay' = overlay
        /\ evidence' = KnownOf({}) /\ saved' = Stamps(KnownOf({}))
    BY <1>3, Zenon DEF Checkpoint
  <2>3. overlay'[q] \in {overlay[q], None}
    BY <2>2, Zenon
  <2>4. /\ GoodCopy(disk[q], clock, Built[q])
        /\ GoodEvidence(disk[q], clock, KnownOf({})[q])
        /\ GoodVersion(disk[q], clock, Stamps(KnownOf({}))[q])
    BY WithheldPaths, BuiltIsGood, Zenon
  <2> QED
    BY <2>1, <2>2, <2>3, <2>4, NothingIsGood, Zenon DEF VersionsInv
<1>4. CASE Events
  <2>1. ASSUME NEW a \in Actors, DropGone(a) PROVE IndexVersions'
    <3> USE DEF IndexVersions
    <3> TAKE q \in Paths
    <3>1. UNCHANGED <<disk, clock, reader, saved, memo>>
      BY <2>1, LooksAt, Zenon
    <3>2. GoodCopy(disk[q], clock, overlay'[q]) /\ GoodEvidence(disk[q], clock, evidence'[q])
      BY <2>1, LookIsGood, Zenon
    <3> QED
      BY <3>1, <3>2, Zenon DEF VersionsInv
  <2>2. ASSUME NEW a \in Actors, Open(a) PROVE IndexVersions'
    <3> USE DEF IndexVersions
    <3> TAKE q \in Paths
    <3>1. UNCHANGED <<disk, clock, reader, saved, memo>>
      BY <2>2, LooksAt, Zenon
    <3>2. GoodCopy(disk[q], clock, overlay'[q]) /\ GoodEvidence(disk[q], clock, evidence'[q])
      BY <2>2, LookIsGood, Zenon
    <3> QED
      BY <3>1, <3>2, Zenon DEF VersionsInv
  <2>3. ASSUME NEW a \in Actors, Verify(a) PROVE IndexVersions'
    <3> USE DEF IndexVersions
    <3> TAKE q \in Paths
    <3>1. UNCHANGED <<disk, clock, reader, saved, memo>>
      BY <2>3, LooksAt, Zenon
    <3>2. GoodCopy(disk[q], clock, overlay'[q]) /\ GoodEvidence(disk[q], clock, evidence'[q])
      BY <2>3, LookIsGood, Zenon
    <3> QED
      BY <3>1, <3>2, Zenon DEF VersionsInv
  <2>4. ASSUME (\E p \in Paths : TakeEvent(p)) \/ (\E p \in Paths : ReplayEvent(p)) \/ (\E a
               \in Actors : Defer(a)) \/ (\E a \in Actors : Enter(a))
        PROVE  IndexVersions'
    <3>1. UNCHANGED <<clock, disk, evidence, memo, overlay, reader, saved>>
      BY <2>4, Zenon DEF TakeEvent, ReplayEvent, Defer, Enter, file, index
    <3> QED
      BY <1>0, <3>1
  <2> QED
    BY <1>4, <2>1, <2>2, <2>3, <2>4 DEF Events
<1>5. CASE Recovering
  <2>1. ASSUME RecoveryReplays \/ RecoveryScans \/ (\E p \in Paths : ScanOne(p)) \/
               RecoveryEnds
        PROVE  IndexVersions'
    <3>1. UNCHANGED <<clock, disk, evidence, memo, overlay, reader, saved>>
      BY <2>1, Zenon DEF RecoveryReplays, RecoveryScans, ScanOne, RecoveryEnds, file, index
    <3> QED
      BY <1>0, <3>1
  <2> QED
    BY <1>5, <2>1 DEF Recovering
<1>6. CASE Ignoring
  <2>1. ASSUME IgnoreChecks \/ IgnoreWaits \/ IgnoreClears \/ IgnoreRechecks
        PROVE  IndexVersions'
    <3>1. UNCHANGED <<clock, disk, evidence, memo, overlay, reader, saved>>
      BY <2>1, Zenon DEF IgnoreChecks, IgnoreWaits, IgnoreClears, IgnoreRechecks, file,
         index
    <3> QED
      BY <1>0, <3>1
  <2> QED
    BY <1>6, <2>1 DEF Ignoring
<1>7. CASE Begins
  <2>1. ASSUME StartupPass \/ IgnorePass \/ OverflowPass \/ DeferredPass \/ BuildPass \/
               ReloadPass
        PROVE  IndexVersions'
    <3>1. UNCHANGED <<clock, disk, evidence, memo, overlay, reader, saved>>
      BY <2>1, Zenon DEF StartupPass, BeginPass, IgnorePass, OverflowPass, DeferredPass,
         BuildPass,
          ReloadPass, file, index
    <3> QED
      BY <1>0, <3>1
  <2> QED
    BY <1>7, <2>1 DEF Begins
<1>8. CASE Passing
  <2>1. ASSUME Classify PROVE IndexVersions'
    <3> USE DEF IndexVersions
    <3> TAKE q \in Paths
    <3>1. UNCHANGED <<disk, clock, reader, overlay, evidence, saved>>
      BY <2>1, ClassifyDoes, Zenon
    <3>2. memo'[q] = memo[q] \/ memo'[q] = None
      <4>1. memo' = memo \/ memo' = [r \in Paths |-> IF pass.seen[r] = None THEN None ELSE memo[r]]
        BY <2>1, Zenon DEF Classify
      <4> QED
        BY <4>1, Zenon
    <3> QED
      BY <3>1, <3>2, NothingIsGood, Zenon DEF VersionsInv
  <2>2. ASSUME Publish PROVE IndexVersions'
    <3> USE DEF IndexVersions
    <3> TAKE q \in Paths
    <3>1. disk' = disk /\ clock' = clock
      BY <2>2, PublishDoes, Zenon
    <3>2. /\ pass.at = "read" /\ memo' = Memoised
          /\ \/ /\ reader' = Merged /\ overlay' = Pruned
                /\ evidence' = Evidenced /\ saved' = Stamps(Evidenced)
             \/ UNCHANGED <<reader, overlay, saved, evidence>>
      BY <2>2, Zenon DEF Publish, index
    <3>3. /\ GoodCopy(disk[q], clock, Merged[q]) /\ GoodCopy(disk[q], clock, Pruned[q])
          /\ GoodEvidence(disk[q], clock, Evidenced[q])
          /\ GoodVersion(disk[q], clock, Stamps(Evidenced)[q])
          /\ GoodVersion(disk[q], clock, Memoised[q])
      BY <3>2, MergedIsGood, Zenon
    <3> QED
      BY <3>1, <3>2, <3>3, Zenon DEF VersionsInv
  <2>3. ASSUME (\E p \in Paths : Walk(p)) \/ (\E p \in Paths : Read(p)) \/ (\E p \in Paths :
               PassScans(p)) \/ EndPass \/ StartupYields
        PROVE  IndexVersions'
    <3>1. UNCHANGED <<clock, disk, evidence, memo, overlay, reader, saved>>
      BY <2>3, Zenon DEF Walk, Read, PassScans, EndPass, StartupYields, file, index
    <3> QED
      BY <1>0, <3>1
  <2> QED
    BY <1>8, <2>1, <2>2, <2>3 DEF Passing
<1>9. CASE Building
  <2>1. ASSUME BuildPublish PROVE IndexVersions'
    <3> USE DEF IndexVersions
    <3> TAKE q \in Paths
    <3>1. disk' = disk /\ clock' = clock /\ memo' = memo
      BY <2>1, BuildPublishDoes, Zenon
    <3>2. /\ reader' = Built /\ overlay' = [r \in Paths |-> None]
          /\ evidence' = KnownOf(Withheld) /\ saved' = Stamps(KnownOf({}))
      BY <2>1, Zenon DEF BuildPublish
    <3>3. overlay'[q] \in {overlay[q], None}
      BY <3>2, Zenon
    <3>4. /\ GoodCopy(disk[q], clock, Built[q])
          /\ GoodEvidence(disk[q], clock, KnownOf(Withheld)[q])
          /\ GoodVersion(disk[q], clock, Stamps(KnownOf({}))[q])
      BY WithheldPaths, BuiltIsGood, Zenon
    <3> QED
      BY <3>1, <3>2, <3>3, <3>4, NothingIsGood, Zenon DEF VersionsInv
  <2>2. ASSUME (\E p \in Paths : BuildRead(p)) \/ BuildFails \/ BuildEnds
        PROVE  IndexVersions'
    <3>1. UNCHANGED <<clock, disk, evidence, memo, overlay, reader, saved>>
      BY <2>2, Zenon DEF BuildRead, BuildFails, BuildEnds, file, index
    <3> QED
      BY <1>0, <3>1
  <2> QED
    BY <1>9, <2>1, <2>2 DEF Building
<1>10. CASE Reloading
  <2>1. ASSUME ReloadPublish PROVE IndexVersions'
    <3> USE DEF IndexVersions
    <3> TAKE q \in Paths
    <3>1. disk' = disk /\ clock' = clock /\ memo' = memo
      BY <2>1, ReloadPublishDoes, Zenon
    <3>2. /\ reader' = Built /\ overlay' = [r \in Paths |-> None]
          /\ evidence' = KnownOf(Withheld) /\ saved' = Stamps(KnownOf(Withheld))
      BY <2>1, Zenon DEF ReloadPublish
    <3>3. overlay'[q] \in {overlay[q], None}
      BY <3>2, Zenon
    <3>4. /\ GoodCopy(disk[q], clock, Built[q])
          /\ GoodEvidence(disk[q], clock, KnownOf(Withheld)[q])
          /\ GoodVersion(disk[q], clock, Stamps(KnownOf(Withheld))[q])
      BY WithheldPaths, BuiltIsGood, Zenon
    <3> QED
      BY <3>1, <3>2, <3>3, <3>4, NothingIsGood, Zenon DEF VersionsInv
  <2>2. ASSUME ReloadFails \/ ReloadReplays \/ ReloadRests
        PROVE  IndexVersions'
    <3>1. UNCHANGED <<clock, disk, evidence, memo, overlay, reader, saved>>
      BY <2>2, Zenon DEF ReloadFails, ReloadReplays, ReloadRests, file, index
    <3> QED
      BY <1>0, <3>1
  <2> QED
    BY <1>10, <2>1, <2>2 DEF Reloading
<1>11. CASE Searching
  <2>1. ASSUME Load \/ ReadFile \/ UpdateCache
        PROVE  IndexVersions'
    <3>1. UNCHANGED <<clock, disk, evidence, memo, overlay, reader, saved>>
      BY <2>1, Zenon DEF Load, SearchFrame, ReadFile, UpdateCache, file, index
    <3> QED
      BY <1>0, <3>1
  <2> QED
    BY <1>11, <2>1 DEF Searching
<1> QED
  BY <1>1, <1>2, <1>3, <1>4, <1>5, <1>6, <1>7, <1>8, <1>9, <1>10, <1>11 DEF Next, Progress

\* Nothing anybody holds is newer than the file it came from.
LEMMA VersionsStep == TypeOK /\ ThreadsOK /\ ControlInv /\ VersionsInv /\ IndexInv /\ ReadInv /\ [Next]_vars => VersionsInv'
BY IndexVersionsStep, HandVersionsStep, PassVersionsStep, BuildVersionsStep, Zenon DEF
   VersionsInv

-----------------------------------------------------------------------------
(* The index and what is known of it. *)

\* Nothing is dropped, nor is anything looked at, while a pass reads.
LEMMA PassIsAlone ==
  ASSUME ControlInv, pass.at \in {"walk", "read"}
  PROVE  /\ \A a \in Actors : act[a].at \notin Touching
         /\ ~GateFree /\ build.by # "reload" /\ recovery # "scan"
<1>1. pass.by # "none" /\ pass.by # "reload" /\ act["scan"].at = "idle"
  BY SMT DEF ControlInv, GateInv
<1>2. ASSUME NEW a \in Actors, act[a].at \in Touching PROVE FALSE
  <2>1. a = "scan"
    BY <1>1, <1>2, SMT DEF ControlInv, GateInv
  <2> QED
    BY <1>1, <1>2, <2>1, SMT DEF Touching
<1>3. ~GateFree
  BY <1>1, Zenon DEF GateFree
<1>4. build.by # "reload"
  BY <1>1, Zenon DEF ControlInv, BuildInv
<1>5. recovery # "scan"
  BY <1>1, Zenon DEF ControlInv, GateInv
<1> QED
  BY <1>2, <1>3, <1>4, <1>5, Zenon

\* Nor while a build or a reload is published.
LEMMA BuildIsAlone ==
  ASSUME ControlInv, Checkpoint \/ BuildPublish \/ ReloadPublish, NEW a \in Actors
  PROVE  act[a].at # "drop"
<1>1. CASE GateFree
  BY <1>1, Zenon DEF GateFree
<1>2. CASE build.by = "reload"
  <2>1. pass.by = "reload"
    BY <1>2, Zenon DEF ControlInv, BuildInv
  <2>2. pass.at = "none"
    BY <2>1, SMT DEF ControlInv, GateInv
  <2>3. act[a].at \in Touching => a = "scan"
    BY <2>1, SMT DEF ControlInv, GateInv
  <2>4. act["scan"].at = "idle"
    BY <2>2, SMT DEF ControlInv, GateInv
  <2> QED
    BY <2>3, <2>4, SMT DEF Touching
<1> QED
  BY <1>1, <1>2, Zenon DEF Checkpoint, BuildPublish, ReloadPublish

\* A version known before a file changes is not the version it changes to.
LEMMA ChangeIsNews ==
  ASSUME TypeOK, ThreadsOK, VersionsInv, NEW p \in Paths, NEW q \in Paths,
         Remove(p) \/ \E d \in Contents : Write(p, d)
  PROVE  \A v : GoodVersion(disk[q], clock, v) /\ v \in Versions /\ v # VersionOn(q)
                  => v # VersionOn(q)'
<1>1. CASE q = p
  <2>1. ASSUME NEW v \in Versions, GoodVersion(disk[q], clock, v) PROVE v # VersionOn(q)'
    <3>1. v <= clock /\ v \in Int /\ clock \in Int /\ v # None
      BY <2>1, Sentinels, Zenon DEF GoodVersion, TypeOK
    <3>2. disk'[q] \in Copies => disk'[q].ver = clock + 1
      BY <1>1, FileChanges, Sentinels, Zenon
    <3>3. VersionOn(q)' = None \/ VersionOn(q)' = clock + 1
      BY <3>2, Zenon DEF VersionOn
    <3> QED
      BY <3>1, <3>3, SMT
  <2> QED
    BY <2>1, Zenon
<1>2. CASE q # p
  <2>1. disk'[q] = disk[q]
    BY <1>2, FileChanges, Zenon
  <2> QED
    BY <2>1, Zenon DEF VersionOn
<1> QED
  BY <1>1, <1>2

\* A thread drops what it found absent, and that is no version known since.
LEMMA GoneInvStep ==
  TypeOK /\ ThreadsOK /\ ControlInv /\ VersionsInv /\ IndexInv /\ ReadInv /\ [Next]_vars => GoneInv'
<1> SUFFICES ASSUME TypeOK, ThreadsOK, ControlInv, VersionsInv, IndexInv, ReadInv, [Next]_vars
             PROVE  GoneInv'
  OBVIOUS
<1>0. ASSUME UNCHANGED <<act, disk, saved>> PROVE GoneInv'
  BY <1>0, Zenon DEF IndexInv, GoneInv, VersionOn
<1>1. CASE UNCHANGED vars
  <2>1. UNCHANGED <<act, disk, saved>>
    BY <1>1 DEF vars, file, index
  <2> QED
    BY <1>0, <2>1
<1>2. CASE Environment
  <2>1. ASSUME NEW p \in Paths, NEW d \in Contents, Write(p, d) PROVE GoneInv'
    <3> USE DEF GoneInv
    <3> TAKE q \in Paths
    <3> TAKE b \in Actors
    <3>1. act' = act /\ saved' = saved
      BY <2>1, FileChanges, Zenon
    <3>2. GoodVersion(disk[q], clock, saved[q])
      BY Zenon DEF VersionsInv, IndexVersions
    <3>3. saved[q] \in Versions /\ saved[q] # VersionOn(q) => saved[q] # VersionOn(q)'
      BY <2>1, <3>2, ChangeIsNews, Zenon
    <3> QED
      BY <3>1, <3>3, Zenon DEF IndexInv
  <2>2. ASSUME NEW p \in Paths, Remove(p) PROVE GoneInv'
    <3> USE DEF GoneInv
    <3> TAKE q \in Paths
    <3> TAKE b \in Actors
    <3>1. act' = act /\ saved' = saved
      BY <2>2, FileChanges, Zenon
    <3>2. GoodVersion(disk[q], clock, saved[q])
      BY Zenon DEF VersionsInv, IndexVersions
    <3>3. saved[q] \in Versions /\ saved[q] # VersionOn(q) => saved[q] # VersionOn(q)'
      BY <2>2, <3>2, ChangeIsNews, Zenon
    <3> QED
      BY <3>1, <3>3, Zenon DEF IndexInv
  <2>3. ASSUME RulesEvent \/ TurnToPolling \/ BeginReload \/ PeriodicPass \/ BeginSave \/
               (\E p \in Paths : Admit(p))
        PROVE  GoneInv'
    <3>1. UNCHANGED <<act, disk, saved>>
      BY <2>3, Zenon DEF RulesEvent, TurnToPolling, BeginReload, PeriodicPass, BeginPass,
         BeginSave, Admit,
          SearchFrame, file, index
    <3> QED
      BY <1>0, <3>1
  <2> QED
    BY <1>2, <2>1, <2>2, <2>3 DEF Environment
<1>3. CASE Checkpoint
  <2>1. act' = act
    BY <1>3, CheckpointDoes, Zenon
  <2> QED
    BY <1>3, <2>1, BuildIsAlone, Zenon DEF GoneInv
<1>4. CASE Events
  <2>1. ASSUME NEW p \in Paths, TakeEvent(p) PROVE GoneInv'
    <3> USE DEF GoneInv
    <3> TAKE q \in Paths
    <3> TAKE b \in Actors
    <3>1. disk' = disk /\ saved' = saved
      BY <2>1, TakeEventDoes, Zenon
    <3>2. CASE b = "watcher"
      <4>1. act'[b].at # "drop" \/ act'[b] = act[b]
        BY <2>1, <3>2, TakeEventDoes, Zenon
      <4> QED
        BY <3>1, <4>1, Zenon DEF VersionOn, IndexInv
    <3>3. CASE b # "watcher"
      <4>1. act'[b] = act[b]
        BY <2>1, <3>3, TakeEventDoes, Zenon
      <4> QED
        BY <3>1, <4>1, Zenon DEF VersionOn, IndexInv
    <3> QED
      BY <3>2, <3>3
  <2>2. ASSUME NEW p \in Paths, ReplayEvent(p) PROVE GoneInv'
    <3> USE DEF GoneInv
    <3> TAKE q \in Paths
    <3> TAKE b \in Actors
    <3>1. disk' = disk /\ saved' = saved
      BY <2>2, ReplayEventDoes, Zenon
    <3>2. CASE b = "replay"
      <4>1. act'[b].at # "drop" \/ act'[b] = act[b]
        BY <2>2, <3>2, ReplayEventDoes, Zenon
      <4> QED
        BY <3>1, <4>1, Zenon DEF VersionOn, IndexInv
    <3>3. CASE b # "replay"
      <4>1. act'[b] = act[b]
        BY <2>2, <3>3, ReplayEventDoes, Zenon
      <4> QED
        BY <3>1, <4>1, Zenon DEF VersionOn, IndexInv
    <3> QED
      BY <3>2, <3>3
  <2>3. ASSUME NEW a \in Actors, Defer(a) PROVE GoneInv'
    <3> USE DEF GoneInv
    <3> TAKE q \in Paths
    <3> TAKE b \in Actors
    <3>1. disk' = disk /\ saved' = saved
      BY <2>3, DeferDoes, Zenon
    <3>2. CASE b = a
      <4>1. act'[b].at # "drop" \/ act'[b] = act[b]
        BY <2>3, <3>2, DeferDoes, Zenon
      <4> QED
        BY <3>1, <4>1, Zenon DEF VersionOn, IndexInv
    <3>3. CASE b # a
      <4>1. act'[b] = act[b]
        BY <2>3, <3>3, DeferDoes, Zenon
      <4> QED
        BY <3>1, <4>1, Zenon DEF VersionOn, IndexInv
    <3> QED
      BY <3>2, <3>3
  <2>4. ASSUME NEW a \in Actors, Enter(a) PROVE GoneInv'
    <3> USE DEF GoneInv
    <3> TAKE q \in Paths
    <3> TAKE b \in Actors
    <3>1. disk' = disk /\ saved' = saved
      BY <2>4, EnterDoes, Zenon
    <3>2. CASE b = a
      <4>1. act'[b].at = "drop" => act'[b].path = act[b].path /\ disk[act[b].path] = None
        BY <2>4, <3>2, EnterDoes, Zenon
      <4>2. act'[b].at = "drop" /\ act'[b].path = q => disk'[q] = None
        BY <3>1, <4>1, Zenon
      <4>3. act'[b].at = "drop" /\ act'[b].path = q => VersionOn(q)' = None
        BY <4>2, Sentinels, Zenon DEF VersionOn
      <4> QED
        BY <4>3, Sentinels, Zenon
    <3>3. CASE b # a
      <4>1. act'[b] = act[b]
        BY <2>4, <3>3, EnterDoes, Zenon
      <4> QED
        BY <3>1, <4>1, Zenon DEF VersionOn, IndexInv
    <3> QED
      BY <3>2, <3>3
  <2>5. ASSUME NEW a \in Actors, DropGone(a) PROVE GoneInv'
    <3> USE DEF GoneInv
    <3> TAKE q \in Paths
    <3> TAKE b \in Actors
    <3>1. disk' = disk /\ saved' = saved
      BY <2>5, DropGoneDoes, Zenon
    <3>2. CASE b = a
      <4>1. act'[b].at # "drop" \/ act'[b] = act[b]
        BY <2>5, <3>2, DropGoneDoes, Zenon
      <4> QED
        BY <3>1, <4>1, Zenon DEF VersionOn, IndexInv
    <3>3. CASE b # a
      <4>1. act'[b] = act[b]
        BY <2>5, <3>3, DropGoneDoes, Zenon
      <4> QED
        BY <3>1, <4>1, Zenon DEF VersionOn, IndexInv
    <3> QED
      BY <3>2, <3>3
  <2>6. ASSUME NEW a \in Actors, Open(a) PROVE GoneInv'
    <3> USE DEF GoneInv
    <3> TAKE q \in Paths
    <3> TAKE b \in Actors
    <3>1. disk' = disk /\ saved' = saved
      BY <2>6, OpenDoes, Zenon
    <3>2. CASE b = a
      <4>1. act'[b].at # "drop" \/ act'[b] = act[b]
        BY <2>6, <3>2, OpenDoes, Zenon
      <4> QED
        BY <3>1, <4>1, Zenon DEF VersionOn, IndexInv
    <3>3. CASE b # a
      <4>1. act'[b] = act[b]
        BY <2>6, <3>3, OpenDoes, Zenon
      <4> QED
        BY <3>1, <4>1, Zenon DEF VersionOn, IndexInv
    <3> QED
      BY <3>2, <3>3
  <2>7. ASSUME NEW a \in Actors, Verify(a) PROVE GoneInv'
    <3> USE DEF GoneInv
    <3> TAKE q \in Paths
    <3> TAKE b \in Actors
    <3>1. disk' = disk /\ saved' = saved
      BY <2>7, VerifyDoes, Zenon
    <3>2. CASE b = a
      <4>1. act'[b].at # "drop" \/ act'[b] = act[b]
        BY <2>7, <3>2, VerifyDoes, Zenon
      <4> QED
        BY <3>1, <4>1, Zenon DEF VersionOn, IndexInv
    <3>3. CASE b # a
      <4>1. act'[b] = act[b]
        BY <2>7, <3>3, VerifyDoes, Zenon
      <4> QED
        BY <3>1, <4>1, Zenon DEF VersionOn, IndexInv
    <3> QED
      BY <3>2, <3>3
  <2> QED
    BY <1>4, <2>1, <2>2, <2>3, <2>4, <2>5, <2>6, <2>7 DEF Events
<1>5. CASE Recovering
  <2>1. ASSUME NEW p \in Paths, ScanOne(p) PROVE GoneInv'
    <3> USE DEF GoneInv
    <3> TAKE q \in Paths
    <3> TAKE b \in Actors
    <3>1. disk' = disk /\ saved' = saved
      BY <2>1, ScanOneDoes, Zenon
    <3>2. CASE b = "replay"
      <4>1. act'[b].at # "drop" \/ act'[b] = act[b]
        BY <2>1, <3>2, ScanOneDoes, Zenon
      <4> QED
        BY <3>1, <4>1, Zenon DEF VersionOn, IndexInv
    <3>3. CASE b # "replay"
      <4>1. act'[b] = act[b]
        BY <2>1, <3>3, ScanOneDoes, Zenon
      <4> QED
        BY <3>1, <4>1, Zenon DEF VersionOn, IndexInv
    <3> QED
      BY <3>2, <3>3
  <2>2. ASSUME RecoveryReplays \/ RecoveryScans \/ RecoveryEnds
        PROVE  GoneInv'
    <3>1. UNCHANGED <<act, disk, saved>>
      BY <2>2, Zenon DEF RecoveryReplays, RecoveryScans, RecoveryEnds, file, index
    <3> QED
      BY <1>0, <3>1
  <2> QED
    BY <1>5, <2>1, <2>2 DEF Recovering
<1>6. CASE Ignoring
  <2>1. ASSUME IgnoreChecks \/ IgnoreWaits \/ IgnoreClears \/ IgnoreRechecks
        PROVE  GoneInv'
    <3>1. UNCHANGED <<act, disk, saved>>
      BY <2>1, Zenon DEF IgnoreChecks, IgnoreWaits, IgnoreClears, IgnoreRechecks, file,
         index
    <3> QED
      BY <1>0, <3>1
  <2> QED
    BY <1>6, <2>1 DEF Ignoring
<1>7. CASE Begins
  <2>1. ASSUME StartupPass \/ IgnorePass \/ OverflowPass \/ DeferredPass \/ BuildPass \/
               ReloadPass
        PROVE  GoneInv'
    <3>1. UNCHANGED <<act, disk, saved>>
      BY <2>1, Zenon DEF StartupPass, BeginPass, IgnorePass, OverflowPass, DeferredPass,
         BuildPass,
          ReloadPass, file, index
    <3> QED
      BY <1>0, <3>1
  <2> QED
    BY <1>7, <2>1 DEF Begins
<1>8. CASE Passing
  <2>1. ASSUME NEW p \in Paths, PassScans(p) PROVE GoneInv'
    <3> USE DEF GoneInv
    <3> TAKE q \in Paths
    <3> TAKE b \in Actors
    <3>1. disk' = disk /\ saved' = saved
      BY <2>1, PassScansDoes, Zenon
    <3>2. CASE b = "scan"
      <4>1. act'[b].at # "drop" \/ act'[b] = act[b]
        BY <2>1, <3>2, PassScansDoes, Zenon
      <4> QED
        BY <3>1, <4>1, Zenon DEF VersionOn, IndexInv
    <3>3. CASE b # "scan"
      <4>1. act'[b] = act[b]
        BY <2>1, <3>3, PassScansDoes, Zenon
      <4> QED
        BY <3>1, <4>1, Zenon DEF VersionOn, IndexInv
    <3> QED
      BY <3>2, <3>3
  <2>2. ASSUME Publish PROVE GoneInv'
    <3>1. act' = act /\ pass.at = "read"
      BY <2>2, PublishDoes, PassMoves, Zenon
    <3> QED
      BY <3>1, PassIsAlone, Zenon DEF GoneInv, Touching
  <2>3. ASSUME (\E p \in Paths : Walk(p)) \/ (\E p \in Paths : Read(p)) \/ Classify \/
               EndPass \/ StartupYields
        PROVE  GoneInv'
    <3>1. UNCHANGED <<act, disk, saved>>
      BY <2>3, Zenon DEF Walk, Read, Classify, EndPass, StartupYields, file, index
    <3> QED
      BY <1>0, <3>1
  <2> QED
    BY <1>8, <2>1, <2>2, <2>3 DEF Passing
<1>9. CASE Building
  <2>1. ASSUME BuildPublish PROVE GoneInv'
    <3>1. act' = act
      BY <2>1, BuildPublishDoes, Zenon
    <3> QED
      BY <2>1, <3>1, BuildIsAlone, Zenon DEF GoneInv
  <2>2. ASSUME (\E p \in Paths : BuildRead(p)) \/ BuildFails \/ BuildEnds
        PROVE  GoneInv'
    <3>1. UNCHANGED <<act, disk, saved>>
      BY <2>2, Zenon DEF BuildRead, BuildFails, BuildEnds, file, index
    <3> QED
      BY <1>0, <3>1
  <2> QED
    BY <1>9, <2>1, <2>2 DEF Building
<1>10. CASE Reloading
  <2>1. ASSUME ReloadPublish PROVE GoneInv'
    <3>1. act' = act
      BY <2>1, ReloadPublishDoes, Zenon
    <3> QED
      BY <2>1, <3>1, BuildIsAlone, Zenon DEF GoneInv
  <2>2. ASSUME ReloadFails \/ ReloadReplays \/ ReloadRests
        PROVE  GoneInv'
    <3>1. UNCHANGED <<act, disk, saved>>
      BY <2>2, Zenon DEF ReloadFails, ReloadReplays, ReloadRests, file, index
    <3> QED
      BY <1>0, <3>1
  <2> QED
    BY <1>10, <2>1, <2>2 DEF Reloading
<1>11. CASE Searching
  <2>1. ASSUME Load \/ ReadFile \/ UpdateCache
        PROVE  GoneInv'
    <3>1. UNCHANGED <<act, disk, saved>>
      BY <2>1, Zenon DEF Load, SearchFrame, ReadFile, UpdateCache, file, index
    <3> QED
      BY <1>0, <3>1
  <2> QED
    BY <1>11, <2>1 DEF Searching
<1> QED
  BY <1>1, <1>2, <1>3, <1>4, <1>5, <1>6, <1>7, <1>8, <1>9, <1>10, <1>11 DEF Next, Progress

\* What a look leaves of a file is known for what it is.
LEMMA LookIsKnown ==
  ASSUME TypeOK, ThreadsOK, IndexInv, NEW a \in Actors, Open(a) \/ Verify(a) \/ DropGone(a),
         NEW q \in Paths
  PROVE  /\ evidence'[q].data # None => Visible(q)' # None /\ Visible(q)'.data = evidence'[q].data
         /\ evidence'[q].ver = None /\ saved'[q] \in Versions =>
             \/ overlay'[q] = Tombstone
             \/ /\ overlay'[q] = None /\ reader'[q] \in Copies
                /\ reader'[q].ver = saved'[q] /\ reader'[q].data = evidence'[q].data
         /\ overlay'[q] = Tombstone /\ saved'[q] \in Versions => saved'[q] # VersionOn(q)'
<1>1. UNCHANGED <<disk, clock, reader, saved, memo>>
  BY LooksAt, Zenon
<1>2. CASE overlay'[q] = overlay[q] /\ evidence'[q] = evidence[q]
  BY <1>1, <1>2, Zenon DEF IndexInv, KnownInv, Visible, VersionOn
<1>3. CASE /\ q = act[a].path
           /\ \/ overlay'[q] = Tombstone
              \/ overlay'[q] = overlay[q] /\ evidence[q].ver = None
           /\ evidence'[q] = NoStamp
           /\ Visible(q)' = None /\ (DropGone(a) \/ disk[q] = None)
  <2>1. evidence'[q].data = None
    BY <1>3, SMT DEF NoStamp
  <2>2. saved[q] \in Versions => saved[q] # VersionOn(q)
    <3>1. CASE DropGone(a)
      BY <1>3, <3>1, DropGoneDoes, Zenon DEF IndexInv, GoneInv
    <3>2. CASE disk[q] = None
      BY <3>2, Sentinels, Zenon DEF VersionOn
    <3> QED
      BY <1>3, <3>1, <3>2
  <2>3. VersionOn(q)' = VersionOn(q)
    BY <1>1, Zenon DEF VersionOn
  <2>4. saved[q] \in Versions => overlay'[q] = Tombstone
    <3>1. CASE saved[q] \in Versions /\ overlay'[q] = overlay[q] /\ evidence[q].ver = None
      <4>1. \/ overlay[q] = Tombstone
            \/ overlay[q] = None /\ reader[q] \in Copies
        BY <3>1, Zenon DEF IndexInv, KnownInv
      <4>2. ~(overlay'[q] = None /\ reader'[q] \in Copies)
        BY <1>3, Sentinels, Zenon DEF Visible
      <4> QED
        BY <1>1, <3>1, <4>1, <4>2, Zenon
    <3> QED
      BY <1>3, <3>1, Zenon
  <2> QED
    BY <1>1, <2>1, <2>2, <2>3, <2>4, Zenon
<1>4. CASE /\ overlay'[q] = overlay[q]
           /\ evidence'[q] = [ver |-> Unknown, data |-> None]
  <2>1. evidence'[q].data = None /\ evidence'[q].ver # None
    BY <1>4, Sentinels, SMT
  <2> QED
    BY <1>1, <1>4, <2>1, Zenon DEF IndexInv, KnownInv, VersionOn
<1>5. CASE /\ act[a].at = "verify" /\ act[a].copy \in Copies
           /\ VersionOn(q) = act[a].copy.ver
           /\ \/ overlay'[q] = act[a].copy
              \/ /\ overlay'[q] = overlay[q] /\ overlay[q] \in Copies
                 /\ overlay[q].data = act[a].copy.data
              \/ /\ overlay'[q] = overlay[q] /\ overlay[q] = None
                 /\ reader[q] # None /\ evidence[q].data = act[a].copy.data
           /\ evidence'[q] = [ver |-> act[a].copy.ver, data |-> act[a].copy.data]
  <2>1. /\ evidence'[q].data = act[a].copy.data /\ evidence'[q].ver = act[a].copy.ver
        /\ evidence'[q].ver \in Versions /\ act[a].copy.data \in Contents
    BY <1>5, Sentinels, SMT
  <2>2. overlay'[q] # Tombstone /\ evidence'[q].ver # None
    BY <1>5, <2>1, Sentinels, Zenon
  <2>3. Visible(q)' # None /\ Visible(q)'.data = act[a].copy.data
    <3>1. CASE overlay'[q] \in Copies /\ overlay'[q].data = act[a].copy.data
      BY <3>1, Sentinels, Zenon DEF Visible
    <3>2. CASE /\ overlay'[q] = overlay[q] /\ overlay[q] = None
               /\ reader[q] # None /\ evidence[q].data = act[a].copy.data
      <4>1. evidence[q].data # None
        BY <2>1, <3>2, Sentinels, Zenon
      <4>2. reader[q].data = evidence[q].data
        BY <3>2, <4>1, Zenon DEF IndexInv, KnownInv, Visible
      <4> QED
        BY <1>1, <3>2, <4>2, Zenon DEF Visible
    <3> QED
      BY <1>5, <3>1, <3>2
  <2> QED
    BY <2>1, <2>2, <2>3, Zenon
<1> QED
  BY <1>2, <1>3, <1>4, <1>5, LooksAt, Zenon

\* What a merge leaves.
LEMMA MergeIsKnown ==
  ASSUME TypeOK, ThreadsOK, IndexInv, ReadInv, pass.at = "read", NEW q \in Paths,
         reader' = Merged, overlay' = Pruned, evidence' = Evidenced, saved' = Stamps(Evidenced)
  PROVE  /\ evidence'[q].data # None => Visible(q)' # None /\ Visible(q)'.data = evidence'[q].data
         /\ evidence'[q].ver = None /\ saved'[q] \in Versions =>
             \/ overlay'[q] = Tombstone
             \/ /\ overlay'[q] = None /\ reader'[q] \in Copies
                /\ reader'[q].ver = saved'[q] /\ reader'[q].data = evidence'[q].data
         /\ overlay'[q] = Tombstone /\ saved'[q] \in Versions => saved'[q] # VersionOn(q)'
<1>1. saved'[q] = evidence'[q].ver
  BY MergedAt, Zenon
<1>2. evidence'[q].ver = None /\ saved'[q] \in Versions => FALSE
  BY <1>1, Sentinels, Zenon
<1>3. CASE evidence'[q] = NoStamp
  <2>1. evidence'[q].data = None /\ evidence'[q].ver = None
    BY <1>3, SMT DEF NoStamp
  <2> QED
    BY <1>1, <2>1, Sentinels, Zenon
<1>4. CASE q \in Done /\ pass.got[q] \in Copies
  <2>1. /\ reader'[q] = pass.got[q] /\ overlay'[q] = None
        /\ evidence'[q] = [ver |-> pass.got[q].ver, data |-> pass.got[q].data]
    BY <1>4, MergedAt, Sentinels, Zenon
  <2>2. evidence'[q].data = pass.got[q].data
    BY <2>1, SMT
  <2>3. Visible(q)' = pass.got[q]
    BY <2>1, Zenon DEF Visible
  <2> QED
    BY <1>2, <1>4, <2>1, <2>2, <2>3, Sentinels, Zenon
<1>5. CASE q \notin Done /\ q \notin pass.cand \cup pass.skip /\ evidence'[q].data = evidence[q].data
  <2>1. overlay[q] = None
    BY <1>5, Zenon DEF ReadInv
  <2>2. overlay'[q] = None /\ reader'[q] = reader[q]
    BY <1>5, <2>1, MergedAt, Zenon
  <2>3. Visible(q)' = Visible(q)
    BY <2>1, <2>2, Zenon DEF Visible
  <2> QED
    BY <1>2, <1>5, <2>2, <2>3, Sentinels, Zenon DEF IndexInv, KnownInv
<1>6. q \notin Done => \/ evidence'[q] = NoStamp
                       \/ q \notin pass.cand \cup pass.skip /\ evidence'[q].data = evidence[q].data
  <2>1. [ver |-> Old(q), data |-> evidence[q].data].data = evidence[q].data
    OBVIOUS
  <2> QED
    BY <2>1, MergedAt, Zenon
<1>7. q \in Done => evidence'[q] = NoStamp \/ pass.got[q] \in Copies
  BY MergedAt, Zenon
<1> QED
  BY <1>3, <1>4, <1>5, <1>6, <1>7

\* What a build leaves.
LEMMA BuildIsKnown ==
  ASSUME TypeOK, ThreadsOK, NEW q \in Paths, NEW S \in SUBSET Paths, NEW T \in SUBSET Paths,
         reader' = Built, overlay'[q] = None, evidence' = KnownOf(S), saved' = Stamps(KnownOf(T))
  PROVE  /\ evidence'[q].data # None => Visible(q)' # None /\ Visible(q)'.data = evidence'[q].data
         /\ evidence'[q].ver = None /\ saved'[q] \in Versions =>
             \/ overlay'[q] = Tombstone
             \/ /\ overlay'[q] = None /\ reader'[q] \in Copies
                /\ reader'[q].ver = saved'[q] /\ reader'[q].data = evidence'[q].data
         /\ overlay'[q] = Tombstone /\ saved'[q] \in Versions => saved'[q] # VersionOn(q)'
<1>1. Visible(q)' = Built[q] /\ overlay'[q] # Tombstone
  BY Sentinels, Zenon DEF Visible
<1>2. CASE Built[q] = None
  <2>3. KnownOf(T)[q] = NoStamp /\ saved'[q] = KnownOf(T)[q].ver
    BY <1>2, BuiltAt, Zenon
  <2>1. evidence'[q] = NoStamp /\ saved'[q] = NoStamp.ver
    BY <1>2, <2>3, BuiltAt, Zenon
  <2>2. NoStamp.ver = None /\ NoStamp.data = None
    BY SMT DEF NoStamp
  <2> QED
    BY <1>1, <2>1, <2>2, Sentinels, Zenon
<1>3. CASE Built[q] \in Copies
  <2>0. Built[q] # None
    BY <1>3, Sentinels, Zenon
  <2>1. evidence'[q] = [ver |-> IF q \in S \cup build.raced THEN None ELSE Built[q].ver,
                        data |-> Built[q].data]
    BY <2>0, BuiltAt, Zenon
  <2>3. saved'[q] = KnownOf(T)[q].ver
    BY BuiltAt, Zenon
  <2>4. KnownOf(T)[q] = [ver |-> IF q \in T \cup build.raced THEN None ELSE Built[q].ver,
                         data |-> Built[q].data]
    BY <2>0, BuiltAt, Zenon
  <2>2. /\ evidence'[q].data = Built[q].data
        /\ saved'[q] = None \/ saved'[q] = Built[q].ver
    BY <2>1, <2>3, <2>4, SMT
  <2> QED
    BY <1>1, <1>3, <2>2, Sentinels, Zenon
<1> QED
  BY <1>2, <1>3, BuiltAt, Zenon

\* What is known of a file is true of what is indexed.
LEMMA KnownInvStep ==
  TypeOK /\ ThreadsOK /\ ControlInv /\ VersionsInv /\ IndexInv /\ ReadInv /\ [Next]_vars => KnownInv'
<1> SUFFICES ASSUME TypeOK, ThreadsOK, ControlInv, VersionsInv, IndexInv, ReadInv, [Next]_vars
             PROVE  KnownInv'
  OBVIOUS
<1>0. ASSUME UNCHANGED <<disk, evidence, overlay, reader, saved>> PROVE KnownInv'
  BY <1>0, Zenon DEF IndexInv, KnownInv, Visible, VersionOn
<1>1. CASE UNCHANGED vars
  <2>1. UNCHANGED <<disk, evidence, overlay, reader, saved>>
    BY <1>1 DEF vars, file, index
  <2> QED
    BY <1>0, <2>1
<1>2. CASE Environment
  <2>1. ASSUME NEW p \in Paths, NEW d \in Contents, Write(p, d) PROVE KnownInv'
    <3> USE DEF KnownInv
    <3> TAKE q \in Paths
    <3>1. UNCHANGED <<reader, overlay, evidence, saved>>
      BY <2>1, FileChanges, Zenon
    <3>2. GoodVersion(disk[q], clock, saved[q])
      BY Zenon DEF VersionsInv, IndexVersions
    <3>3. saved[q] \in Versions /\ saved[q] # VersionOn(q) => saved[q] # VersionOn(q)'
      BY <2>1, <3>2, ChangeIsNews, Zenon
    <3> QED
      BY <3>1, <3>3, Zenon DEF IndexInv, Visible
  <2>2. ASSUME NEW p \in Paths, Remove(p) PROVE KnownInv'
    <3> USE DEF KnownInv
    <3> TAKE q \in Paths
    <3>1. UNCHANGED <<reader, overlay, evidence, saved>>
      BY <2>2, FileChanges, Zenon
    <3>2. GoodVersion(disk[q], clock, saved[q])
      BY Zenon DEF VersionsInv, IndexVersions
    <3>3. saved[q] \in Versions /\ saved[q] # VersionOn(q) => saved[q] # VersionOn(q)'
      BY <2>2, <3>2, ChangeIsNews, Zenon
    <3> QED
      BY <3>1, <3>3, Zenon DEF IndexInv, Visible
  <2>3. ASSUME RulesEvent \/ TurnToPolling \/ BeginReload \/ PeriodicPass \/ BeginSave \/
               (\E p \in Paths : Admit(p))
        PROVE  KnownInv'
    <3>1. UNCHANGED <<disk, evidence, overlay, reader, saved>>
      BY <2>3, Zenon DEF RulesEvent, TurnToPolling, BeginReload, PeriodicPass, BeginPass,
         BeginSave, Admit,
          SearchFrame, file, index
    <3> QED
      BY <1>0, <3>1
  <2> QED
    BY <1>2, <2>1, <2>2, <2>3 DEF Environment
<1>3. CASE Checkpoint
  <2> USE DEF KnownInv
  <2> TAKE q \in Paths
  <2>1. /\ reader' = Built /\ overlay' = overlay
        /\ evidence' = KnownOf({}) /\ saved' = Stamps(KnownOf({}))
    BY <1>3, Zenon DEF Checkpoint
  <2>2. overlay'[q] = None
    BY <1>3, <2>1, CheckpointDoes, Zenon DEF ControlInv, BuildInv, PendingInv
  <2> QED
    BY <2>1, <2>2, WithheldPaths, BuildIsKnown, Zenon
<1>4. CASE Events
  <2>1. ASSUME NEW a \in Actors, DropGone(a) PROVE KnownInv'
    <3> USE DEF KnownInv
    <3> TAKE q \in Paths
    <3>1. UNCHANGED <<disk, clock, reader, saved, memo>>
      BY <2>1, LooksAt, Zenon
    <3> QED
      BY <2>1, <3>1, LookIsKnown, Zenon
  <2>2. ASSUME NEW a \in Actors, Open(a) PROVE KnownInv'
    <3> USE DEF KnownInv
    <3> TAKE q \in Paths
    <3>1. UNCHANGED <<disk, clock, reader, saved, memo>>
      BY <2>2, LooksAt, Zenon
    <3> QED
      BY <2>2, <3>1, LookIsKnown, Zenon
  <2>3. ASSUME NEW a \in Actors, Verify(a) PROVE KnownInv'
    <3> USE DEF KnownInv
    <3> TAKE q \in Paths
    <3>1. UNCHANGED <<disk, clock, reader, saved, memo>>
      BY <2>3, LooksAt, Zenon
    <3> QED
      BY <2>3, <3>1, LookIsKnown, Zenon
  <2>4. ASSUME (\E p \in Paths : TakeEvent(p)) \/ (\E p \in Paths : ReplayEvent(p)) \/ (\E a
               \in Actors : Defer(a)) \/ (\E a \in Actors : Enter(a))
        PROVE  KnownInv'
    <3>1. UNCHANGED <<disk, evidence, overlay, reader, saved>>
      BY <2>4, Zenon DEF TakeEvent, ReplayEvent, Defer, Enter, file, index
    <3> QED
      BY <1>0, <3>1
  <2> QED
    BY <1>4, <2>1, <2>2, <2>3, <2>4 DEF Events
<1>5. CASE Recovering
  <2>1. ASSUME RecoveryReplays \/ RecoveryScans \/ (\E p \in Paths : ScanOne(p)) \/
               RecoveryEnds
        PROVE  KnownInv'
    <3>1. UNCHANGED <<disk, evidence, overlay, reader, saved>>
      BY <2>1, Zenon DEF RecoveryReplays, RecoveryScans, ScanOne, RecoveryEnds, file, index
    <3> QED
      BY <1>0, <3>1
  <2> QED
    BY <1>5, <2>1 DEF Recovering
<1>6. CASE Ignoring
  <2>1. ASSUME IgnoreChecks \/ IgnoreWaits \/ IgnoreClears \/ IgnoreRechecks
        PROVE  KnownInv'
    <3>1. UNCHANGED <<disk, evidence, overlay, reader, saved>>
      BY <2>1, Zenon DEF IgnoreChecks, IgnoreWaits, IgnoreClears, IgnoreRechecks, file,
         index
    <3> QED
      BY <1>0, <3>1
  <2> QED
    BY <1>6, <2>1 DEF Ignoring
<1>7. CASE Begins
  <2>1. ASSUME StartupPass \/ IgnorePass \/ OverflowPass \/ DeferredPass \/ BuildPass \/
               ReloadPass
        PROVE  KnownInv'
    <3>1. UNCHANGED <<disk, evidence, overlay, reader, saved>>
      BY <2>1, Zenon DEF StartupPass, BeginPass, IgnorePass, OverflowPass, DeferredPass,
         BuildPass,
          ReloadPass, file, index
    <3> QED
      BY <1>0, <3>1
  <2> QED
    BY <1>7, <2>1 DEF Begins
<1>8. CASE Passing
  <2>1. ASSUME Publish PROVE KnownInv'
    <3> USE DEF KnownInv
    <3> TAKE q \in Paths
    <3>1. disk' = disk /\ pass.at = "read"
      BY <2>1, PublishDoes, PassMoves, Zenon
    <3>2. \/ /\ reader' = Merged /\ overlay' = Pruned
             /\ evidence' = Evidenced /\ saved' = Stamps(Evidenced)
          \/ UNCHANGED <<reader, overlay, saved, evidence>>
      BY <2>1, Zenon DEF Publish, index
    <3>3. CASE UNCHANGED <<reader, overlay, saved, evidence>>
      BY <3>1, <3>3, Zenon DEF IndexInv, Visible, VersionOn
    <3>4. CASE /\ reader' = Merged /\ overlay' = Pruned
               /\ evidence' = Evidenced /\ saved' = Stamps(Evidenced)
      BY <3>1, <3>4, MergeIsKnown, Zenon
    <3> QED
      BY <3>2, <3>3, <3>4
  <2>2. ASSUME (\E p \in Paths : Walk(p)) \/ (\E p \in Paths : Read(p)) \/ (\E p \in Paths :
               PassScans(p)) \/ Classify \/ EndPass \/ StartupYields
        PROVE  KnownInv'
    <3>1. UNCHANGED <<disk, evidence, overlay, reader, saved>>
      BY <2>2, Zenon DEF Walk, Read, PassScans, Classify, EndPass, StartupYields, file,
         index
    <3> QED
      BY <1>0, <3>1
  <2> QED
    BY <1>8, <2>1, <2>2 DEF Passing
<1>9. CASE Building
  <2>1. ASSUME BuildPublish PROVE KnownInv'
    <3> USE DEF KnownInv
    <3> TAKE q \in Paths
    <3>1. /\ reader' = Built /\ overlay' = [r \in Paths |-> None]
          /\ evidence' = KnownOf(Withheld) /\ saved' = Stamps(KnownOf({}))
      BY <2>1, Zenon DEF BuildPublish
    <3>2. overlay'[q] = None
      BY <3>1, Zenon
    <3> QED
      BY <3>1, <3>2, WithheldPaths, BuildIsKnown, Zenon
  <2>2. ASSUME (\E p \in Paths : BuildRead(p)) \/ BuildFails \/ BuildEnds
        PROVE  KnownInv'
    <3>1. UNCHANGED <<disk, evidence, overlay, reader, saved>>
      BY <2>2, Zenon DEF BuildRead, BuildFails, BuildEnds, file, index
    <3> QED
      BY <1>0, <3>1
  <2> QED
    BY <1>9, <2>1, <2>2 DEF Building
<1>10. CASE Reloading
  <2>1. ASSUME ReloadPublish PROVE KnownInv'
    <3> USE DEF KnownInv
    <3> TAKE q \in Paths
    <3>1. /\ reader' = Built /\ overlay' = [r \in Paths |-> None]
          /\ evidence' = KnownOf(Withheld) /\ saved' = Stamps(KnownOf(Withheld))
      BY <2>1, Zenon DEF ReloadPublish
    <3>2. overlay'[q] = None
      BY <3>1, Zenon
    <3> QED
      BY <3>1, <3>2, WithheldPaths, BuildIsKnown, Zenon
  <2>2. ASSUME ReloadFails \/ ReloadReplays \/ ReloadRests
        PROVE  KnownInv'
    <3>1. UNCHANGED <<disk, evidence, overlay, reader, saved>>
      BY <2>2, Zenon DEF ReloadFails, ReloadReplays, ReloadRests, file, index
    <3> QED
      BY <1>0, <3>1
  <2> QED
    BY <1>10, <2>1, <2>2 DEF Reloading
<1>11. CASE Searching
  <2>1. ASSUME Load \/ ReadFile \/ UpdateCache
        PROVE  KnownInv'
    <3>1. UNCHANGED <<disk, evidence, overlay, reader, saved>>
      BY <2>1, Zenon DEF Load, SearchFrame, ReadFile, UpdateCache, file, index
    <3> QED
      BY <1>0, <3>1
  <2> QED
    BY <1>11, <2>1 DEF Searching
<1> QED
  BY <1>1, <1>2, <1>3, <1>4, <1>5, <1>6, <1>7, <1>8, <1>9, <1>10, <1>11 DEF Next, Progress

\* A pass that reads knows what it need not read.
LEMMA ReadInvStep == TypeOK /\ ThreadsOK /\ ControlInv /\ ReadInv /\ [Next]_vars => ReadInv'
<1> SUFFICES ASSUME TypeOK, ThreadsOK, ControlInv, ReadInv, [Next]_vars
             PROVE  ReadInv'
  OBVIOUS
<1>0. ASSUME UNCHANGED <<evidence, overlay, pass, reader, saved>> PROVE ReadInv'
  BY <1>0, Zenon DEF ReadInv, Old, Indexed
<1>1. CASE UNCHANGED vars
  <2>1. UNCHANGED <<evidence, overlay, pass, reader, saved>>
    BY <1>1 DEF vars, index
  <2> QED
    BY <1>0, <2>1
<1>2. CASE Environment
  <2>1. ASSUME PeriodicPass PROVE ReadInv'
    <3>1. pass'.at # "read"
      BY <2>1, PassBegins, Zenon
    <3> QED
      BY <3>1, Zenon DEF ReadInv
  <2>2. ASSUME BeginReload PROVE ReadInv'
    <3>1. pass'.at # "read"
      BY <2>2, PassMoves, BeginReloadDoes, Zenon
    <3> QED
      BY <3>1, Zenon DEF ReadInv
  <2>3. ASSUME BeginSave PROVE ReadInv'
    <3>1. /\ pass'.by = "autosave" /\ pass'.skip = {}
          /\ pass'.cand = {p \in Paths : overlay[p] # None}
          /\ pass'.left = {p \in pass'.cand : evidence[p].ver # None}
          /\ overlay' = overlay
      BY <2>3, PassSaves, BeginSaveDoes, Zenon
    <3> QED
      BY <3>1, SMT DEF ReadInv
  <2>4. ASSUME (\E p \in Paths : \E d \in Contents : Write(p, d)) \/ (\E p \in Paths :
               Remove(p)) \/ RulesEvent \/ TurnToPolling \/ (\E p \in Paths : Admit(p))
        PROVE  ReadInv'
    <3>1. UNCHANGED <<evidence, overlay, pass, reader, saved>>
      BY <2>4, Zenon DEF Write, Remove, RulesEvent, TurnToPolling, Admit, SearchFrame, index
    <3> QED
      BY <1>0, <3>1
  <2> QED
    BY <1>2, <2>1, <2>2, <2>3, <2>4 DEF Environment
<1>3. CASE Checkpoint
  <2>1. GateFree /\ pass' = pass
    BY <1>3, CheckpointDoes, Zenon
  <2>2. pass'.at # "read"
    BY <2>1, PassIsAlone, Zenon
  <2> QED
    BY <2>2, Zenon DEF ReadInv
<1>4. CASE Events
  <2>1. ASSUME NEW a \in Actors, DropGone(a) PROVE ReadInv'
    <3>1. act[a].at \in Touching /\ pass' = pass
      BY <2>1, DropGoneDoes, Zenon DEF Touching
    <3>2. pass'.at # "read"
      BY <3>1, PassIsAlone, Zenon
    <3> QED
      BY <3>2, Zenon DEF ReadInv
  <2>2. ASSUME NEW a \in Actors, Open(a) PROVE ReadInv'
    <3>1. act[a].at \in Touching /\ pass' = pass
      BY <2>2, OpenDoes, Zenon DEF Touching
    <3>2. pass'.at # "read"
      BY <3>1, PassIsAlone, Zenon
    <3> QED
      BY <3>2, Zenon DEF ReadInv
  <2>3. ASSUME NEW a \in Actors, Verify(a) PROVE ReadInv'
    <3>1. act[a].at \in Touching /\ pass' = pass
      BY <2>3, VerifyDoes, Zenon DEF Touching
    <3>2. pass'.at # "read"
      BY <3>1, PassIsAlone, Zenon
    <3> QED
      BY <3>2, Zenon DEF ReadInv
  <2>4. ASSUME (\E p \in Paths : TakeEvent(p)) \/ (\E p \in Paths : ReplayEvent(p)) \/ (\E a
               \in Actors : Defer(a)) \/ (\E a \in Actors : Enter(a))
        PROVE  ReadInv'
    <3>1. UNCHANGED <<evidence, overlay, pass, reader, saved>>
      BY <2>4, Zenon DEF TakeEvent, ReplayEvent, Defer, Enter, index
    <3> QED
      BY <1>0, <3>1
  <2> QED
    BY <1>4, <2>1, <2>2, <2>3, <2>4 DEF Events
<1>5. CASE Recovering
  <2>1. ASSUME RecoveryReplays \/ RecoveryScans \/ (\E p \in Paths : ScanOne(p)) \/
               RecoveryEnds
        PROVE  ReadInv'
    <3>1. UNCHANGED <<evidence, overlay, pass, reader, saved>>
      BY <2>1, Zenon DEF RecoveryReplays, RecoveryScans, ScanOne, RecoveryEnds, index
    <3> QED
      BY <1>0, <3>1
  <2> QED
    BY <1>5, <2>1 DEF Recovering
<1>6. CASE Ignoring
  <2>1. ASSUME IgnoreChecks \/ IgnoreWaits \/ IgnoreClears \/ IgnoreRechecks
        PROVE  ReadInv'
    <3>1. UNCHANGED <<evidence, overlay, pass, reader, saved>>
      BY <2>1, Zenon DEF IgnoreChecks, IgnoreWaits, IgnoreClears, IgnoreRechecks, index
    <3> QED
      BY <1>0, <3>1
  <2> QED
    BY <1>6, <2>1 DEF Ignoring
<1>7. CASE Begins
  <2>1. ASSUME Begins PROVE ReadInv'
    <3>1. pass'.at # "read"
      BY <2>1, PassBegins, Zenon
    <3> QED
      BY <3>1, Zenon DEF ReadInv
  <2> QED
    BY <1>7, <2>1
<1>8. CASE Passing
  <2>1. ASSUME NEW p \in Paths, Walk(p) PROVE ReadInv'
    <3>1. pass'.at # "read"
      BY <2>1, PassWalks, Zenon DEF Walk
    <3> QED
      BY <3>1, Zenon DEF ReadInv
  <2>2. ASSUME NEW p \in Paths, Read(p) PROVE ReadInv'
    <3>1. /\ UNCHANGED <<reader, overlay, evidence, saved>>
          /\ pass'.by = pass.by /\ pass'.at = pass.at /\ pass'.left = pass.left \ {p}
          /\ pass'.cand = pass.cand /\ pass'.skip = pass.skip /\ pass'.seen = pass.seen
      BY <2>2, PassReads, ReadDoes, Zenon
    <3>2. \A q \in Paths : Old(q)' = Old(q) /\ Indexed(q)' = Indexed(q)
      BY <3>1, Zenon DEF Old, Indexed
    <3>3. pass.at = "read" => pass'.left \subseteq pass'.cand
      BY <3>1, Zenon DEF ReadInv
    <3> QED
      BY <3>1, <3>2, <3>3, Zenon DEF ReadInv
  <2>3. ASSUME NEW p \in Paths, PassScans(p) PROVE ReadInv'
    <3>1. pass'.at # "read"
      BY <2>3, PassMoves, PassScansDoes, Zenon
    <3> QED
      BY <3>1, Zenon DEF ReadInv
  <2>4. ASSUME Classify PROVE ReadInv'
    <3>1. UNCHANGED <<reader, overlay, evidence, saved>> /\ pass'.by # "autosave"
      <4>1. pass.by # "autosave"
        BY <2>4, PassClassifies, SMT DEF ControlInv, GateInv
      <4> QED
        BY <2>4, <4>1, PassClassifies, ClassifyDoes, Zenon
    <3>2. CASE pass'.at = "read"
      <4>1. /\ pass'.skip = SkippedIn(pass.seen) /\ pass'.seen = pass.seen
            /\ pass'.cand = CandidatesIn(pass.seen, pass.member)
            /\ pass'.left = {p \in pass'.cand : pass.seen[p] # None}
        BY <2>4, <3>2, PassClassifies, Zenon
      <4>2. pass'.left \subseteq pass'.cand
        BY <4>1, Zenon
      <4>3. ASSUME NEW p \in Paths \ (pass'.cand \cup pass'.skip)
            PROVE  /\ overlay[p] = None
                   /\ IF pass.seen[p] = None THEN Old(p) = None /\ ~Indexed(p)
                      ELSE Old(p) = pass.seen[p]
        BY <4>1, <4>3, SMT DEF CandidatesIn, ChangedIn, DeletedIn
      <4>4. \A p \in Paths : Old(p)' = Old(p) /\ Indexed(p)' = Indexed(p)
        BY <3>1, Zenon DEF Old, Indexed
      <4> QED
        BY <3>1, <4>1, <4>2, <4>3, <4>4, Zenon DEF ReadInv
    <3> QED
      BY <3>2, Zenon DEF ReadInv
  <2>5. ASSUME Publish PROVE ReadInv'
    <3>1. pass'.at # "read"
      BY <2>5, PassMoves, PublishDoes, Zenon
    <3> QED
      BY <3>1, Zenon DEF ReadInv
  <2>6. ASSUME EndPass PROVE ReadInv'
    <3>1. pass'.at # "read"
      BY <2>6, PassMoves, NewPasses, Zenon
    <3> QED
      BY <3>1, Zenon DEF ReadInv
  <2>7. ASSUME StartupYields
        PROVE  ReadInv'
    <3>1. UNCHANGED <<evidence, overlay, pass, reader, saved>>
      BY <2>7, Zenon DEF StartupYields, index
    <3> QED
      BY <1>0, <3>1
  <2> QED
    BY <1>8, <2>1, <2>2, <2>3, <2>4, <2>5, <2>6, <2>7 DEF Passing
<1>9. CASE Building
  <2>1. ASSUME BuildPublish PROVE ReadInv'
    <3>1. GateFree /\ pass' = pass
      BY <2>1, BuildPublishDoes, Zenon
    <3>2. pass'.at # "read"
      BY <3>1, PassIsAlone, Zenon
    <3> QED
      BY <3>2, Zenon DEF ReadInv
  <2>2. ASSUME (\E p \in Paths : BuildRead(p)) \/ BuildFails \/ BuildEnds
        PROVE  ReadInv'
    <3>1. UNCHANGED <<evidence, overlay, pass, reader, saved>>
      BY <2>2, Zenon DEF BuildRead, BuildFails, BuildEnds, index
    <3> QED
      BY <1>0, <3>1
  <2> QED
    BY <1>9, <2>1, <2>2 DEF Building
<1>10. CASE Reloading
  <2>1. ASSUME ReloadPublish PROVE ReadInv'
    <3>1. pass'.at # "read"
      BY <2>1, PassMoves, NewPasses, Zenon
    <3> QED
      BY <3>1, Zenon DEF ReadInv
  <2>2. ASSUME ReloadFails PROVE ReadInv'
    <3>1. pass'.at # "read"
      BY <2>2, PassMoves, NewPasses, Zenon
    <3> QED
      BY <3>1, Zenon DEF ReadInv
  <2>3. ASSUME ReloadReplays \/ ReloadRests
        PROVE  ReadInv'
    <3>1. UNCHANGED <<evidence, overlay, pass, reader, saved>>
      BY <2>3, Zenon DEF ReloadReplays, ReloadRests, index
    <3> QED
      BY <1>0, <3>1
  <2> QED
    BY <1>10, <2>1, <2>2, <2>3 DEF Reloading
<1>11. CASE Searching
  <2>1. ASSUME Load \/ ReadFile \/ UpdateCache
        PROVE  ReadInv'
    <3>1. UNCHANGED <<evidence, overlay, pass, reader, saved>>
      BY <2>1, Zenon DEF Load, SearchFrame, ReadFile, UpdateCache, index
    <3> QED
      BY <1>0, <3>1
  <2> QED
    BY <1>11, <2>1 DEF Searching
<1> QED
  BY <1>1, <1>2, <1>3, <1>4, <1>5, <1>6, <1>7, <1>8, <1>9, <1>10, <1>11 DEF Next, Progress

\* A file that is written has no version seen before.
LEMMA ChangeIsUnseen ==
  ASSUME TypeOK, ThreadsOK, VersionsInv, NEW p \in Paths,
         Remove(p) \/ \E d \in Contents : Write(p, d)
  PROVE  disk'[p] = None \/ pass.seen[p] # VersionOn(p)'
<1>1. pass.seen[p] \in Versions \cup {None} /\ GoodVersion(disk[p], clock, pass.seen[p])
  BY SMT DEF ThreadsOK, VersionsInv, PassVersions
<1>2. ASSUME disk'[p] \in Copies, disk'[p].ver = clock + 1 PROVE pass.seen[p] # VersionOn(p)'
  <2>1. VersionOn(p)' = clock + 1
    BY <1>2, Zenon DEF VersionOn
  <2>2. clock \in Int /\ clock + 1 # None
    <3>1. clock \in Int /\ clock + 1 \in Versions
      BY <1>2, Sentinels, SMT DEF TypeOK
    <3> QED
      BY <3>1, Sentinels, Zenon
  <2>3. CASE pass.seen[p] \in Versions
    <3>1. pass.seen[p] <= clock /\ pass.seen[p] \in Int
      BY <1>1, <2>3, Sentinels, Zenon DEF GoodVersion
    <3> QED
      BY <2>1, <2>2, <3>1, SMT
  <2> QED
    BY <1>1, <2>1, <2>2, <2>3, Zenon
<1> QED
  BY <1>2, FileChanges, Zenon

\* A failure that is remembered is of a version that is gone, or was a fault.
LEMMA MemoInvStep == TypeOK /\ ThreadsOK /\ VersionsInv /\ MemoInv /\ [Next]_vars => MemoInv'
<1> SUFFICES ASSUME TypeOK, ThreadsOK, VersionsInv, MemoInv, [Next]_vars
             PROVE  MemoInv'
  OBVIOUS
<1>0. ASSUME UNCHANGED <<disk, excused, memo, pass>> PROVE MemoInv'
  BY <1>0, Zenon DEF MemoInv, VersionOn
<1>1. CASE UNCHANGED vars
  <2>1. UNCHANGED <<disk, excused, memo, pass>>
    BY <1>1 DEF vars, file, bounds
  <2> QED
    BY <1>0, <2>1
<1>2. CASE Environment
  <2>1. ASSUME PeriodicPass PROVE MemoInv'
    <3>1. UNCHANGED <<memo, disk>> /\ \A q \in Paths : pass'.got[q] # Unread
      BY <2>1, PassBegins, BeginsShare, Sentinels, Zenon DEF file
    <3>2. \A q \in Paths : q \in excused => q \in excused'
      BY <2>1, BeginsShare, Zenon
    <3>3. \A q \in Paths : VersionOn(q)' = VersionOn(q)
      BY <3>1, Zenon DEF VersionOn
    <3> QED
      BY <3>1, <3>2, <3>3, Zenon DEF MemoInv
  <2>2. ASSUME NEW p \in Paths, NEW d \in Contents, Write(p, d) PROVE MemoInv'
    <3> USE DEF MemoInv
    <3> TAKE q \in Paths
    <3>1. memo' = memo /\ pass' = pass /\ excused' = excused
      BY <2>2, FileChanges, Zenon
    <3>2. memo[q] \in Versions /\ memo[q] # VersionOn(q) => memo[q] # VersionOn(q)'
      <4>1. GoodVersion(disk[q], clock, memo[q])
        BY Zenon DEF VersionsInv, IndexVersions
      <4> QED
        BY <2>2, <4>1, ChangeIsNews, Zenon
    <3>3. \/ disk'[q] = None \/ pass.seen[q] # VersionOn(q)'
          \/ disk'[q] = disk[q] /\ VersionOn(q)' = VersionOn(q)
      <4>1. CASE q = p
        BY <2>2, <4>1, ChangeIsUnseen, Zenon
      <4>2. CASE q # p
        <5>1. disk'[q] = disk[q]
          BY <2>2, <4>2, FileChanges, Zenon
        <5> QED
          BY <5>1, Zenon DEF VersionOn
      <4> QED
        BY <4>1, <4>2
    <3> QED
      BY <3>1, <3>2, <3>3, Zenon
  <2>3. ASSUME NEW p \in Paths, Remove(p) PROVE MemoInv'
    <3> USE DEF MemoInv
    <3> TAKE q \in Paths
    <3>1. memo' = memo /\ pass' = pass /\ excused' = excused
      BY <2>3, FileChanges, Zenon
    <3>2. memo[q] \in Versions /\ memo[q] # VersionOn(q) => memo[q] # VersionOn(q)'
      <4>1. GoodVersion(disk[q], clock, memo[q])
        BY Zenon DEF VersionsInv, IndexVersions
      <4> QED
        BY <2>3, <4>1, ChangeIsNews, Zenon
    <3>3. \/ disk'[q] = None \/ pass.seen[q] # VersionOn(q)'
          \/ disk'[q] = disk[q] /\ VersionOn(q)' = VersionOn(q)
      <4>1. CASE q = p
        BY <2>3, <4>1, ChangeIsUnseen, Zenon
      <4>2. CASE q # p
        <5>1. disk'[q] = disk[q]
          BY <2>3, <4>2, FileChanges, Zenon
        <5> QED
          BY <5>1, Zenon DEF VersionOn
      <4> QED
        BY <4>1, <4>2
    <3> QED
      BY <3>1, <3>2, <3>3, Zenon
  <2>4. ASSUME BeginReload PROVE MemoInv'
    <3>1. UNCHANGED <<memo, disk>> /\ \A q \in Paths : pass'.got[q] # Unread
      BY <2>4, PassMoves, BeginReloadDoes, Sentinels, Zenon
    <3>2. \A q \in Paths : q \in excused => q \in excused'
      BY <2>4, BeginReloadDoes, Zenon
    <3>3. \A q \in Paths : VersionOn(q)' = VersionOn(q)
      BY <3>1, Zenon DEF VersionOn
    <3> QED
      BY <3>1, <3>2, <3>3, Zenon DEF MemoInv
  <2>5. ASSUME BeginSave PROVE MemoInv'
    <3>1. UNCHANGED <<memo, disk>> /\ \A q \in Paths : pass'.got[q] # Unread
      BY <2>5, PassSaves, BeginSaveDoes, Sentinels, Zenon
    <3>2. \A q \in Paths : q \in excused => q \in excused'
      BY <2>5, BeginSaveDoes, Zenon
    <3>3. \A q \in Paths : VersionOn(q)' = VersionOn(q)
      BY <3>1, Zenon DEF VersionOn
    <3> QED
      BY <3>1, <3>2, <3>3, Zenon DEF MemoInv
  <2>6. ASSUME RulesEvent \/ TurnToPolling \/ (\E p \in Paths : Admit(p))
        PROVE  MemoInv'
    <3>1. UNCHANGED <<disk, excused, memo, pass>>
      BY <2>6, Zenon DEF RulesEvent, TurnToPolling, Admit, SearchFrame, file, bounds
    <3> QED
      BY <1>0, <3>1
  <2> QED
    BY <1>2, <2>1, <2>2, <2>3, <2>4, <2>5, <2>6 DEF Environment
<1>3. CASE Checkpoint
  <2>1. UNCHANGED <<disk, excused, memo, pass>>
    BY <1>3, Zenon DEF Checkpoint, file, bounds
  <2> QED
    BY <1>0, <2>1
<1>4. CASE Events
  <2>1. ASSUME NEW a \in Actors, Enter(a) PROVE MemoInv'
    <3>1. UNCHANGED <<memo, pass, disk>>
      BY <2>1, EnterDoes, Zenon
    <3>2. \A q \in Paths : q \in excused => q \in excused'
      BY <2>1, EnterDoes, Zenon
    <3>3. \A q \in Paths : VersionOn(q)' = VersionOn(q)
      BY <3>1, Zenon DEF VersionOn
    <3> QED
      BY <3>1, <3>2, <3>3, Zenon DEF MemoInv
  <2>2. ASSUME NEW a \in Actors, DropGone(a) PROVE MemoInv'
    <3>1. UNCHANGED <<memo, pass, disk>>
      BY <2>2, DropGoneDoes, Zenon
    <3>2. \A q \in Paths : q \in excused => q \in excused'
      BY <2>2, DropGoneDoes, Zenon
    <3>3. \A q \in Paths : VersionOn(q)' = VersionOn(q)
      BY <3>1, Zenon DEF VersionOn
    <3> QED
      BY <3>1, <3>2, <3>3, Zenon DEF MemoInv
  <2>3. ASSUME (\E p \in Paths : TakeEvent(p)) \/ (\E p \in Paths : ReplayEvent(p)) \/ (\E a
               \in Actors : Defer(a)) \/ (\E a \in Actors : Open(a)) \/ (\E a \in Actors :
               Verify(a))
        PROVE  MemoInv'
    <3>1. UNCHANGED <<disk, excused, memo, pass>>
      BY <2>3, Zenon DEF TakeEvent, ReplayEvent, Defer, Open, Verify, file, bounds
    <3> QED
      BY <1>0, <3>1
  <2> QED
    BY <1>4, <2>1, <2>2, <2>3 DEF Events
<1>5. CASE Recovering
  <2>1. ASSUME RecoveryReplays \/ RecoveryScans \/ (\E p \in Paths : ScanOne(p)) \/
               RecoveryEnds
        PROVE  MemoInv'
    <3>1. UNCHANGED <<disk, excused, memo, pass>>
      BY <2>1, Zenon DEF RecoveryReplays, RecoveryScans, ScanOne, RecoveryEnds, file, bounds
    <3> QED
      BY <1>0, <3>1
  <2> QED
    BY <1>5, <2>1 DEF Recovering
<1>6. CASE Ignoring
  <2>1. ASSUME IgnoreChecks \/ IgnoreWaits \/ IgnoreClears \/ IgnoreRechecks
        PROVE  MemoInv'
    <3>1. UNCHANGED <<disk, excused, memo, pass>>
      BY <2>1, Zenon DEF IgnoreChecks, IgnoreWaits, IgnoreClears, IgnoreRechecks, file,
         bounds
    <3> QED
      BY <1>0, <3>1
  <2> QED
    BY <1>6, <2>1 DEF Ignoring
<1>7. CASE Begins
  <2>1. ASSUME Begins PROVE MemoInv'
    <3>1. UNCHANGED <<memo, disk>> /\ \A q \in Paths : pass'.got[q] # Unread
      BY <2>1, PassBegins, BeginsShare, Sentinels, Zenon DEF file
    <3>2. \A q \in Paths : q \in excused => q \in excused'
      BY <2>1, BeginsShare, Zenon
    <3>3. \A q \in Paths : VersionOn(q)' = VersionOn(q)
      BY <3>1, Zenon DEF VersionOn
    <3> QED
      BY <3>1, <3>2, <3>3, Zenon DEF MemoInv
  <2> QED
    BY <1>7, <2>1
<1>8. CASE Passing
  <2>1. ASSUME NEW p \in Paths, Walk(p) PROVE MemoInv'
    <3>1. UNCHANGED <<memo, disk, excused>> /\ pass.at = "walk" /\ pass'.got = pass.got
      BY <2>1, PassWalks, WalkDoes, Zenon DEF Walk
    <3>2. \A q \in Paths : VersionOn(q)' = VersionOn(q)
      BY <3>1, Zenon DEF VersionOn
    <3> QED
      BY <3>1, <3>2, Zenon DEF MemoInv
  <2>2. ASSUME NEW p \in Paths, Read(p) PROVE MemoInv'
    <3> USE DEF MemoInv
    <3> TAKE q \in Paths
    <3>1. UNCHANGED <<memo, disk>> /\ pass.at = "read" /\ pass'.at = pass.at /\ pass'.seen = pass.seen
      BY <2>2, PassReads, ReadDoes, Zenon
    <3>2. q \in excused => q \in excused'
      BY <2>2, ReadDoes, Zenon
    <3>3. VersionOn(q)' = VersionOn(q)
      BY <3>1, Zenon DEF VersionOn
    <3>4. CASE q = p
      <4>1. pass'.got[q] = Unread => disk[q] = None \/ VersionOn(q) # pass.seen[q] \/ q \in excused'
        BY <2>2, <3>4, PassReads, Zenon
      <4> QED
        BY <3>1, <3>2, <3>3, <4>1, Zenon
    <3>5. CASE q # p
      <4>1. pass'.got[q] = pass.got[q]
        BY <2>2, <3>5, PassReads, Zenon
      <4> QED
        BY <3>1, <3>2, <3>3, <4>1, Zenon
    <3> QED
      BY <3>4, <3>5
  <2>3. ASSUME NEW p \in Paths, PassScans(p) PROVE MemoInv'
    <3>1. UNCHANGED <<disk, excused>> /\ memo' = memo /\ pass'.seen = pass.seen /\ pass'.got = pass.got /\ pass'.at = pass.at
      BY <2>3, PassMoves, PassScansDoes, Zenon
    <3>2. \A q \in Paths : VersionOn(q)' = VersionOn(q)
      BY <3>1, Zenon DEF VersionOn
    <3> QED
      BY <3>1, <3>2, Zenon DEF MemoInv
  <2>4. ASSUME Classify PROVE MemoInv'
    <3>1. UNCHANGED <<disk, excused>> /\ pass.at = "walk" /\ pass'.got = pass.got
      BY <2>4, PassClassifies, ClassifyDoes, Zenon
    <3>2. \A q \in Paths : memo'[q] = memo[q] \/ memo'[q] = None
      <4>1. memo' = memo \/ memo' = [r \in Paths |-> IF pass.seen[r] = None THEN None ELSE memo[r]]
        BY <2>4, Zenon DEF Classify
      <4> QED
        BY <4>1, Zenon
    <3>3. \A q \in Paths : VersionOn(q)' = VersionOn(q)
      BY <3>1, Zenon DEF VersionOn
    <3> QED
      BY <3>1, <3>2, <3>3, Sentinels, Zenon DEF MemoInv
  <2>5. ASSUME Publish PROVE MemoInv'
    <3> USE DEF MemoInv
    <3> TAKE q \in Paths
    <3>1. /\ UNCHANGED <<disk, excused>> /\ pass'.at \in {"scan", "failed"}
          /\ pass'.got = pass.got /\ pass'.seen = pass.seen
      BY <2>5, PassMoves, PublishDoes, Zenon
    <3>2. VersionOn(q)' = VersionOn(q)
      BY <3>1, Zenon DEF VersionOn
    <3>3. \/ memo'[q] \in {None, Unknown, memo[q]}
          \/ memo'[q] = pass.seen[q] /\ pass.got[q] = Unread
      <4>1. memo' = Memoised
        BY <2>5, Zenon DEF Publish
      <4> QED
        BY <4>1, MergedAt, Zenon
    <3>4. VersionOn(q) \in Versions => disk[q] # None
      BY Sentinels, Zenon DEF VersionOn
    <3> QED
      BY <3>1, <3>2, <3>3, <3>4, Sentinels, Zenon
  <2>6. ASSUME EndPass PROVE MemoInv'
    <3>1. UNCHANGED <<memo, disk>> /\ \A q \in Paths : pass'.got[q] # Unread
      BY <2>6, PassMoves, NewPasses, EndPassDoes, Sentinels, Zenon
    <3>2. \A q \in Paths : q \in excused => q \in excused'
      BY <2>6, EndPassDoes, Zenon
    <3>3. \A q \in Paths : VersionOn(q)' = VersionOn(q)
      BY <3>1, Zenon DEF VersionOn
    <3> QED
      BY <3>1, <3>2, <3>3, Zenon DEF MemoInv
  <2>7. ASSUME StartupYields
        PROVE  MemoInv'
    <3>1. UNCHANGED <<disk, excused, memo, pass>>
      BY <2>7, Zenon DEF StartupYields, file, bounds
    <3> QED
      BY <1>0, <3>1
  <2> QED
    BY <1>8, <2>1, <2>2, <2>3, <2>4, <2>5, <2>6, <2>7 DEF Passing
<1>9. CASE Building
  <2>1. ASSUME NEW p \in Paths, BuildRead(p) PROVE MemoInv'
    <3>1. UNCHANGED <<memo, pass, disk>>
      BY <2>1, BuildReadDoes, Zenon
    <3>2. \A q \in Paths : q \in excused => q \in excused'
      BY <2>1, BuildReadDoes, Zenon
    <3>3. \A q \in Paths : VersionOn(q)' = VersionOn(q)
      BY <3>1, Zenon DEF VersionOn
    <3> QED
      BY <3>1, <3>2, <3>3, Zenon DEF MemoInv
  <2>2. ASSUME BuildEnds PROVE MemoInv'
    <3>1. UNCHANGED <<memo, pass, disk>>
      BY <2>2, BuildEndsDoes, Zenon
    <3>2. \A q \in Paths : q \in excused => q \in excused'
      BY <2>2, BuildEndsDoes, Zenon DEF BuildEnds, bounds
    <3>3. \A q \in Paths : VersionOn(q)' = VersionOn(q)
      BY <3>1, Zenon DEF VersionOn
    <3> QED
      BY <3>1, <3>2, <3>3, Zenon DEF MemoInv
  <2>3. ASSUME BuildPublish \/ BuildFails
        PROVE  MemoInv'
    <3>1. UNCHANGED <<disk, excused, memo, pass>>
      BY <2>3, Zenon DEF BuildPublish, BuildFails, file, bounds
    <3> QED
      BY <1>0, <3>1
  <2> QED
    BY <1>9, <2>1, <2>2, <2>3 DEF Building
<1>10. CASE Reloading
  <2>1. ASSUME ReloadPublish PROVE MemoInv'
    <3>1. UNCHANGED <<memo, disk>> /\ \A q \in Paths : pass'.got[q] # Unread
      BY <2>1, PassMoves, NewPasses, ReloadPublishDoes, Sentinels, Zenon
    <3>2. \A q \in Paths : q \in excused => q \in excused'
      BY <2>1, ReloadPublishDoes, Zenon
    <3>3. \A q \in Paths : VersionOn(q)' = VersionOn(q)
      BY <3>1, Zenon DEF VersionOn
    <3> QED
      BY <3>1, <3>2, <3>3, Zenon DEF MemoInv
  <2>2. ASSUME ReloadFails PROVE MemoInv'
    <3>1. UNCHANGED <<memo, disk>> /\ \A q \in Paths : pass'.got[q] # Unread
      BY <2>2, PassMoves, NewPasses, ReloadFailsDoes, Sentinels, Zenon
    <3>2. \A q \in Paths : q \in excused => q \in excused'
      BY <2>2, ReloadFailsDoes, Zenon
    <3>3. \A q \in Paths : VersionOn(q)' = VersionOn(q)
      BY <3>1, Zenon DEF VersionOn
    <3> QED
      BY <3>1, <3>2, <3>3, Zenon DEF MemoInv
  <2>3. ASSUME ReloadReplays \/ ReloadRests
        PROVE  MemoInv'
    <3>1. UNCHANGED <<disk, excused, memo, pass>>
      BY <2>3, Zenon DEF ReloadReplays, ReloadRests, file, bounds
    <3> QED
      BY <1>0, <3>1
  <2> QED
    BY <1>10, <2>1, <2>2, <2>3 DEF Reloading
<1>11. CASE Searching
  <2>1. ASSUME Load \/ ReadFile \/ UpdateCache
        PROVE  MemoInv'
    <3>1. UNCHANGED <<disk, excused, memo, pass>>
      BY <2>1, Zenon DEF Load, SearchFrame, ReadFile, UpdateCache, file, bounds
    <3> QED
      BY <1>0, <3>1
  <2> QED
    BY <1>11, <2>1 DEF Searching
<1> QED
  BY <1>1, <1>2, <1>3, <1>4, <1>5, <1>6, <1>7, <1>8, <1>9, <1>10, <1>11 DEF Next, Progress

\* A search that is marked is marked.
LEMMA SearchMarks ==
  ASSUME ThreadsOK, search' = [search EXCEPT !.moved = TRUE]
  PROVE  search'.moved
BY SMT DEF ThreadsOK

-----------------------------------------------------------------------------
(* The cache. *)

\* The cache is as good after a step that, for each file, adds nothing newer
\* to what is known, or else empties the cache and marks a search.
LEMMA CacheStays ==
  ASSUME ThreadsOK, CacheInv,
         \A q \in Paths : cache'[q] = cache[q] \/ cache'[q] = None,
         search'.at = search.at, search'.path = search.path, search'.copy = search.copy,
         search' = search \/ search'.moved,
         \A q \in Paths :
           \/ \A c : NoOlder(c, reader[q], overlay[q], evidence[q])
                       => NoOlder(c, reader'[q], overlay'[q], evidence'[q])
           \/ cache'[q] = None /\ (search.at = "idle" \/ search'.moved)
  PROVE  CacheInv'
<1>1. ASSUME NEW q \in Paths, cache'[q] # None
      PROVE  NoOlder(cache'[q], reader'[q], overlay'[q], evidence'[q])
  <2>1. cache'[q] = cache[q]
    BY <1>1, Zenon
  <2>2. NoOlder(cache[q], reader[q], overlay[q], evidence[q])
    BY <1>1, <2>1, Zenon DEF CacheInv
  <2> QED
    BY <1>1, <2>1, <2>2, Zenon
<1>2. ASSUME search'.at = "read", ~search'.moved
      PROVE  NoOlder(search'.copy, reader'[search'.path], overlay'[search'.path],
                     evidence'[search'.path])
  <2>1. search.at = "read" /\ search.at # "idle" /\ ~search.moved /\ search.path \in Paths
    BY <1>2, SMT DEF ThreadsOK
  <2>2. NoOlder(search.copy, reader[search.path], overlay[search.path], evidence[search.path])
    BY <2>1, Zenon DEF CacheInv
  <2> QED
    BY <1>2, <2>1, <2>2, Zenon
<1> QED
  BY <1>1, <1>2, Zenon DEF CacheInv

\* What a look does to a file is no news, or it invalidates the file.
LEMMA LookInvalidatesNews ==
  ASSUME TypeOK, ThreadsOK, NEW a \in Actors, Open(a) \/ Verify(a) \/ DropGone(a), NEW q \in Paths
  PROVE  \/ \A c : NoOlder(c, reader[q], overlay[q], evidence[q])
                     => NoOlder(c, reader'[q], overlay'[q], evidence'[q])
         \/ cache'[q] = None /\ (search.at = "idle" \/ search'.moved)
<1> DEFINE p == act[a].path
           copy == act[a].copy
<1>0. reader' = reader
  BY LooksAt, Zenon
<1>1. /\ p \in Paths
      /\ \/ UNCHANGED <<index, searches>>
         \/ Drop(p)
         \/ RetryLater(p)
         \/ copy \in Copies /\ Commit(p, copy)
  BY Looks, Zenon
<1> HIDE DEF p, copy
<1>2. CASE overlay'[q] = overlay[q] /\ evidence'[q] = evidence[q]
  BY <1>0, <1>2, Zenon
<1>3. CASE UNCHANGED <<index, searches>>
  BY <1>2, <1>3, Zenon DEF index
<1>4. CASE Drop(p)
  <2>1. CASE q = p
    <3>1. Drop(q)
      BY <1>4, <2>1, Zenon
    <3>2. overlay'[q] \in {overlay[q], None, Tombstone} /\ evidence'[q] = NoStamp
      BY <3>1, Drops, Zenon
    <3>3. evidence'[q].ver \notin Versions
      <4>1. NoStamp.ver = None
        BY SMT DEF NoStamp
      <4> QED
        BY <3>2, <4>1, Sentinels, Zenon
    <3>8. \A c : NoOlder(c, reader[q], overlay[q], evidence[q])
                => NoOlder(c, reader[q], overlay'[q], evidence'[q])
      BY <3>2, <3>3, Sentinels, Zenon DEF NoOlder
    <3>9. reader'[q] = reader[q]
      BY <1>0, Zenon
    <3> QED
      BY <3>8, <3>9, Zenon
  <2>2. CASE q # p
    <3>1. overlay'[q] = overlay[q] /\ evidence'[q] = evidence[q]
      BY <1>1, <1>4, <2>2, Drops, Zenon
    <3> QED
      BY <1>2, <3>1
  <2> QED
    BY <2>1, <2>2
<1>5. CASE RetryLater(p)
  <2>1. CASE q = p
    <3>1. overlay'[q] \in {overlay[q], None, Tombstone} /\ evidence'[q].ver \notin Versions
      <4>1. overlay' = overlay /\ evidence'[q] = [ver |-> Unknown, data |-> None]
        BY <1>1, <1>5, <2>1, Retries, Zenon
      <4>2. [ver |-> Unknown, data |-> None].ver = Unknown
        OBVIOUS
      <4> QED
        BY <4>1, <4>2, Sentinels, Zenon
    <3>8. \A c : NoOlder(c, reader[q], overlay[q], evidence[q])
                => NoOlder(c, reader[q], overlay'[q], evidence'[q])
      BY <3>1, Sentinels, Zenon DEF NoOlder
    <3>9. reader'[q] = reader[q]
      BY <1>0, Zenon
    <3> QED
      BY <3>8, <3>9, Zenon
  <2>2. CASE q # p
    <3>1. overlay'[q] = overlay[q] /\ evidence'[q] = evidence[q]
      BY <1>1, <1>5, <2>2, Retries, Zenon
    <3> QED
      BY <1>2, <3>1
  <2> QED
    BY <2>1, <2>2
<1>6. CASE copy \in Copies /\ Commit(p, copy)
  <2>1. CASE q = p
    <3>1. Invalidate({p}) /\ {p} \in SUBSET Paths /\ {p} # {} /\ q \in {p}
      BY <1>1, <1>6, <2>1, Commits, Zenon
    <3>2. cache'[q] = None /\ (search.at # "idle" => search' = [search EXCEPT !.moved = TRUE])
      BY <3>1, Invalidates, Zenon
    <3> QED
      BY <3>2, SearchMarks, Zenon
  <2>2. CASE q # p
    <3>1. overlay'[q] = overlay[q] /\ evidence'[q] = evidence[q]
      BY <1>1, <1>6, <2>2, Commits, Zenon
    <3> QED
      BY <1>2, <3>1
  <2> QED
    BY <2>1, <2>2
<1> QED
  BY <1>1, <1>3, <1>4, <1>5, <1>6

\* So does a merge.
LEMMA MergeInvalidatesNews ==
  ASSUME TypeOK, ThreadsOK, IndexInv, ReadInv, pass.at = "read", NEW q \in Paths,
         reader' = Merged, overlay' = Pruned, evidence' = Evidenced, Invalidate(Done)
  PROVE  \/ \A c : NoOlder(c, reader[q], overlay[q], evidence[q])
                     => NoOlder(c, reader'[q], overlay'[q], evidence'[q])
         \/ cache'[q] = None /\ (search.at = "idle" \/ search'.moved)
<1>1. CASE q \in Done
  <2>1. Done \in SUBSET Paths /\ Done # {}
    BY <1>1, Merges, Zenon
  <2>2. cache'[q] = None /\ (search.at # "idle" => search' = [search EXCEPT !.moved = TRUE])
    BY <1>1, <2>1, Invalidates, Zenon
  <2> QED
    BY <2>2, SearchMarks, Zenon
<1>2. CASE q \notin Done /\ (evidence'[q] = evidence[q] \/ evidence'[q].ver \notin Versions)
  <2>1. reader'[q] = reader[q] /\ overlay'[q] \in {overlay[q], None, Tombstone}
    BY <1>2, MergedAt, Zenon
  <2>8. \A c : NoOlder(c, reader[q], overlay[q], evidence[q])
              => NoOlder(c, reader[q], overlay'[q], evidence'[q])
    BY <1>2, <2>1, Sentinels, Zenon DEF NoOlder
  <2>9. reader'[q] = reader[q]
    BY <2>1, Zenon
  <2> QED
    BY <2>8, <2>9, Zenon
<1>3. CASE /\ q \notin Done /\ q \notin pass.cand \cup pass.skip
           /\ evidence'[q].ver = Old(q) /\ Old(q) \in Versions
  <2>1. overlay[q] = None
    BY <1>3, Zenon DEF ReadInv
  <2>2. reader'[q] = reader[q] /\ overlay'[q] = None
    BY <1>3, <2>1, MergedAt, Zenon
  <2>3. \/ evidence[q].ver \in Versions /\ Old(q) = evidence[q].ver
        \/ reader[q] \in Copies /\ reader[q].ver = Old(q)
    <3>1. CASE evidence[q].ver = None
      BY <1>3, <2>1, <3>1, Sentinels, Zenon DEF Old, IndexInv, KnownInv
    <3>2. CASE evidence[q].ver # None
      BY <1>3, <3>2, Zenon DEF Old
    <3> QED
      BY <3>1, <3>2
  <2>4. ASSUME NEW c, NoOlder(c, reader[q], overlay[q], evidence[q])
        PROVE  NoOlder(c, reader'[q], overlay'[q], evidence'[q])
    <3>1. evidence'[q].ver <= c.ver
      BY <1>3, <2>3, <2>4, Zenon DEF NoOlder
    <3> QED
      BY <2>2, <2>4, <3>1, Sentinels, Zenon DEF NoOlder
  <2> QED
    BY <2>4, Zenon
<1>4. q \notin Done => \/ evidence'[q] = evidence[q] \/ evidence'[q].ver \notin Versions
                       \/ q \notin pass.cand \cup pass.skip /\ evidence'[q].ver = Old(q)
  <2>1. [ver |-> Old(q), data |-> evidence[q].data].ver = Old(q) /\ NoStamp.ver = None
    BY SMT DEF NoStamp
  <2> QED
    BY <2>1, MergedAt, Sentinels, Zenon
<1> QED
  BY <1>1, <1>2, <1>3, <1>4, Zenon

\* What searches may read is as new as what is known.
LEMMA CacheInvStep ==
  TypeOK /\ ThreadsOK /\ ControlInv /\ VersionsInv /\ IndexInv /\ ReadInv /\ CacheInv /\ [Next]_vars => CacheInv'
<1> SUFFICES ASSUME TypeOK, ThreadsOK, ControlInv, VersionsInv, IndexInv, ReadInv, CacheInv, [Next]_vars
             PROVE  CacheInv'
  OBVIOUS
<1>0. ASSUME UNCHANGED <<cache, evidence, overlay, reader, search>> PROVE CacheInv'
  BY <1>0, Zenon DEF CacheInv
<1>1. CASE UNCHANGED vars
  <2>1. UNCHANGED <<cache, evidence, overlay, reader, search>>
    BY <1>1 DEF vars, index, searches
  <2> QED
    BY <1>0, <2>1
<1>2. CASE Environment
  <2>1. ASSUME NEW p \in Paths, Admit(p) PROVE CacheInv'
    <3>1. UNCHANGED <<cache, reader, overlay, evidence>>
      BY <2>1, AdmitDoes, Zenon
    <3>2. search'.at # "read"
      BY <2>1, SearchGoesOn, Zenon
    <3> QED
      BY <3>1, <3>2, Zenon DEF CacheInv
  <2>2. ASSUME (\E p \in Paths : \E d \in Contents : Write(p, d)) \/ (\E p \in Paths :
               Remove(p)) \/ RulesEvent \/ TurnToPolling \/ BeginReload \/ PeriodicPass \/
               BeginSave
        PROVE  CacheInv'
    <3>1. UNCHANGED <<cache, evidence, overlay, reader, search>>
      BY <2>2, Zenon DEF Write, Remove, RulesEvent, TurnToPolling, BeginReload,
         PeriodicPass, BeginPass,
          BeginSave, index, searches
    <3> QED
      BY <1>0, <3>1
  <2> QED
    BY <1>2, <2>1, <2>2 DEF Environment
<1>3. CASE Checkpoint
  <2>1. search.at = "idle" /\ \A p \in Paths : cache[p] = None
    BY <1>3, CheckpointDoes, Zenon DEF ControlInv, BuildInv
  <2>2. search' = search /\ cache' = cache
    BY <1>3, CheckpointDoes, Zenon
  <2> QED
    BY <2>1, <2>2, Zenon DEF CacheInv
<1>4. CASE Events
  <2>1. ASSUME NEW a \in Actors, DropGone(a) PROVE CacheInv'
    <3>1. /\ \A q \in Paths : cache'[q] = cache[q] \/ cache'[q] = None
          /\ search'.at = search.at /\ search'.path = search.path /\ search'.copy = search.copy
          /\ search' = search \/ search'.moved
      BY <2>1, IndexEmptiesCache, Zenon
    <3>2. ASSUME NEW q \in Paths
          PROVE  \/ \A c : NoOlder(c, reader[q], overlay[q], evidence[q])
                              => NoOlder(c, reader'[q], overlay'[q], evidence'[q])
                 \/ cache'[q] = None /\ (search.at = "idle" \/ search'.moved)
      BY <2>1, LookInvalidatesNews, Zenon
    <3> QED
      BY <3>1, <3>2, CacheStays, Zenon
  <2>2. ASSUME NEW a \in Actors, Open(a) PROVE CacheInv'
    <3>1. /\ \A q \in Paths : cache'[q] = cache[q] \/ cache'[q] = None
          /\ search'.at = search.at /\ search'.path = search.path /\ search'.copy = search.copy
          /\ search' = search \/ search'.moved
      BY <2>2, IndexEmptiesCache, Zenon
    <3>2. ASSUME NEW q \in Paths
          PROVE  \/ \A c : NoOlder(c, reader[q], overlay[q], evidence[q])
                              => NoOlder(c, reader'[q], overlay'[q], evidence'[q])
                 \/ cache'[q] = None /\ (search.at = "idle" \/ search'.moved)
      BY <2>2, LookInvalidatesNews, Zenon
    <3> QED
      BY <3>1, <3>2, CacheStays, Zenon
  <2>3. ASSUME NEW a \in Actors, Verify(a) PROVE CacheInv'
    <3>1. /\ \A q \in Paths : cache'[q] = cache[q] \/ cache'[q] = None
          /\ search'.at = search.at /\ search'.path = search.path /\ search'.copy = search.copy
          /\ search' = search \/ search'.moved
      BY <2>3, IndexEmptiesCache, Zenon
    <3>2. ASSUME NEW q \in Paths
          PROVE  \/ \A c : NoOlder(c, reader[q], overlay[q], evidence[q])
                              => NoOlder(c, reader'[q], overlay'[q], evidence'[q])
                 \/ cache'[q] = None /\ (search.at = "idle" \/ search'.moved)
      BY <2>3, LookInvalidatesNews, Zenon
    <3> QED
      BY <3>1, <3>2, CacheStays, Zenon
  <2>4. ASSUME (\E p \in Paths : TakeEvent(p)) \/ (\E p \in Paths : ReplayEvent(p)) \/ (\E a
               \in Actors : Defer(a)) \/ (\E a \in Actors : Enter(a))
        PROVE  CacheInv'
    <3>1. UNCHANGED <<cache, evidence, overlay, reader, search>>
      BY <2>4, Zenon DEF TakeEvent, ReplayEvent, Defer, Enter, index, searches
    <3> QED
      BY <1>0, <3>1
  <2> QED
    BY <1>4, <2>1, <2>2, <2>3, <2>4 DEF Events
<1>5. CASE Recovering
  <2>1. ASSUME RecoveryReplays \/ RecoveryScans \/ (\E p \in Paths : ScanOne(p)) \/
               RecoveryEnds
        PROVE  CacheInv'
    <3>1. UNCHANGED <<cache, evidence, overlay, reader, search>>
      BY <2>1, Zenon DEF RecoveryReplays, RecoveryScans, ScanOne, RecoveryEnds, index,
         searches
    <3> QED
      BY <1>0, <3>1
  <2> QED
    BY <1>5, <2>1 DEF Recovering
<1>6. CASE Ignoring
  <2>1. ASSUME IgnoreChecks \/ IgnoreWaits \/ IgnoreClears \/ IgnoreRechecks
        PROVE  CacheInv'
    <3>1. UNCHANGED <<cache, evidence, overlay, reader, search>>
      BY <2>1, Zenon DEF IgnoreChecks, IgnoreWaits, IgnoreClears, IgnoreRechecks, index,
         searches
    <3> QED
      BY <1>0, <3>1
  <2> QED
    BY <1>6, <2>1 DEF Ignoring
<1>7. CASE Begins
  <2>1. ASSUME StartupPass \/ IgnorePass \/ OverflowPass \/ DeferredPass \/ BuildPass \/
               ReloadPass
        PROVE  CacheInv'
    <3>1. UNCHANGED <<cache, evidence, overlay, reader, search>>
      BY <2>1, Zenon DEF StartupPass, BeginPass, IgnorePass, OverflowPass, DeferredPass,
         BuildPass,
          ReloadPass, index, searches
    <3> QED
      BY <1>0, <3>1
  <2> QED
    BY <1>7, <2>1 DEF Begins
<1>8. CASE Passing
  <2>1. ASSUME Publish PROVE CacheInv'
    <3>1. /\ \A q \in Paths : cache'[q] = cache[q] \/ cache'[q] = None
          /\ search'.at = search.at /\ search'.path = search.path /\ search'.copy = search.copy
          /\ search' = search \/ search'.moved
      BY <2>1, IndexEmptiesCache, Zenon
    <3>2. pass.at = "read"
      BY <2>1, PassMoves, Zenon
    <3>3. \/ /\ reader' = Merged /\ overlay' = Pruned
             /\ evidence' = Evidenced /\ Invalidate(Done)
          \/ UNCHANGED <<reader, overlay, evidence>>
      BY <2>1, Zenon DEF Publish, index
    <3>4. ASSUME NEW q \in Paths
          PROVE  \/ \A c : NoOlder(c, reader[q], overlay[q], evidence[q])
                              => NoOlder(c, reader'[q], overlay'[q], evidence'[q])
                 \/ cache'[q] = None /\ (search.at = "idle" \/ search'.moved)
      BY <3>2, <3>3, MergeInvalidatesNews, Zenon
    <3> QED
      BY <3>1, <3>4, CacheStays, Zenon
  <2>2. ASSUME (\E p \in Paths : Walk(p)) \/ (\E p \in Paths : Read(p)) \/ (\E p \in Paths :
               PassScans(p)) \/ Classify \/ EndPass \/ StartupYields
        PROVE  CacheInv'
    <3>1. UNCHANGED <<cache, evidence, overlay, reader, search>>
      BY <2>2, Zenon DEF Walk, Read, PassScans, Classify, EndPass, StartupYields, index,
         searches
    <3> QED
      BY <1>0, <3>1
  <2> QED
    BY <1>8, <2>1, <2>2 DEF Passing
<1>9. CASE Building
  <2>1. ASSUME BuildPublish PROVE CacheInv'
    <3>1. /\ \A q \in Paths : cache'[q] = cache[q] \/ cache'[q] = None
          /\ search'.at = search.at /\ search'.path = search.path /\ search'.copy = search.copy
          /\ search' = search \/ search'.moved
      BY <2>1, IndexEmptiesCache, Zenon
    <3>2. Invalidate(Paths) /\ Paths \in SUBSET Paths
      BY <2>1, Zenon DEF BuildPublish
    <3>3. ASSUME NEW q \in Paths
          PROVE  cache'[q] = None /\ (search.at = "idle" \/ search'.moved)
      <4>1. cache'[q] = None /\ (search.at # "idle" => search' = [search EXCEPT !.moved = TRUE])
        BY <3>2, Invalidates, Zenon
      <4> QED
        BY <4>1, SearchMarks, Zenon
    <3> QED
      BY <3>1, <3>3, CacheStays, Zenon
  <2>2. ASSUME (\E p \in Paths : BuildRead(p)) \/ BuildFails \/ BuildEnds
        PROVE  CacheInv'
    <3>1. UNCHANGED <<cache, evidence, overlay, reader, search>>
      BY <2>2, Zenon DEF BuildRead, BuildFails, BuildEnds, index, searches
    <3> QED
      BY <1>0, <3>1
  <2> QED
    BY <1>9, <2>1, <2>2 DEF Building
<1>10. CASE Reloading
  <2>1. ASSUME ReloadPublish PROVE CacheInv'
    <3>1. /\ \A q \in Paths : cache'[q] = cache[q] \/ cache'[q] = None
          /\ search'.at = search.at /\ search'.path = search.path /\ search'.copy = search.copy
          /\ search' = search \/ search'.moved
      BY <2>1, IndexEmptiesCache, Zenon
    <3>2. Invalidate(Paths) /\ Paths \in SUBSET Paths
      BY <2>1, Zenon DEF ReloadPublish
    <3>3. ASSUME NEW q \in Paths
          PROVE  cache'[q] = None /\ (search.at = "idle" \/ search'.moved)
      <4>1. cache'[q] = None /\ (search.at # "idle" => search' = [search EXCEPT !.moved = TRUE])
        BY <3>2, Invalidates, Zenon
      <4> QED
        BY <4>1, SearchMarks, Zenon
    <3> QED
      BY <3>1, <3>3, CacheStays, Zenon
  <2>2. ASSUME ReloadFails \/ ReloadReplays \/ ReloadRests
        PROVE  CacheInv'
    <3>1. UNCHANGED <<cache, evidence, overlay, reader, search>>
      BY <2>2, Zenon DEF ReloadFails, ReloadReplays, ReloadRests, index, searches
    <3> QED
      BY <1>0, <3>1
  <2> QED
    BY <1>10, <2>1, <2>2 DEF Reloading
<1>11. CASE Searching
  <2>1. ASSUME Load PROVE CacheInv'
    <3>1. UNCHANGED <<cache, reader, overlay, evidence>>
      BY <2>1, LoadDoes, Zenon
    <3>2. search'.at # "read"
      BY <2>1, SearchGoesOn, Zenon
    <3> QED
      BY <3>1, <3>2, Zenon DEF CacheInv
  <2>2. ASSUME ReadFile PROVE CacheInv'
    <3>1. UNCHANGED <<cache, reader, overlay, evidence>>
      BY <2>2, ReadFileDoes, Zenon
    <3>2. \/ search'.at = "idle"
          \/ /\ search'.at = "read" /\ search'.path = search.path
             /\ search'.copy = disk[search.path] /\ disk[search.path] \in Copies
             /\ search.path \in Paths
      <4>1. search.at = "missed"
        BY <2>2, Zenon DEF ReadFile
      <4>2. search.path \in Paths
        BY <4>1, Zenon DEF ThreadsOK
      <4> QED
        BY <2>2, <4>2, SearchGoesOn, Zenon
    <3>3. ASSUME NEW p \in Paths, disk[p] \in Copies
          PROVE  NoOlder(disk[p], reader[p], overlay[p], evidence[p])
      <4>1. /\ GoodCopy(disk[p], clock, reader[p]) /\ GoodCopy(disk[p], clock, overlay[p])
            /\ GoodEvidence(disk[p], clock, evidence[p]) /\ disk[p] # None
        BY <3>3, Sentinels, Zenon DEF VersionsInv, IndexVersions
      <4>2. /\ reader[p] \in Copies => reader[p].ver \in Versions
            /\ overlay[p] \in Copies => overlay[p].ver \in Versions
        BY Sentinels, Zenon
      <4> QED
        BY <4>1, <4>2, Zenon DEF NoOlder, GoodEvidence, GoodCopy, GoodVersion
    <3> QED
      BY <3>1, <3>2, <3>3, Zenon DEF CacheInv
  <2>3. ASSUME UpdateCache PROVE CacheInv'
    <3>1. UNCHANGED <<reader, overlay, evidence>>
      BY <2>3, UpdateCacheDoes, Zenon
    <3>2. search.at = "read" /\ search'.at = "idle" /\ search.path \in Paths
      BY <2>3, SearchGoesOn, SMT DEF ThreadsOK
    <3>3. \/ cache' = cache
          \/ ~search.moved /\ cache' = [cache EXCEPT ![search.path] = search.copy]
      BY <2>3, Zenon DEF UpdateCache
    <3>4. CASE cache' = cache
      BY <3>1, <3>2, <3>4, Zenon DEF CacheInv
    <3>5. CASE ~search.moved /\ cache' = [cache EXCEPT ![search.path] = search.copy]
      <4>1. \A q \in Paths : cache'[q] = IF q = search.path THEN search.copy ELSE cache[q]
        BY <3>5, SMT DEF TypeOK
      <4> QED
        BY <3>1, <3>2, <3>5, <4>1, Zenon DEF CacheInv
    <3> QED
      BY <3>3, <3>4, <3>5
  <2> QED
    BY <1>11, <2>1, <2>2, <2>3 DEF Searching
<1> QED
  BY <1>1, <1>2, <1>3, <1>4, <1>5, <1>6, <1>7, <1>8, <1>9, <1>10, <1>11 DEF Next, Progress

-----------------------------------------------------------------------------
(* The initial states. *)

\* At first no thread holds anything,
LEMMA InitControl == Init => ControlInv
<1> SUFFICES ASSUME Init PROVE ControlInv
  OBVIOUS
<1>1. /\ pending /\ ~reconcile /\ replaying = {} /\ recovery = "off" /\ tail = "off"
      /\ ignore = "off" /\ ~scheduled /\ deferred = Deferred({})
      /\ \A p \in Paths : cache[p] = None /\ overlay[p] = None
  BY Zenon DEF Init
<1>2. search.at = "idle"
  BY SMT DEF Init, NoSearch
<1>3. pass.by = "none" /\ pass.at = "none"
  BY NewPasses, Zenon DEF Init
<1>4. \A a \in Actors : act[a].at = "idle"
  BY SMT DEF Init, Idle
<1>5. \/ ~indexing /\ startup /\ build.by = "none"
      \/ indexing /\ ~startup /\ build.by = "startup"
  <2>1. \/ ~indexing /\ startup /\ build = NoBuild
        \/ indexing /\ ~startup /\ build = [NoBuild EXCEPT !.by = "startup", !.left = Paths]
    BY Starts, Zenon
  <2>2. [NoBuild EXCEPT !.by = "startup", !.left = Paths].by = "startup" /\ NoBuild.by = "none"
    BY SMT DEF NoBuild
  <2> QED
    BY <2>1, <2>2, Zenon
<1>6. BuildInv
  BY <1>1, <1>2, <1>3, <1>5, SMT DEF BuildInv
<1>7. GateInv
  BY <1>1, <1>3, <1>4, SMT DEF GateInv, Touching, Actors
<1>8. PendingInv
  BY <1>1, <1>4, <1>5, SMT DEF PendingInv, Touching
<1>9. QueueInv
  BY <1>1, Zenon DEF QueueInv
<1> QED
  BY <1>6, <1>7, <1>8, <1>9, Zenon DEF ControlInv

\* and the index is of an earlier run, or empty.
LEMMA InitKnowledge == Init => KnowledgeInv
<1> SUFFICES ASSUME Init PROVE KnowledgeInv
  OBVIOUS
<1>1. /\ \A p \in Paths : cache[p] = None /\ overlay[p] = None /\ memo[p] = None
  BY Zenon DEF Init
<1>2. search.at = "idle"
  BY SMT DEF Init, NoSearch
<1>3. /\ pass.at = "none"
      /\ \A p \in Paths : pass.seen[p] = None /\ pass.got[p] = None
  BY NewPasses, Zenon DEF Init
<1>4. \A a \in Actors : act[a].at = "idle"
  BY SMT DEF Init, Idle
<1>5. \A p \in Paths : build.got[p] = None
  <2>1. build = NoBuild \/ build = [NoBuild EXCEPT !.by = "startup", !.left = Paths]
    BY Starts, Zenon
  <2>2. [NoBuild EXCEPT !.by = "startup", !.left = Paths].got = NoBuild.got
    BY SMT DEF NoBuild
  <2> QED
    BY <2>1, <2>2, NewBuilds, Zenon
<1>6. ASSUME NEW p \in Paths
      PROVE  /\ GoodCopy(disk[p], clock, disk[p]) /\ GoodCopy(disk[p], clock, reader[p])
             /\ GoodEvidence(disk[p], clock, evidence[p])
             /\ GoodVersion(disk[p], clock, saved[p])
             /\ evidence[p].data # None => Visible(p) # None /\ Visible(p).data = evidence[p].data
             /\ evidence[p].ver = None => saved[p] \notin Versions
  <2>1. /\ clock \in Versions /\ disk[p] \in Copies \cup {None} /\ reader[p] \in Copies \cup {None}
        /\ disk[p] # None => disk[p].ver <= clock
        /\ evidence[p] = IF reader[p] = None THEN NoStamp
                         ELSE [ver |-> 0, data |-> reader[p].data]
        /\ saved[p] = evidence[p].ver
        /\ reader[p] # None => reader[p].ver = 0
        /\ reader[p] # None /\ disk[p] # None /\ disk[p].ver = 0 => disk[p] = reader[p]
    BY Starts, Zenon
  <2>2. GoodCopy(disk[p], clock, disk[p])
    BY <2>1, Sentinels, SMT DEF GoodCopy, GoodVersion
  <2>3. GoodCopy(disk[p], clock, reader[p])
    <3>1. CASE reader[p] = None
      BY <3>1, NothingIsGood, Zenon
    <3>2. CASE reader[p] \in Copies
      <4>1. 0 <= clock /\ (disk[p] # None => 0 <= disk[p].ver)
        BY <2>1, BoundsAssumption, SMT DEF Versions, Copies
      <4> QED
        BY <2>1, <3>2, <4>1, Sentinels, SMT DEF GoodCopy, GoodVersion
    <3> QED
      BY <2>1, <3>1, <3>2
  <2>4. Visible(p) = reader[p]
    BY <1>1, Zenon DEF Visible
  <2>5. CASE reader[p] = None
    <3>1. evidence[p] = NoStamp /\ saved[p] = NoStamp.ver
      BY <2>1, <2>5, Zenon
    <3>2. NoStamp.ver = None /\ NoStamp.data = None
      BY SMT DEF NoStamp
    <3>3. saved[p] = None /\ evidence[p].data = None
      BY <3>1, <3>2, Zenon
    <3> QED
      BY <2>2, <2>3, <3>1, <3>3, NothingIsGood, Sentinels, Zenon
  <2>6. CASE reader[p] \in Copies
    <3>1. evidence[p] = [ver |-> reader[p].ver, data |-> reader[p].data]
      BY <2>1, <2>6, Sentinels, Zenon
    <3>2. evidence[p].data = reader[p].data /\ evidence[p].ver = reader[p].ver
      BY <3>1, SMT
    <3>3. GoodEvidence(disk[p], clock, evidence[p]) /\ GoodVersion(disk[p], clock, reader[p].ver)
      BY <2>3, <2>6, <3>1, CopyIsEvidence, Zenon
    <3> QED
      BY <2>1, <2>2, <2>3, <2>4, <2>6, <3>2, <3>3, Sentinels, Zenon
  <2> QED
    BY <2>1, <2>5, <2>6
<1>7. VersionsInv
  BY <1>1, <1>3, <1>4, <1>5, <1>6, NothingIsGood, Zenon
     DEF VersionsInv, IndexVersions, HandVersions, PassVersions, BuildVersions
<1>8. IndexInv
  BY <1>1, <1>4, <1>6, Sentinels, Zenon DEF IndexInv, KnownInv, GoneInv
<1>9. ReadInv /\ MemoInv /\ CacheInv
  BY <1>1, <1>2, <1>3, Sentinels, Zenon DEF ReadInv, MemoInv, CacheInv
<1> QED
  BY <1>7, <1>8, <1>9, Zenon DEF KnowledgeInv

-----------------------------------------------------------------------------
(* What the invariant says of the index. *)

\* Evidence is honest,
LEMMA HonestByInv == TypeOK /\ VersionsInv /\ IndexInv => EvidenceIsHonest
<1> SUFFICES ASSUME TypeOK, VersionsInv, IndexInv, NEW p \in Paths
             PROVE  /\ evidence[p].data # None =>
                         Visible(p) # None /\ Visible(p).data = evidence[p].data
                    /\ evidence[p].ver \in Versions /\ evidence[p].ver = VersionOn(p) => Fresh(p)
  BY Zenon DEF EvidenceIsHonest
<1>1. evidence[p].data # None => Visible(p) # None /\ Visible(p).data = evidence[p].data
  BY Zenon DEF IndexInv, KnownInv
<1>2. ASSUME evidence[p].ver \in Versions, evidence[p].ver = VersionOn(p)
      PROVE  Fresh(p)
  <2>1. disk[p] \in Copies /\ evidence[p].ver = disk[p].ver /\ disk[p] # None
    BY <1>2, Sentinels, Zenon DEF VersionOn
  <2>2. evidence[p] \in Copies /\ GoodCopy(disk[p], clock, evidence[p])
    BY <1>2, Zenon DEF VersionsInv, IndexVersions, GoodEvidence
  <2>3. evidence[p].data = disk[p].data /\ evidence[p].data # None
    BY <2>1, <2>2, Sentinels, Zenon DEF GoodCopy
  <2> QED
    BY <1>1, <2>1, <2>3, Zenon DEF Fresh
<1> QED
  BY <1>1, <1>2

\* what is wrong can be seen,
LEMMA DetectableByInv == TypeOK /\ VersionsInv /\ IndexInv => StaleIsDetectable
<1> SUFFICES ASSUME TypeOK, VersionsInv, IndexInv, NEW p \in Paths, ~Fresh(p)
             PROVE  IF disk[p] = None THEN Old(p) # None \/ Indexed(p) ELSE Old(p) # VersionOn(p)
  BY Zenon DEF StaleIsDetectable
<1>0. overlay[p] \in Copies \cup {None, Tombstone} /\ disk[p] \in Copies \cup {None}
  BY Zenon DEF TypeOK
<1>1. CASE disk[p] = None
  <2>1. Visible(p) # None
    BY <1>1, Zenon DEF Fresh
  <2> QED
    BY <1>0, <1>1, <2>1, Zenon DEF Visible, Indexed
<1>2. CASE disk[p] # None
  <2>1. VersionOn(p) = disk[p].ver /\ disk[p] \in Copies /\ disk[p].ver \in Versions
    BY <1>0, <1>2, Sentinels, Zenon DEF VersionOn
  <2>2. CASE evidence[p].ver # None
    <3>1. Old(p) = evidence[p].ver
      BY <2>2, Zenon DEF Old
    <3>2. evidence[p].ver # VersionOn(p)
      BY <2>1, HonestByInv, Zenon DEF EvidenceIsHonest
    <3> QED
      BY <1>2, <3>1, <3>2, Zenon
  <2>3. CASE evidence[p].ver = None
    <3>1. SUFFICES ASSUME saved[p] = VersionOn(p) PROVE FALSE
      BY <1>2, <2>3, Zenon DEF Old
    <3>2. overlay[p] = None /\ reader[p] \in Copies /\ reader[p].ver = saved[p]
      BY <2>1, <2>3, <3>1, Zenon DEF IndexInv, KnownInv
    <3>3. reader[p].data = disk[p].data
      BY <1>2, <2>1, <3>1, <3>2, Zenon DEF VersionsInv, IndexVersions, GoodCopy
    <3>4. Visible(p) = reader[p] /\ reader[p] # None
      BY <3>2, Sentinels, Zenon DEF Visible
    <3> QED
      BY <1>2, <3>3, <3>4, Zenon DEF Fresh
  <2> QED
    BY <2>2, <2>3
<1> QED
  BY <1>1, <1>2

\* and the cache is no older.
LEMMA NoOlderByInv == TypeOK /\ CacheInv => CacheIsNoOlder
<1> SUFFICES ASSUME TypeOK, CacheInv, NEW p \in Paths, cache[p] # None
             PROVE  /\ Visible(p) # None => cache[p].ver >= Visible(p).ver
                    /\ evidence[p].ver \in Versions => cache[p].ver >= evidence[p].ver
  BY Zenon DEF CacheIsNoOlder
<1>1. NoOlder(cache[p], reader[p], overlay[p], evidence[p])
  BY Zenon DEF CacheInv
<1>2. cache[p] \in Copies /\ cache[p].ver \in Int
  BY Sentinels, Zenon DEF TypeOK
<1>3. Visible(p) # None => Visible(p) \in Copies /\ Visible(p) \in {reader[p], overlay[p]}
  BY Zenon DEF Visible, TypeOK
<1>4. Visible(p) # None => Visible(p).ver <= cache[p].ver /\ Visible(p).ver \in Int
  BY <1>1, <1>3, Sentinels, Zenon DEF NoOlder
<1>5. evidence[p].ver \in Versions => evidence[p].ver <= cache[p].ver /\ evidence[p].ver \in Int
  BY <1>1, Sentinels, Zenon DEF NoOlder
<1> QED
  BY <1>2, <1>4, <1>5, SMT

-----------------------------------------------------------------------------
(* The theorems. *)

\* Each part of the invariant is kept; these put the parts together.
LEMMA ControlStep == TypeOK /\ ThreadsOK /\ ControlInv /\ [Next]_vars => ControlInv'
BY BuildInvStep, GateInvStep, PendingInvStep, QueueInvStep, Zenon DEF ControlInv

\* The index, what is known of it, and the cache.
LEMMA KnowledgeStep ==
  TypeOK /\ ThreadsOK /\ ControlInv /\ KnowledgeInv /\ [Next]_vars => KnowledgeInv'
BY VersionsStep, KnownInvStep, GoneInvStep, ReadInvStep, MemoInvStep, CacheInvStep, Zenon
   DEF KnowledgeInv, IndexInv

\* Every variable keeps its type at every step of every thread; a merge never
\* leaves in the index what it could not read (stream_merge_stale_changes).
THEOREM TypeCorrect == Spec => [](TypeOK /\ ThreadsOK)
<1>1. Init => TypeOK /\ ThreadsOK
  BY TypeInit
<1>2. (TypeOK /\ ThreadsOK) /\ [Next]_vars => (TypeOK /\ ThreadsOK)'
  BY TypeStep, Zenon
<1> QED
  BY <1>1, <1>2, PTL DEF Spec

\* The gate, the threads and the flags agree: a pass, a save, a reload and a
\* build exclude each other and every event being indexed (snapshot_gate),
\* nothing is indexed from events before the first matcher is published, and
\* deferred events have somebody who replays them.
THEOREM ControlCorrect == Spec => []ControlInv
<1> DEFINE C == TypeOK /\ ThreadsOK /\ ControlInv
<1>1. Init => C
  BY TypeInit, InitControl, Zenon
<1>2. C /\ [Next]_vars => C'
  BY TypeStep, ControlStep, Zenon
<1>3. C => ControlInv
  OBVIOUS
<1> HIDE DEF C
<1> QED
  BY <1>1, <1>2, <1>3, PTL DEF Spec

\* What the index, its evidence, the passes and the cache know of each file is
\* never newer than what was read, and always of the content indexed.
THEOREM KnowledgeCorrect == Spec => [](TypeOK /\ ControlInv /\ KnowledgeInv)
<1> DEFINE C == TypeOK /\ ThreadsOK /\ ControlInv /\ KnowledgeInv
<1>1. Init => C
  BY TypeInit, InitControl, InitKnowledge, Zenon
<1>2. C /\ [Next]_vars => C'
  BY TypeStep, ControlStep, KnowledgeStep, Zenon
<1>3. C => TypeOK /\ ControlInv /\ KnowledgeInv
  OBVIOUS
<1> HIDE DEF C
<1> QED
  BY <1>1, <1>2, <1>3, PTL DEF Spec

\* Evidence identifies content only as what is indexed, and gives a file's
\* current version only where the index holds what the file holds: merges keep
\* the stamps from before their walk, and failed reads withdraw them.
THEOREM HonestEvidence == Spec => []EvidenceIsHonest
<1>1. TypeOK /\ ControlInv /\ KnowledgeInv => EvidenceIsHonest
  BY HonestByInv, Zenon DEF KnowledgeInv
<1> QED
  BY <1>1, KnowledgeCorrect, PTL

\* A refresh that looks at metadata alone (classify_evidence_changes) finds
\* every file the index has wrong.
THEOREM DetectableStaleness == Spec => []StaleIsDetectable
<1>1. TypeOK /\ ControlInv /\ KnowledgeInv => StaleIsDetectable
  BY DetectableByInv, Zenon DEF KnowledgeInv
<1> QED
  BY <1>1, KnowledgeCorrect, PTL

\* A search that reads a file around an invalidation leaves nothing in the
\* cache that is older than the index (update_content_cache's generation).
THEOREM CurrentCache == Spec => []CacheIsNoOlder
<1>1. TypeOK /\ ControlInv /\ KnowledgeInv => CacheIsNoOlder
  BY NoOlderByInv, Zenon DEF KnowledgeInv
<1> QED
  BY <1>1, KnowledgeCorrect, PTL

=============================================================================
