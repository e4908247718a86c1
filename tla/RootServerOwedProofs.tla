------------------------ MODULE RootServerOwedProofs ------------------------
(***************************************************************************)
(* The last part of RootServer's invariant: every file the index has wrong *)
(* is owed a look.  What settles a file comes first, then each action: it  *)
(* leaves the file covered by what covered it, hands it on, or settles it. *)
(***************************************************************************)
EXTENDS RootServerProofs

-----------------------------------------------------------------------------
(* What is owed. *)

\* A pass drops the request it answers only if the poller is in charge.
LEMMA BeginsKeepDirty ==
  ASSUME Begins \/ PeriodicPass
  PROVE  polling \/ dirty' = dirty
<1> USE DEF BeginPass
<1>1. CASE StartupPass
  BY <1>1, Zenon DEF StartupPass
<1>2. CASE IgnorePass
  BY <1>2, Zenon DEF IgnorePass
<1>3. CASE OverflowPass
  BY <1>3, Zenon DEF OverflowPass
<1>4. CASE DeferredPass
  BY <1>4, Zenon DEF DeferredPass
<1>5. CASE BuildPass
  BY <1>5, Zenon DEF BuildPass
<1>6. CASE ReloadPass
  BY <1>6, Zenon DEF ReloadPass
<1>7. CASE PeriodicPass
  BY <1>7, Zenon DEF PeriodicPass
<1> QED
  BY <1>1, <1>2, <1>3, <1>4, <1>5, <1>6, <1>7 DEF Begins

\* Nothing is left of a file that is gone, once its entry is dropped.
LEMMA DropSettles ==
  ASSUME TypeOK, ThreadsOK, NEW p \in Paths, Drop(p), disk[p] = None, UNCHANGED disk
  PROVE  Settled(p)'
<1>1. evidence'[p] = NoStamp /\ Visible(p)' = None
  BY Drops, Zenon
<1>2. overlay'[p] \notin Copies
  BY <1>1, Sentinels, Zenon DEF Visible
<1>3. evidence'[p].ver = None
  BY <1>1, SMT DEF NoStamp
<1>4. Same(disk'[p], Visible(p)')
  BY <1>1, Zenon DEF Same
<1>5. Firm(overlay'[p], evidence'[p])
  BY <1>2, <1>3, Sentinels, Zenon DEF Firm
<1> QED
  BY <1>4, <1>5, Zenon DEF Settled

\* What is verified is what the file holds.
LEMMA CommitSettles ==
  ASSUME TypeOK, ThreadsOK, VersionsInv, IndexInv, NEW a \in Actors, NEW p \in Paths,
         act[a].path = p, act[a].at = "verify",
         VersionOn(p) = act[a].copy.ver, Commit(p, act[a].copy), UNCHANGED disk
  PROVE  Settled(p)'
<1> DEFINE c == act[a].copy
<1>1. c \in Copies /\ c.ver \in Versions /\ GoodCopy(disk[p], clock, c)
  BY Sentinels, Zenon DEF ThreadsOK, VersionsInv, HandVersions
<1>2. disk[p] \in Copies /\ disk[p] # None /\ disk[p].ver = c.ver
  BY <1>1, Sentinels, Zenon DEF VersionOn
<1>3. disk[p].data = c.data
  BY <1>1, <1>2, Zenon DEF GoodCopy
<1>4. /\ reader' = reader /\ evidence'[p] = [ver |-> c.ver, data |-> c.data]
      /\ \/ overlay'[p] = c
         \/ /\ overlay'[p] = overlay[p] /\ overlay[p] \in Copies
            /\ overlay[p].data = c.data
         \/ /\ overlay'[p] = overlay[p] /\ overlay[p] = None
            /\ reader[p] # None /\ evidence[p].data = c.data
  BY <1>1, Commits, Zenon
<1>5. evidence'[p].ver = c.ver
  BY <1>4, SMT
<1>6. Visible(p)' \in Copies /\ Visible(p)'.data = c.data
  <2>1. CASE overlay'[p] \in Copies /\ overlay'[p].data = c.data
    BY <2>1, Sentinels, Zenon DEF Visible
  <2>2. CASE overlay'[p] = overlay[p] /\ overlay[p] = None /\ reader[p] # None /\ evidence[p].data = c.data
    <3>1. reader[p] \in Copies /\ Visible(p) = reader[p] /\ Visible(p)' = reader[p]
      BY <1>4, <2>2, Zenon DEF Visible, TypeOK
    <3>2. Visible(p).data = evidence[p].data
      BY <1>1, <2>2, Sentinels, Zenon DEF IndexInv, KnownInv
    <3> QED
      BY <2>2, <3>1, <3>2, Zenon
  <2> QED
    BY <1>1, <1>4, <2>1, <2>2, Zenon
<1>7. Same(disk'[p], Visible(p)') /\ Firm(overlay'[p], evidence'[p])
  BY <1>1, <1>2, <1>3, <1>5, <1>6, Sentinels, Zenon DEF Same, Firm
<1> QED
  BY <1>7, Zenon DEF Settled

\* A file whose version is known is settled.
LEMMA KnownIsSettled ==
  ASSUME TypeOK, VersionsInv, IndexInv, NEW p \in Paths, disk[p] # None,
         evidence[p].ver = VersionOn(p)
  PROVE  Settled(p)
<1>1. disk[p] \in Copies /\ VersionOn(p) = disk[p].ver /\ disk[p].ver \in Versions
  BY Sentinels, Zenon DEF TypeOK, VersionOn
<1>2. Fresh(p)
  BY <1>1, HonestByInv, Zenon DEF EvidenceIsHonest
<1>3. Visible(p) \in Copies \cup {None}
  BY Zenon DEF TypeOK, Visible
<1>4. Same(disk[p], Visible(p))
  BY <1>2, <1>3, Zenon DEF Same, Fresh
<1> QED
  BY <1>1, <1>4, Sentinels, Zenon DEF Settled, Firm

\* A look at a file settles it, holds on to it, or leaves it owed,
LEMMA LookSettles ==
  ASSUME TypeOK, ThreadsOK, ControlInv, VersionsInv, IndexInv, DropInv, NEW a \in Actors,
         Open(a) \/ Verify(a) \/ DropGone(a), NEW p \in Paths, p = act[a].path
  PROVE  Covered(p)' \/ Settled(p)'
<1>0. ASSUME RetryLater(p), Open(a) \/ Verify(a) PROVE Covered(p)'
  <2>1. dirty' = TRUE /\ Schedule
    BY <1>0, Zenon DEF RetryLater
  <2>2. polling \/ scheduled'
    <3>1. CASE polling \/ scheduled
      <4>1. scheduled' = scheduled
        BY <2>1, <3>1, Zenon DEF Schedule
      <4> QED
        BY <3>1, <4>1, Zenon
    <3>2. CASE ~(polling \/ scheduled)
      <4>1. scheduled' = TRUE
        BY <2>1, <3>2, Zenon DEF Schedule
      <4> QED
        BY <4>1, Zenon
    <3> QED
      BY <3>1, <3>2
  <2>3. polling' = polling
    BY <1>0, OpenDoes, VerifyDoes, Zenon
  <2> QED
    BY <2>1, <2>2, <2>3, Zenon DEF Covered, Lasting
<1>1. CASE Open(a)
  <2>0. disk' = disk /\ act[a].at = "open"
    BY <1>1, OpenDoes, Zenon
  <2>1. \/ disk[p] = None /\ Drop(p)
        \/ /\ disk[p] # None /\ evidence[p].ver = VersionOn(p)
           /\ UNCHANGED <<reader, overlay, evidence>>
        \/ act' = [act EXCEPT ![a].at = "verify", ![a].copy = disk[p]] /\ disk[p] # None
        \/ RetryLater(p)
    BY <1>1, Zenon DEF Open, index
  <2>2. CASE disk[p] = None /\ Drop(p)
    BY <2>0, <2>2, DropSettles, Zenon
  <2>3. CASE disk[p] # None /\ evidence[p].ver = VersionOn(p) /\ UNCHANGED <<reader, overlay, evidence>>
    BY <2>0, <2>3, KnownIsSettled, Zenon DEF Settled, Visible
  <2>4. CASE act' = [act EXCEPT ![a].at = "verify", ![a].copy = disk[p]] /\ disk[p] # None
    <3>1. disk[p] \in Copies
      BY <2>4, Zenon DEF TypeOK
    <3>2. act'[a].at = "verify" /\ act'[a].path = p
      BY <2>4, <3>1, Keeps, Zenon
    <3> QED
      BY <3>2, Zenon DEF Covered, Lasting, InHand
  <2> QED
    BY <1>0, <1>1, <2>1, <2>2, <2>3, <2>4, Zenon
<1>2. CASE Verify(a)
  <2>0. disk' = disk /\ act[a].at = "verify"
    BY <1>2, VerifyDoes, Zenon
  <2>1. \/ VersionOn(p) = act[a].copy.ver /\ Commit(p, act[a].copy)
        \/ disk[p] = None /\ Drop(p)
        \/ RetryLater(p)
    BY <1>2, Zenon DEF Verify
  <2> QED
    BY <1>0, <1>2, <2>0, <2>1, DropSettles, CommitSettles, Zenon
<1>3. CASE DropGone(a)
  <2>0. /\ disk' = disk /\ act[a].at = "drop" /\ UNCHANGED <<queue, overflowed, polling>>
        /\ a = "replay" /\ disk[p] # None => p \in excused'
    BY <1>3, DropGoneDoes, Zenon
  <2>1. Drop(p)
    BY <1>3, Zenon DEF DropGone
  <2>2. CASE disk[p] = None
    BY <2>0, <2>1, <2>2, DropSettles, Zenon
  <2>3. CASE disk[p] # None
    <3>1. a # "scan"
      BY <2>0, SMT DEF ControlInv, GateInv
    <3>2. a = "replay" \/ p \in queue \/ overflowed \/ polling
      BY <2>0, <2>3, <3>1, Zenon DEF Actors, DropInv
    <3> QED
      BY <2>0, <2>3, <3>2, Zenon DEF Covered, Lasting
  <2> QED
    BY <2>2, <2>3
<1> QED
  BY <1>1, <1>2, <1>3

\* and leaves what is owed or settled of every other file.
LEMMA LookLeaves ==
  ASSUME TypeOK, ThreadsOK, ControlInv, NEW a \in Actors,
         Open(a) \/ Verify(a) \/ DropGone(a), NEW q \in Paths, q # act[a].path
  PROVE  /\ Covered(q) => Covered(q)'
         /\ Settled(q) => Settled(q)'
<1>1. /\ UNCHANGED <<polling, queue, overflowed, replaying, deferred, scanning, reconcile,
                     startup, pass, build, recheck, tail, disk>>
      /\ \A b \in Actors \ {a} : act'[b] = act[b]
      /\ excused \subseteq excused'
      /\ dirty => dirty'
      /\ scheduled => UNCHANGED <<scheduled, ignore>>
  <2>1. CASE Open(a)
    BY <2>1, OpenDoes, Zenon
  <2>2. CASE Verify(a)
    BY <2>2, VerifyDoes, Zenon
  <2>3. CASE DropGone(a)
    BY <2>3, DropGoneDoes, Zenon
  <2> QED
    BY <2>1, <2>2, <2>3
<1>2. ignore \in {"wait", "run"} => scheduled
  BY SMT DEF ControlInv, QueueInv
<1>3. InHand(q) => InHand(q)'
  BY <1>1, Zenon DEF InHand
<1>4. Covered(q) => Covered(q)'
  BY <1>1, <1>2, <1>3, Zenon DEF Covered, Lasting
<1>5. reader' = reader /\ overlay'[q] = overlay[q] /\ evidence'[q] = evidence[q]
  BY LooksAt, Zenon
<1> QED
  BY <1>1, <1>4, <1>5, Zenon DEF Settled, Visible

\* Where a step may leave what was owed about a file: it is still owed, a pass
\* that owes it begins, or somebody looked and the file is settled.
Remains(p) ==
  \/ Covered(p)'
  \/ pass.by = "none" /\ PassOwes'
  \/ (\E a \in Actors : act[a].at \in Touching) /\ Settled(p)'

\* What is owed about a file remains so.
LEMMA CoveredStays ==
  TypeOK /\ ThreadsOK /\ ControlInv /\ KnowledgeInv /\ OwedInv /\ [Next]_vars => (\A q \in Paths : Covered(q) => Remains(q))
<1> SUFFICES ASSUME TypeOK, ThreadsOK, ControlInv, KnowledgeInv, OwedInv, [Next]_vars
             PROVE  \A q \in Paths : Covered(q) => Remains(q)
  OBVIOUS
<1>t. excused \subseteq Paths
  BY Zenon DEF TypeOK
<1>i. ignore \in {"wait", "run"} => scheduled
  BY SMT DEF ControlInv, QueueInv
<1>g. pass.by = "ignore" => ignore = "run"
  BY Zenon DEF ControlInv, GateInv
<1>b. /\ pass.by = "reload" <=> build.by = "reload"
      /\ pass.by = "build" => build.by = "published"
      /\ build.by # "none" => tail = "off"
      /\ indexing <=> build.by # "none"
  BY Zenon DEF ControlInv, BuildInv
<1>w. Actors = {"watcher", "replay", "scan"}
  BY DEF Actors
<1>k. VersionsInv /\ IndexInv /\ DropInv
  BY Zenon DEF KnowledgeInv, OwedInv
<1>0. ASSUME UNCHANGED <<act, build, deferred, dirty, excused, ignore, overflowed,
                              pass, polling, queue, recheck, reconcile, replaying, scanning,
                              scheduled, startup, tail>> PROVE \A q \in Paths : Covered(q) => Remains(q)
  BY <1>0, Zenon DEF Remains, Covered, Lasting, InHand
<1>1. CASE UNCHANGED vars
  <2>1. UNCHANGED <<act, build, deferred, dirty, excused, ignore, overflowed, pass, polling,
                  queue, recheck, reconcile, replaying, scanning, scheduled, startup, tail>>
    BY <1>1 DEF vars, notices, refreshes, replays, due, bounds
  <2> QED
    BY <1>0, <2>1
<1>2. CASE Environment
  <2>1. ASSUME NEW p \in Paths, NEW d \in Contents, Write(p, d) PROVE \A q \in Paths : Covered(q) => Remains(q)
    <3>1. /\ queue \subseteq queue'
          /\ overflowed => overflowed'
          /\ pass'.by = pass.by
          /\ build'.by = build.by
          /\ UNCHANGED <<polling, excused, replaying, act, deferred, scanning, reconcile,
             startup, dirty, scheduled, recheck, ignore, tail>>
      BY <2>1, WriteDoes, Zenon
    <3>2. ASSUME NEW q \in Paths, Covered(q) PROVE Covered(q)'
      BY <3>1, <3>2, Zenon DEF Covered, Lasting, InHand
    <3> QED
      BY <3>2, Zenon DEF Remains
  <2>2. ASSUME NEW p \in Paths, Remove(p) PROVE \A q \in Paths : Covered(q) => Remains(q)
    <3>1. /\ queue \subseteq queue'
          /\ overflowed => overflowed'
          /\ pass'.by = pass.by
          /\ build'.by = build.by
          /\ UNCHANGED <<polling, excused, replaying, act, deferred, scanning, reconcile,
             startup, dirty, scheduled, recheck, ignore, tail>>
      BY <2>2, RemoveDoes, Zenon
    <3>2. ASSUME NEW q \in Paths, Covered(q) PROVE Covered(q)'
      BY <3>1, <3>2, Zenon DEF Covered, Lasting, InHand
    <3> QED
      BY <3>2, Zenon DEF Remains
  <2>3. ASSUME RulesEvent PROVE \A q \in Paths : Covered(q) => Remains(q)
    <3>1. /\ dirty'
          /\ scheduled => scheduled'
          /\ ignore \in {"wait", "run"} => ignore' = ignore
          /\ pass'.by = pass.by
          /\ build'.by = build.by
          /\ UNCHANGED <<polling, excused, queue, overflowed, replaying, act, deferred,
             scanning, reconcile, startup, recheck, tail>>
      BY <2>3, <1>i, RulesEventDoes, Zenon
    <3>2. ASSUME NEW q \in Paths, Covered(q) PROVE Covered(q)'
      BY <3>1, <3>2, Zenon DEF Covered, Lasting, InHand
    <3> QED
      BY <3>2, Zenon DEF Remains
  <2>4. ASSUME TurnToPolling PROVE \A q \in Paths : Covered(q) => Remains(q)
    <3>1. polling'
      BY <2>4, TurnToPollingDoes, Zenon
    <3> QED
      BY <3>1, Zenon DEF Remains, Covered
  <2>5. ASSUME BeginReload PROVE \A q \in Paths : Covered(q) => Remains(q)
    <3>1. /\ pass'.by = "reload"
          /\ build.by = "none"
          /\ UNCHANGED <<polling, excused, queue, overflowed, replaying, act, deferred,
             scanning, reconcile, startup, dirty, scheduled, recheck, ignore, tail>>
      BY <2>5, <1>b, BeginReloadDoes, PassMoves, SMT
    <3>2. ASSUME NEW q \in Paths, Covered(q) PROVE Covered(q)'
      BY <3>1, <3>2, Zenon DEF Covered, Lasting, InHand
    <3> QED
      BY <3>2, Zenon DEF Remains
  <2>6. ASSUME PeriodicPass PROVE \A q \in Paths : Covered(q) => Remains(q)
    <3>1. /\ pass'.by = "periodic" /\ build'.by = build.by
          /\ polling \/ dirty' = dirty
          /\ UNCHANGED <<polling, excused, queue, overflowed, replaying, act, deferred,
             scanning, reconcile, startup, scheduled, recheck, ignore, tail>>
      BY <2>6, BeginsKeepDirty, PeriodicPassDoes, Zenon DEF Begins
    <3>2. CASE polling
      BY <3>1, <3>2, Zenon DEF Remains, Covered
    <3>3. CASE dirty' = dirty
      <4>1. ASSUME NEW q \in Paths, Covered(q) PROVE Covered(q)'
        BY <3>1, <3>3, <4>1, Zenon DEF Covered, Lasting, InHand
      <4> QED
        BY <4>1, Zenon DEF Remains
    <3> QED
      BY <3>1, <3>2, <3>3
  <2>7. ASSUME BeginSave PROVE \A q \in Paths : Covered(q) => Remains(q)
    <3>1. /\ pass'.by = "autosave"
          /\ build'.by = build.by
          /\ build'.by = build.by
          /\ UNCHANGED <<polling, excused, queue, overflowed, replaying, act, deferred,
             scanning, reconcile, startup, dirty, scheduled, recheck, ignore, tail>>
      BY <2>7, PassSaves, BeginSaveDoes, Zenon
    <3>2. ASSUME NEW q \in Paths, Covered(q) PROVE Covered(q)'
      BY <3>1, <3>2, Zenon DEF Covered, Lasting, InHand
    <3> QED
      BY <3>2, Zenon DEF Remains
  <2>8. ASSUME (\E p \in Paths : Admit(p))
        PROVE  \A q \in Paths : Covered(q) => Remains(q)
    <3>1. UNCHANGED <<act, build, deferred, dirty, excused, ignore, overflowed, pass,
                    polling, queue, recheck, reconcile, replaying, scanning, scheduled,
                    startup, tail>>
      BY <2>8, Zenon DEF Admit, SearchFrame, notices, refreshes, replays, due, bounds
    <3> QED
      BY <1>0, <3>1
  <2> QED
    BY <1>2, <2>1, <2>2, <2>3, <2>4, <2>5, <2>6, <2>7, <2>8 DEF Environment
<1>3. CASE Checkpoint
  <2>1. UNCHANGED <<act, build, deferred, dirty, excused, ignore, overflowed, pass, polling,
                  queue, recheck, reconcile, replaying, scanning, scheduled, startup, tail>>
    BY <1>3, Zenon DEF Checkpoint, notices, refreshes, replays, due, bounds
  <2> QED
    BY <1>0, <2>1
<1>4. CASE Events
  <2>1. ASSUME NEW p \in Paths, TakeEvent(p) PROVE \A q \in Paths : Covered(q) => Remains(q)
    <3>1. /\ \A c \in Actors : act[c].at # "idle" => act'[c] = act[c]
          /\ "watcher" \in Actors
          /\ queue' = queue \ {p}
          /\ polling \/ (act'["watcher"].at # "idle" /\ act'["watcher"].path = p)
          /\ pass'.by = pass.by
          /\ build'.by = build.by
          /\ UNCHANGED <<polling, excused, overflowed, replaying, deferred, scanning,
             reconcile, startup, dirty, scheduled, recheck, ignore, tail>>
      BY <2>1, <1>w, TakeEventDoes, SMT
    <3>2. ASSUME NEW q \in Paths, Covered(q) PROVE Covered(q)'
      BY <3>1, <3>2, Zenon DEF Covered, Lasting, InHand
    <3> QED
      BY <3>2, Zenon DEF Remains
  <2>2. ASSUME NEW p \in Paths, ReplayEvent(p) PROVE \A q \in Paths : Covered(q) => Remains(q)
    <3>1. /\ \A c \in Actors : act[c].at # "idle" => act'[c] = act[c]
          /\ "replay" \in Actors
          /\ replaying' = replaying \ {p}
          /\ polling \/ (act'["replay"].at # "idle" /\ act'["replay"].path = p)
          /\ pass'.by = pass.by
          /\ build'.by = build.by
          /\ UNCHANGED <<polling, excused, queue, overflowed, deferred, scanning, reconcile,
             startup, dirty, scheduled, recheck, ignore, tail>>
      BY <2>2, <1>w, ReplayEventDoes, SMT
    <3>2. ASSUME NEW q \in Paths, Covered(q) PROVE Covered(q)'
      BY <3>1, <3>2, Zenon DEF Covered, Lasting, InHand
    <3> QED
      BY <3>2, Zenon DEF Remains
  <2>3. ASSUME NEW a \in Actors, Defer(a) PROVE \A q \in Paths : Covered(q) => Remains(q)
    <3>1. /\ \A c \in Actors \ {a} : act'[c] = act[c]
          /\ ~indexing => act'[a].at = "gate" /\ act'[a].path = act[a].path /\ deferred' =
             deferred
          /\ indexing => deferred' \in {Overflown, Deferred(deferred.paths \cup
             {act[a].path})} /\ (deferred.all => deferred' = Overflown)
          /\ deferred' # deferred => indexing
          /\ pass'.by = pass.by
          /\ build'.by = build.by
          /\ UNCHANGED <<polling, excused, queue, overflowed, replaying, scanning,
             reconcile, startup, dirty, scheduled, recheck, ignore, tail>>
      BY <2>3, DeferDoes, Zenon
    <3>2. deferred.all => deferred'.all
      BY <3>1, SMT DEF Overflown
    <3>3. indexing => /\ \A q \in deferred.paths : deferred'.all \/ q \in deferred'.paths
                      /\ deferred'.all \/ act[a].path \in deferred'.paths
      BY <3>1, SMT DEF Overflown, Deferred
    <3>4. ASSUME NEW q \in Paths, Covered(q) PROVE Covered(q)'
      <4>1. CASE indexing
        BY <3>1, <3>2, <3>3, <3>4, <4>1, Zenon DEF Covered, Lasting, InHand
      <4>2. CASE ~indexing
        <5>1. act'[a].at # "idle"
          BY <3>1, <4>2, SMT
        <5> QED
          BY <3>1, <3>4, <4>2, <5>1, Zenon DEF Covered, Lasting, InHand
      <4> QED
        BY <4>1, <4>2
    <3> QED
      BY <3>4, Zenon DEF Remains
  <2>4. ASSUME NEW a \in Actors, Enter(a) PROVE \A q \in Paths : Covered(q) => Remains(q)
    <3>1. /\ pass.by = "none"
          /\ excused \subseteq excused'
          /\ \A c \in Actors \ {a} : act'[c] = act[c]
          /\ act'[a].at = "idle" \/ act'[a].path = act[a].path
          /\ act'[a].at # "idle" \/ pending \/ act[a].path \in excused'
          /\ pass'.by = pass.by
          /\ build'.by = build.by
          /\ UNCHANGED <<polling, queue, overflowed, replaying, deferred, scanning,
             reconcile, startup, dirty, scheduled, recheck, ignore, tail>>
      BY <2>4, EnterDoes, Zenon
    <3>2. ASSUME pending, NEW q \in Paths PROVE Covered(q)'
      <4>1. polling \/ startup \/ build.by \in {"startup", "failed"} \/ excused = Paths
        BY <3>2, Zenon DEF ControlInv, PendingInv
      <4>2. pass'.by # "startup"
        BY <3>1, SMT
      <4> QED
        BY <3>1, <4>1, <4>2, Zenon DEF Covered, Lasting
    <3>3. ASSUME ~pending, NEW q \in Paths, Covered(q) PROVE Covered(q)'
      BY <3>1, <3>3, Zenon DEF Covered, Lasting, InHand
    <3> QED
      BY <3>2, <3>3, Zenon DEF Remains
  <2>5. ASSUME NEW a \in Actors, DropGone(a) PROVE \A q \in Paths : Covered(q) => Remains(q)
    <3>1. act[a].at \in Touching
      BY <2>5, DropGoneDoes, Zenon DEF Touching
    <3>2. ASSUME NEW q \in Paths, Covered(q) PROVE Covered(q)' \/ Settled(q)'
      <4>1. CASE q = act[a].path
        BY <2>5, <4>1, <1>k, LookSettles, Zenon
      <4>2. CASE q # act[a].path
        BY <2>5, <3>2, <4>2, LookLeaves, Zenon
      <4> QED
        BY <4>1, <4>2
    <3> QED
      BY <3>1, <3>2, Zenon DEF Remains
  <2>6. ASSUME NEW a \in Actors, Open(a) PROVE \A q \in Paths : Covered(q) => Remains(q)
    <3>1. act[a].at \in Touching
      BY <2>6, OpenDoes, Zenon DEF Touching
    <3>2. ASSUME NEW q \in Paths, Covered(q) PROVE Covered(q)' \/ Settled(q)'
      <4>1. CASE q = act[a].path
        BY <2>6, <4>1, <1>k, LookSettles, Zenon
      <4>2. CASE q # act[a].path
        BY <2>6, <3>2, <4>2, LookLeaves, Zenon
      <4> QED
        BY <4>1, <4>2
    <3> QED
      BY <3>1, <3>2, Zenon DEF Remains
  <2>7. ASSUME NEW a \in Actors, Verify(a) PROVE \A q \in Paths : Covered(q) => Remains(q)
    <3>1. act[a].at \in Touching
      BY <2>7, VerifyDoes, Zenon DEF Touching
    <3>2. ASSUME NEW q \in Paths, Covered(q) PROVE Covered(q)' \/ Settled(q)'
      <4>1. CASE q = act[a].path
        BY <2>7, <4>1, <1>k, LookSettles, Zenon
      <4>2. CASE q # act[a].path
        BY <2>7, <3>2, <4>2, LookLeaves, Zenon
      <4> QED
        BY <4>1, <4>2
    <3> QED
      BY <3>1, <3>2, Zenon DEF Remains
  <2> QED
    BY <1>4, <2>1, <2>2, <2>3, <2>4, <2>5, <2>6, <2>7 DEF Events
<1>5. CASE Recovering
  <2>1. ASSUME RecoveryReplays PROVE \A q \in Paths : Covered(q) => Remains(q)
    <3>1. /\ ~polling => scanning' = scanning
          /\ ~polling /\ deferred.all => reconcile'
          /\ ~polling /\ ~deferred.all => replaying' = replaying \cup deferred.paths
          /\ replaying \subseteq replaying'
          /\ reconcile => reconcile'
          /\ pass'.by = pass.by
          /\ build'.by = build.by
          /\ UNCHANGED <<polling, excused, queue, overflowed, act, startup, dirty,
             scheduled, recheck, ignore, tail>>
      BY <2>1, RecoveryReplaysDoes, Zenon
    <3>2. CASE polling
      BY <3>1, <3>2, Zenon DEF Remains, Covered
    <3>3. CASE ~polling
      <4>1. ASSUME NEW q \in Paths, Covered(q) PROVE Covered(q)'
        BY <3>1, <3>3, <4>1, Zenon DEF Covered, Lasting, InHand
      <4> QED
        BY <4>1, Zenon DEF Remains
    <3> QED
      BY <3>2, <3>3
  <2>2. ASSUME RecoveryScans PROVE \A q \in Paths : Covered(q) => Remains(q)
    <3>1. /\ polling \/ scanning' = scanning
          /\ pass'.by = pass.by
          /\ build'.by = build.by
          /\ UNCHANGED <<polling, excused, queue, overflowed, replaying, act, deferred,
             reconcile, startup, dirty, scheduled, recheck, ignore, tail>>
      BY <2>2, RecoveryScansDoes, Zenon
    <3>2. CASE polling
      BY <3>1, <3>2, Zenon DEF Remains, Covered
    <3>3. CASE ~polling
      <4>1. ASSUME NEW q \in Paths, Covered(q) PROVE Covered(q)'
        BY <3>1, <3>3, <4>1, Zenon DEF Covered, Lasting, InHand
      <4> QED
        BY <4>1, Zenon DEF Remains
    <3> QED
      BY <3>2, <3>3
  <2>3. ASSUME NEW p \in Paths, ScanOne(p) PROVE \A q \in Paths : Covered(q) => Remains(q)
    <3>1. /\ \A c \in Actors : act[c].at # "idle" => act'[c] = act[c]
          /\ "replay" \in Actors
          /\ scanning' = scanning \ {p}
          /\ act'["replay"].at # "idle" /\ act'["replay"].path = p
          /\ pass'.by = pass.by
          /\ build'.by = build.by
          /\ UNCHANGED <<polling, excused, queue, overflowed, replaying, deferred,
             reconcile, startup, dirty, scheduled, recheck, ignore, tail>>
      BY <2>3, <1>w, ScanOneDoes, SMT
    <3>2. ASSUME NEW q \in Paths, Covered(q) PROVE Covered(q)'
      BY <3>1, <3>2, Zenon DEF Covered, Lasting, InHand
    <3> QED
      BY <3>2, Zenon DEF Remains
  <2>4. ASSUME RecoveryEnds
        PROVE  \A q \in Paths : Covered(q) => Remains(q)
    <3>1. UNCHANGED <<act, build, deferred, dirty, excused, ignore, overflowed, pass,
                    polling, queue, recheck, reconcile, replaying, scanning, scheduled,
                    startup, tail>>
      BY <2>4, Zenon DEF RecoveryEnds, notices, refreshes, replays, due, bounds
    <3> QED
      BY <1>0, <3>1
  <2> QED
    BY <1>5, <2>1, <2>2, <2>3, <2>4 DEF Recovering
<1>6. CASE Ignoring
  <2>1. ASSUME IgnoreChecks PROVE \A q \in Paths : Covered(q) => Remains(q)
    <3>1. /\ ignore = "check"
          /\ ~polling /\ dirty => ignore' = "wait"
          /\ ~polling => scheduled' = scheduled
          /\ pass.by # "ignore"
          /\ pass'.by = pass.by
          /\ build'.by = build.by
          /\ UNCHANGED <<polling, excused, queue, overflowed, replaying, act, deferred,
             scanning, reconcile, startup, recheck, tail>>
      BY <2>1, <1>g, IgnoreChecksDoes, Zenon
    <3>2. CASE polling
      BY <3>1, <3>2, Zenon DEF Remains, Covered
    <3>3. CASE ~polling
      <4>1. ASSUME NEW q \in Paths, Covered(q) PROVE Covered(q)'
        BY <3>1, <3>3, <4>1, Zenon DEF Covered, Lasting, InHand
      <4> QED
        BY <4>1, Zenon DEF Remains
    <3> QED
      BY <3>2, <3>3
  <2>2. ASSUME IgnoreWaits PROVE \A q \in Paths : Covered(q) => Remains(q)
    <3>1. /\ ignore = "wait"
          /\ ~polling => ignore' = "run" /\ scheduled' = scheduled
          /\ pass.by # "ignore"
          /\ pass'.by = pass.by
          /\ build'.by = build.by
          /\ UNCHANGED <<polling, excused, queue, overflowed, replaying, act, deferred,
             scanning, reconcile, startup, dirty, recheck, tail>>
      BY <2>2, <1>g, IgnoreWaitsDoes, Zenon
    <3>2. CASE polling
      BY <3>1, <3>2, Zenon DEF Remains, Covered
    <3>3. CASE ~polling
      <4>1. ASSUME NEW q \in Paths, Covered(q) PROVE Covered(q)'
        BY <3>1, <3>3, <4>1, Zenon DEF Covered, Lasting, InHand
      <4> QED
        BY <4>1, Zenon DEF Remains
    <3> QED
      BY <3>2, <3>3
  <2>3. ASSUME IgnoreClears PROVE \A q \in Paths : Covered(q) => Remains(q)
    <3>1. /\ recheck'
          /\ ignore = "clear"
          /\ pass'.by = pass.by
          /\ build'.by = build.by
          /\ UNCHANGED <<polling, excused, queue, overflowed, replaying, act, deferred,
             scanning, reconcile, startup, dirty, tail>>
      BY <2>3, IgnoreClearsDoes, Zenon
    <3>2. ASSUME NEW q \in Paths, Covered(q) PROVE Covered(q)'
      BY <3>1, <3>2, Zenon DEF Covered, Lasting, InHand
    <3> QED
      BY <3>2, Zenon DEF Remains
  <2>4. ASSUME IgnoreRechecks PROVE \A q \in Paths : Covered(q) => Remains(q)
    <3>1. /\ recheck
          /\ dirty => scheduled'
          /\ scheduled => scheduled'
          /\ ignore \in {"wait", "run"} => ignore' = ignore
          /\ pass'.by = pass.by
          /\ build'.by = build.by
          /\ UNCHANGED <<polling, excused, queue, overflowed, replaying, act, deferred,
             scanning, reconcile, startup, dirty, tail>>
      BY <2>4, <1>i, IgnoreRechecksDoes, Zenon
    <3>2. ASSUME NEW q \in Paths, Covered(q) PROVE Covered(q)'
      BY <3>1, <3>2, Zenon DEF Covered, Lasting, InHand
    <3> QED
      BY <3>2, Zenon DEF Remains
  <2> QED
    BY <1>6, <2>1, <2>2, <2>3, <2>4 DEF Ignoring
<1>7. CASE Begins
  <2>1. ASSUME StartupPass PROVE \A q \in Paths : Covered(q) => Remains(q)
    <3>1. pass.by = "none" /\ pass'.by = "startup"
      BY <2>1, PassBegins, StartupPassDoes, Zenon DEF GateFree, Begins
    <3> QED
      BY <3>1, Zenon DEF Remains, PassOwes
  <2>2. ASSUME IgnorePass PROVE \A q \in Paths : Covered(q) => Remains(q)
    <3>1. pass.by = "none" /\ pass'.by = "ignore"
      BY <2>2, PassBegins, IgnorePassDoes, Zenon DEF GateFree, Begins
    <3> QED
      BY <3>1, Zenon DEF Remains, PassOwes
  <2>3. ASSUME OverflowPass PROVE \A q \in Paths : Covered(q) => Remains(q)
    <3>1. pass.by = "none" /\ pass'.by = "overflow"
      BY <2>3, PassBegins, OverflowPassDoes, Zenon DEF GateFree, Begins
    <3> QED
      BY <3>1, Zenon DEF Remains, PassOwes
  <2>4. ASSUME DeferredPass PROVE \A q \in Paths : Covered(q) => Remains(q)
    <3>1. pass.by = "none" /\ pass'.by = "deferred"
      BY <2>4, PassBegins, DeferredPassDoes, Zenon DEF GateFree, Begins
    <3> QED
      BY <3>1, Zenon DEF Remains, PassOwes
  <2>5. ASSUME BuildPass PROVE \A q \in Paths : Covered(q) => Remains(q)
    <3>1. /\ pass'.by = "build" /\ build'.by = build.by
          /\ polling \/ dirty' = dirty
          /\ UNCHANGED <<polling, excused, queue, overflowed, replaying, act, deferred,
             scanning, reconcile, startup, scheduled, recheck, ignore, tail>>
      BY <2>5, BeginsKeepDirty, BuildPassDoes, Zenon DEF Begins
    <3>2. CASE polling
      BY <3>1, <3>2, Zenon DEF Remains, Covered
    <3>3. CASE dirty' = dirty
      <4>1. ASSUME NEW q \in Paths, Covered(q) PROVE Covered(q)'
        BY <3>1, <3>3, <4>1, Zenon DEF Covered, Lasting, InHand
      <4> QED
        BY <4>1, Zenon DEF Remains
    <3> QED
      BY <3>1, <3>2, <3>3
  <2>6. ASSUME ReloadPass PROVE \A q \in Paths : Covered(q) => Remains(q)
    <3>1. pass.by = "none" /\ pass'.by = "catchup"
      BY <2>6, PassBegins, ReloadPassDoes, Zenon DEF GateFree, Begins
    <3> QED
      BY <3>1, Zenon DEF Remains, PassOwes
  <2> QED
    BY <1>7, <2>1, <2>2, <2>3, <2>4, <2>5, <2>6 DEF Begins
<1>8. CASE Passing
  <2>1. ASSUME NEW p \in Paths, Walk(p) PROVE \A q \in Paths : Covered(q) => Remains(q)
    <3>1. /\ pass'.by = pass.by
          /\ build'.by = build.by
          /\ UNCHANGED <<polling, excused, queue, overflowed, replaying, act, deferred,
             scanning, reconcile, startup, dirty, scheduled, recheck, ignore, tail>>
      BY <2>1, PassWalks, WalkDoes, Zenon
    <3>2. ASSUME NEW q \in Paths, Covered(q) PROVE Covered(q)'
      BY <3>1, <3>2, Zenon DEF Covered, Lasting, InHand
    <3> QED
      BY <3>2, Zenon DEF Remains
  <2>2. ASSUME NEW p \in Paths, Read(p) PROVE \A q \in Paths : Covered(q) => Remains(q)
    <3>1. /\ pass'.by = pass.by
          /\ excused \subseteq excused'
          /\ build'.by = build.by
          /\ UNCHANGED <<polling, queue, overflowed, replaying, act, deferred, scanning,
             reconcile, startup, dirty, scheduled, recheck, ignore, tail>>
      BY <2>2, PassReads, ReadDoes, Zenon
    <3>2. ASSUME NEW q \in Paths, Covered(q) PROVE Covered(q)'
      BY <3>1, <3>2, Zenon DEF Covered, Lasting, InHand
    <3> QED
      BY <3>2, Zenon DEF Remains
  <2>3. ASSUME NEW p \in Paths, PassScans(p) PROVE \A q \in Paths : Covered(q) => Remains(q)
    <3>1. /\ pass'.by = pass.by
          /\ \A c \in Actors : act[c].at # "idle" => act'[c] = act[c]
          /\ build'.by = build.by
          /\ UNCHANGED <<polling, excused, queue, overflowed, replaying, deferred, scanning,
             reconcile, startup, dirty, scheduled, recheck, ignore, tail>>
      BY <2>3, PassScansDoes, PassMoves, Zenon
    <3>2. ASSUME NEW q \in Paths, Covered(q) PROVE Covered(q)'
      BY <3>1, <3>2, Zenon DEF Covered, Lasting, InHand
    <3> QED
      BY <3>2, Zenon DEF Remains
  <2>4. ASSUME Classify PROVE \A q \in Paths : Covered(q) => Remains(q)
    <3>1. /\ pass'.by = pass.by
          /\ build'.by = build.by
          /\ UNCHANGED <<polling, excused, queue, overflowed, replaying, act, deferred,
             scanning, reconcile, startup, dirty, scheduled, recheck, ignore, tail>>
      BY <2>4, PassClassifies, ClassifyDoes, Zenon
    <3>2. ASSUME NEW q \in Paths, Covered(q) PROVE Covered(q)'
      BY <3>1, <3>2, Zenon DEF Covered, Lasting, InHand
    <3> QED
      BY <3>2, Zenon DEF Remains
  <2>5. ASSUME Publish PROVE \A q \in Paths : Covered(q) => Remains(q)
    <3>1. /\ pass'.by = pass.by
          /\ build'.by = build.by
          /\ UNCHANGED <<polling, excused, queue, overflowed, replaying, act, deferred,
             scanning, reconcile, startup, dirty, scheduled, recheck, ignore, tail>>
      BY <2>5, PassMoves, PublishDoes, Zenon
    <3>2. ASSUME NEW q \in Paths, Covered(q) PROVE Covered(q)'
      BY <3>1, <3>2, Zenon DEF Covered, Lasting, InHand
    <3> QED
      BY <3>2, Zenon DEF Remains
  <2>6. ASSUME EndPass PROVE \A q \in Paths : Covered(q) => Remains(q)
    <3>1. /\ startup /\ pass.by # "startup" => startup'
          /\ pass.by # "ignore" => ignore' = ignore
          /\ dirty => dirty'
          /\ overflowed => overflowed'
          /\ excused \subseteq excused'
          /\ pass.by # "catchup" => tail' = tail
          /\ build.by \in {"startup", "failed"} => build'.by = build.by
          /\ pass'.by = "none"
          /\ UNCHANGED <<polling, queue, replaying, act, deferred, scanning, reconcile,
             scheduled, recheck>>
      BY <2>6, <1>b, <1>t, EndPassDoes, BuildIsCompleted, PassMoves, NewPasses, SMT
    <3>2. ASSUME NEW q \in Paths, Covered(q) PROVE Covered(q)'
      BY <3>1, <3>2, Zenon DEF Covered, Lasting, InHand
    <3> QED
      BY <3>2, Zenon DEF Remains
  <2>7. ASSUME StartupYields PROVE \A q \in Paths : Covered(q) => Remains(q)
    <3>1. polling /\ polling' = polling
      BY <2>7, StartupYieldsDoes, Zenon
    <3> QED
      BY <3>1, Zenon DEF Remains, Covered
  <2> QED
    BY <1>8, <2>1, <2>2, <2>3, <2>4, <2>5, <2>6, <2>7 DEF Passing
<1>9. CASE Building
  <2>1. ASSUME NEW p \in Paths, BuildRead(p) PROVE \A q \in Paths : Covered(q) => Remains(q)
    <3>1. /\ build'.by = build.by
          /\ excused \subseteq excused'
          /\ pass'.by = pass.by
          /\ UNCHANGED <<polling, queue, overflowed, replaying, act, deferred, scanning,
             reconcile, startup, dirty, scheduled, recheck, ignore, tail>>
      BY <2>1, BuildReads, BuildReadDoes, Zenon
    <3>2. ASSUME NEW q \in Paths, Covered(q) PROVE Covered(q)'
      BY <3>1, <3>2, Zenon DEF Covered, Lasting, InHand
    <3> QED
      BY <3>2, Zenon DEF Remains
  <2>2. ASSUME BuildPublish PROVE \A q \in Paths : Covered(q) => Remains(q)
    <3>1. polling' = polling /\ (polling \/ scanning' = Paths)
      BY <2>2, BuildPublishDoes, Zenon
    <3> QED
      BY <3>1, Zenon DEF Remains, Covered, Lasting
  <2>3. ASSUME BuildFails PROVE \A q \in Paths : Covered(q) => Remains(q)
    <3>1. build'.by = "failed"
      BY <2>3, BuildMoves, Zenon
    <3> QED
      BY <3>1, Zenon DEF Remains, Covered, Lasting
  <2>4. ASSUME BuildEnds PROVE \A q \in Paths : Covered(q) => Remains(q)
    <3>1. /\ build.by = "failed" => excused' = Paths
          /\ scheduled => scheduled' = scheduled /\ ignore' = ignore
          /\ build.by \in {"complete", "failed"} /\ pass'.by = pass.by
          /\ UNCHANGED <<polling, queue, overflowed, replaying, act, deferred, scanning,
                         reconcile, startup, dirty, recheck, tail>>
      BY <2>4, BuildEndsDoes, Zenon DEF BuildEnds, Schedule
    <3>2. CASE build.by = "failed"
      BY <3>1, <3>2, Zenon DEF Remains, Covered
    <3>3. CASE build.by = "complete"
      <4>1. build.by \notin {"startup", "failed"} /\ excused' = excused
        BY <2>4, <3>3, BuildEndsDoes, SMT
      <4>2. /\ scheduled => scheduled'
            /\ ignore \in {"wait", "run"} => ignore' = ignore
        BY <1>i, <3>1, SMT
      <4>3. ASSUME NEW q \in Paths, Covered(q) PROVE Covered(q)'
        BY <3>1, <4>1, <4>2, <4>3, Zenon DEF Covered, Lasting, InHand
      <4> QED
        BY <4>3, Zenon DEF Remains
    <3> QED
      BY <3>1, <3>2, <3>3
  <2> QED
    BY <1>9, <2>1, <2>2, <2>3, <2>4 DEF Building
<1>10. CASE Reloading
  <2>1. ASSUME ReloadPublish PROVE \A q \in Paths : Covered(q) => Remains(q)
    <3>1. /\ pass'.by = "none"
          /\ pass.by \notin {"startup", "ignore", "catchup"}
          /\ build.by \notin {"startup", "failed"}
          /\ tail # "catchup"
          /\ UNCHANGED <<polling, excused, queue, overflowed, replaying, act, deferred,
             scanning, reconcile, startup, dirty, scheduled, recheck, ignore>>
      BY <2>1, <1>b, ReloadPublishDoes, PassMoves, NewPasses, SMT
    <3>2. ASSUME NEW q \in Paths, Covered(q) PROVE Covered(q)'
      BY <3>1, <3>2, Zenon DEF Covered, Lasting, InHand
    <3> QED
      BY <3>2, Zenon DEF Remains
  <2>2. ASSUME ReloadFails PROVE \A q \in Paths : Covered(q) => Remains(q)
    <3>1. /\ pass'.by = "none"
          /\ pass.by \notin {"startup", "ignore", "catchup"}
          /\ build.by \notin {"startup", "failed"}
          /\ tail # "catchup"
          /\ UNCHANGED <<polling, excused, queue, overflowed, replaying, act, deferred,
             scanning, reconcile, startup, dirty, scheduled, recheck, ignore>>
      BY <2>2, <1>b, ReloadFailsDoes, PassMoves, NewPasses, SMT
    <3>2. ASSUME NEW q \in Paths, Covered(q) PROVE Covered(q)'
      BY <3>1, <3>2, Zenon DEF Covered, Lasting, InHand
    <3> QED
      BY <3>2, Zenon DEF Remains
  <2>3. ASSUME ReloadReplays PROVE \A q \in Paths : Covered(q) => Remains(q)
    <3>1. /\ ~polling /\ deferred.all => reconcile'
          /\ ~polling /\ ~deferred.all => replaying' = replaying \cup deferred.paths
          /\ replaying \subseteq replaying'
          /\ reconcile => reconcile'
          /\ tail # "catchup"
          /\ pass'.by = pass.by
          /\ build'.by = build.by
          /\ UNCHANGED <<polling, excused, queue, overflowed, act, scanning, startup, dirty,
             scheduled, recheck, ignore>>
      BY <2>3, ReloadReplaysDoes, Zenon
    <3>2. CASE polling
      BY <3>1, <3>2, Zenon DEF Remains, Covered
    <3>3. CASE ~polling
      <4>1. ASSUME NEW q \in Paths, Covered(q) PROVE Covered(q)'
        BY <3>1, <3>3, <4>1, Zenon DEF Covered, Lasting, InHand
      <4> QED
        BY <4>1, Zenon DEF Remains
    <3> QED
      BY <3>2, <3>3
  <2>4. ASSUME ReloadRests PROVE \A q \in Paths : Covered(q) => Remains(q)
    <3>1. /\ tail # "catchup"
          /\ scanning \subseteq scanning'
          /\ scheduled => scheduled'
          /\ ignore \in {"wait", "run"} => ignore' = ignore
          /\ pass'.by = pass.by
          /\ build'.by = build.by
          /\ UNCHANGED <<polling, excused, queue, overflowed, replaying, act, deferred,
             reconcile, startup, dirty, recheck>>
      BY <2>4, <1>i, ReloadRestsDoes, SMT
    <3>2. ASSUME NEW q \in Paths, Covered(q) PROVE Covered(q)'
      BY <3>1, <3>2, Zenon DEF Covered, Lasting, InHand
    <3> QED
      BY <3>2, Zenon DEF Remains
  <2> QED
    BY <1>10, <2>1, <2>2, <2>3, <2>4 DEF Reloading
<1>11. CASE Searching
  <2>1. ASSUME Load \/ ReadFile \/ UpdateCache
        PROVE  \A q \in Paths : Covered(q) => Remains(q)
    <3>1. UNCHANGED <<act, build, deferred, dirty, excused, ignore, overflowed, pass,
                    polling, queue, recheck, reconcile, replaying, scanning, scheduled,
                    startup, tail>>
      BY <2>1, Zenon DEF Load, SearchFrame, ReadFile, UpdateCache, notices, refreshes,
         replays, due, bounds
    <3> QED
      BY <1>0, <3>1
  <2> QED
    BY <1>11, <2>1 DEF Searching
<1> QED
  BY <1>1, <1>2, <1>3, <1>4, <1>5, <1>6, <1>7, <1>8, <1>9, <1>10, <1>11 DEF Next, Progress

\* Nobody looks at a file while a pass walks or reads, or a reload does,
LEMMA CoveredInPass ==
  TypeOK /\ ThreadsOK /\ ControlInv /\ KnowledgeInv /\ OwedInv /\ [Next]_vars =>
    (pass.at \in {"walk", "read"} \/ build.by = "reload" =>
      \A q \in Paths : Covered(q) => Covered(q)')
<1> SUFFICES ASSUME TypeOK, ThreadsOK, ControlInv, KnowledgeInv, OwedInv, [Next]_vars,
                    pass.at \in {"walk", "read"} \/ build.by = "reload",
                    NEW q \in Paths, Covered(q)
             PROVE  Covered(q)'
  OBVIOUS
<1>1. Remains(q)
  BY CoveredStays, Zenon
<1>2. pass.by # "none" /\ \A a \in Actors : act[a].at \notin Touching
  <2>1. CASE pass.at \in {"walk", "read"}
    <3>1. pass.by # "none"
      BY <2>1, SMT DEF ControlInv, GateInv
    <3> QED
      BY <2>1, <3>1, PassIsAlone, Zenon
  <2>2. CASE build.by = "reload"
    <3>1. pass.by = "reload" /\ pass.at = "none"
      BY <2>2, SMT DEF ControlInv, BuildInv, GateInv
    <3> QED
      BY <3>1, SMT DEF ControlInv, GateInv, Touching, Actors
  <2> QED
    BY <2>1, <2>2
<1> QED
  BY <1>1, <1>2, Zenon DEF Remains

\* nor while nobody has the gate.
LEMMA CoveredOrSettled ==
  TypeOK /\ ThreadsOK /\ ControlInv /\ KnowledgeInv /\ OwedInv /\ [Next]_vars =>
    \A q \in Paths : Covered(q) => \/ Covered(q)' \/ Settled(q)'
                                   \/ pass.by = "none" /\ PassOwes'
BY CoveredStays, Zenon DEF Remains

\* A change is noticed, unless nothing is watched yet and the startup refresh
\* or its walk is still to come.
LEMMA ChangeIsOwed ==
  ASSUME TypeOK, ThreadsOK, ControlInv, NEW p \in Paths,
         Remove(p) \/ \E d \in Contents : Write(p, d)
  PROVE  /\ Covered(p)' \/ (~watched /\ pending /\ pass.by = "startup")
         /\ \A q \in Paths \ {p} : disk'[q] = disk[q]
         /\ UNCHANGED <<pass, build, act, watched, reader, overlay, evidence, memo, excused, polling>>
<1>1. /\ ~watched \/ polling \/ p \in queue' \/ overflowed'
      /\ \A q \in Paths \ {p} : disk'[q] = disk[q]
      /\ UNCHANGED <<pass, build, act, watched, polling, startup, excused, reader, overlay,
                     evidence, memo>>
  BY WriteDoes, RemoveDoes, Zenon
<1>2. CASE polling \/ p \in queue' \/ overflowed'
  BY <1>1, <1>2, Zenon DEF Covered, Lasting
<1>3. CASE ~watched /\ pass.by # "startup"
  <2>1. polling \/ startup \/ build.by \in {"startup", "failed"} \/ excused = Paths
    BY <1>3, Zenon DEF ControlInv, PendingInv
  <2> QED
    BY <1>1, <1>3, <2>1, Zenon DEF Covered, Lasting
<1>4. ~watched => pending
  BY Zenon DEF ControlInv, PendingInv
<1> QED
  BY <1>1, <1>2, <1>3, <1>4, Zenon

\* A merge settles what it read, and leaves settled what it found so.
LEMMA MergeSettles ==
  ASSUME TypeOK, ThreadsOK, ControlInv, KnowledgeInv, OwedInv, NEW q \in Paths,
         pass.at = "read", pass.left = {}, disk' = disk,
         reader' = Merged, overlay' = Pruned, evidence' = Evidenced
  PROVE  Covered(q) \/ (q \in pass.scan /\ PassOwes) \/ Settled(q)'
<1>0. VersionsInv /\ IndexInv /\ ReadInv
  BY Zenon DEF KnowledgeInv
<1>1. \/ Covered(q) \/ (q \in pass.scan /\ PassOwes)
      \/ q \in pass.cand /\ Same(disk[q], pass.got[q])
      \/ q \notin pass.cand \cup pass.skip /\ Settled(q)
  BY Zenon DEF OwedInv, MergeInv
<1>2. disk[q] \in Copies \cup {None} /\ reader[q] \in Copies \cup {None}
  BY Zenon DEF TypeOK
<1>3. CASE q \in pass.cand /\ Same(disk[q], pass.got[q])
  <2>1. pass.got[q] # Unread /\ pass.got[q] \in Copies \cup {None}
    BY <1>2, <1>3, Sentinels, Zenon DEF Same
  <2>2. q \in Done
    BY <1>3, <2>1, Zenon DEF Done, Unreadable
  <2>3. /\ reader'[q] = pass.got[q] /\ overlay'[q] = None
        /\ evidence'[q] = IF pass.got[q] = None THEN NoStamp
                          ELSE [ver |-> pass.got[q].ver, data |-> pass.got[q].data]
    BY <2>2, MergedAt, Zenon
  <2>4. Same(disk'[q], Visible(q)')
    BY <1>3, <2>3, Zenon DEF Visible
  <2>5. evidence'[q].ver # Unknown
    <3>1. CASE pass.got[q] = None
      <4>1. evidence'[q].ver = None
        BY <2>3, <3>1, SMT DEF NoStamp
      <4> QED
        BY <4>1, Sentinels
    <3>2. CASE pass.got[q] \in Copies
      <4>1. evidence'[q].ver = pass.got[q].ver
        BY <2>3, <3>2, Sentinels, SMT
      <4> QED
        BY <3>2, <4>1, Sentinels, Zenon
    <3> QED
      BY <2>1, <3>1, <3>2
  <2> QED
    BY <2>3, <2>4, <2>5, Sentinels, Zenon DEF Settled, Firm
<1>4. CASE q \notin pass.cand \cup pass.skip /\ Settled(q)
  <2>1. q \notin Done
    BY <1>4, Zenon DEF Done
  <2>2. overlay[q] = None
    BY <1>4, Zenon DEF KnowledgeInv, ReadInv
  <2>3. /\ reader'[q] = reader[q] /\ overlay'[q] = None
        /\ \/ evidence'[q] = NoStamp
           \/ evidence'[q] = evidence[q]
           \/ /\ pass.seen[q] # None /\ pass.by # "autosave"
              /\ evidence'[q] = [ver |-> Old(q), data |-> evidence[q].data]
    BY <2>1, <2>2, MergedAt, Zenon
  <2>4. Visible(q)' = Visible(q)
    BY <2>2, <2>3, Zenon DEF Visible
  <2>5. evidence'[q].ver # Unknown
    <3>1. CASE evidence'[q] = NoStamp
      <4>1. evidence'[q].ver = None
        BY <3>1, SMT DEF NoStamp
      <4> QED
        BY <4>1, Sentinels
    <3>2. CASE evidence'[q] = evidence[q]
      BY <1>4, <3>2, Zenon DEF Settled, Firm
    <3>3. CASE /\ pass.seen[q] # None /\ pass.by # "autosave"
               /\ evidence'[q] = [ver |-> Old(q), data |-> evidence[q].data]
      <4>1. evidence'[q].ver = Old(q)
        BY <3>3, SMT
      <4>2. Old(q) = pass.seen[q] /\ pass.seen[q] \in Versions \cup {None}
        BY <1>0, <1>4, <3>3, Zenon DEF ReadInv, ThreadsOK
      <4> QED
        BY <3>3, <4>1, <4>2, Sentinels, Zenon
    <3> QED
      BY <2>3, <3>1, <3>2, <3>3
  <2> QED
    BY <1>4, <2>3, <2>4, <2>5, Sentinels, Zenon DEF Settled, Firm
<1> QED
  BY <1>1, <1>3, <1>4

\* So does a reload.
LEMMA ReloadSettles ==
  ASSUME TypeOK, ThreadsOK, OwedInv, NEW q \in Paths, ReloadPublish
  PROVE  Covered(q) \/ Settled(q)'
<1>1. /\ build.by = "reload" /\ build.left = {} /\ disk' = disk
      /\ reader' = Built /\ overlay' = [p \in Paths |-> None] /\ evidence' = KnownOf(Withheld)
  BY Zenon DEF ReloadPublish, file
<1>2. Covered(q) \/ Same(disk[q], build.got[q])
  BY <1>1, Zenon DEF OwedInv, ReloadInv
<1>3. CASE Same(disk[q], build.got[q])
  <2>1. disk[q] \in Copies \cup {None}
    BY Zenon DEF TypeOK
  <2>2. build.got[q] # Unread
    BY <1>3, Sentinels, Zenon DEF Same
  <2>3. /\ Built[q] = build.got[q] /\ Built[q] \in Copies \cup {None}
        /\ evidence'[q] = IF Built[q] = None THEN NoStamp
                          ELSE [ver |-> IF q \in Withheld \cup build.raced THEN None ELSE Built[q].ver,
                                data |-> Built[q].data]
    BY <1>1, <2>2, BuiltAt, WithheldPaths, Zenon
  <2>4. overlay'[q] = None
    BY <1>1, Zenon
  <2>5. Same(disk'[q], Visible(q)')
    BY <1>1, <1>3, <2>3, <2>4, Zenon DEF Visible
  <2>6. evidence'[q].ver # Unknown
    <3>1. CASE Built[q] = None
      <4>1. evidence'[q].ver = None
        BY <2>3, <3>1, SMT DEF NoStamp
      <4> QED
        BY <4>1, Sentinels
    <3>2. CASE Built[q] \in Copies
      <4>1. evidence'[q].ver \in {None, Built[q].ver}
        BY <2>3, <3>2, Sentinels, SMT
      <4> QED
        BY <3>2, <4>1, Sentinels, Zenon
    <3> QED
      BY <2>3, <3>1, <3>2
  <2> QED
    BY <2>4, <2>5, <2>6, Sentinels, Zenon DEF Settled, Firm
<1> QED
  BY <1>2, <1>3

\* What is settled stays so, or is owed again.
LEMMA SettledStays ==
  TypeOK /\ ThreadsOK /\ ControlInv /\ KnowledgeInv /\ OwedInv /\ [Next]_vars => (\A q \in Paths : Settled(q) => Covered(q)' \/ Settled(q)' \/ PassOwes')
<1> SUFFICES ASSUME TypeOK, ThreadsOK, ControlInv, KnowledgeInv, OwedInv, [Next]_vars
             PROVE  \A q \in Paths : Settled(q) => Covered(q)' \/ Settled(q)' \/ PassOwes'
  OBVIOUS
<1>k. VersionsInv /\ IndexInv /\ DropInv
  BY Zenon DEF KnowledgeInv, OwedInv
<1>0. ASSUME UNCHANGED <<disk, evidence, overlay, reader>> PROVE \A q \in Paths : Settled(q) => Covered(q)' \/ Settled(q)' \/ PassOwes'
  BY <1>0, Zenon DEF Settled, Visible
<1>1. CASE UNCHANGED vars
  <2>1. UNCHANGED <<disk, evidence, overlay, reader>>
    BY <1>1 DEF vars, file, index
  <2> QED
    BY <1>0, <2>1
<1>2. CASE Environment
  <2>1. ASSUME NEW p \in Paths, NEW d \in Contents, Write(p, d) PROVE \A q \in Paths : Settled(q) => Covered(q)' \/ Settled(q)' \/ PassOwes'
    <3>1. /\ Covered(p)' \/ pass'.by = "startup"
          /\ \A q \in Paths \ {p} : disk'[q] = disk[q]
          /\ UNCHANGED <<reader, overlay, evidence>>
      BY <2>1, ChangeIsOwed, Zenon
    <3>2. ASSUME NEW q \in Paths, Settled(q) PROVE Covered(q)' \/ Settled(q)' \/ PassOwes'
      <4>1. CASE q = p
        BY <3>1, <4>1, Zenon DEF PassOwes
      <4>2. CASE q # p
        BY <3>1, <3>2, <4>2, Zenon DEF Settled, Visible
      <4> QED
        BY <4>1, <4>2
    <3> QED
      BY <3>2, Zenon
  <2>2. ASSUME NEW p \in Paths, Remove(p) PROVE \A q \in Paths : Settled(q) => Covered(q)' \/ Settled(q)' \/ PassOwes'
    <3>1. /\ Covered(p)' \/ pass'.by = "startup"
          /\ \A q \in Paths \ {p} : disk'[q] = disk[q]
          /\ UNCHANGED <<reader, overlay, evidence>>
      BY <2>2, ChangeIsOwed, Zenon
    <3>2. ASSUME NEW q \in Paths, Settled(q) PROVE Covered(q)' \/ Settled(q)' \/ PassOwes'
      <4>1. CASE q = p
        BY <3>1, <4>1, Zenon DEF PassOwes
      <4>2. CASE q # p
        BY <3>1, <3>2, <4>2, Zenon DEF Settled, Visible
      <4> QED
        BY <4>1, <4>2
    <3> QED
      BY <3>2, Zenon
  <2>3. ASSUME RulesEvent \/ TurnToPolling \/ BeginReload \/ PeriodicPass \/ BeginSave \/
               (\E p \in Paths : Admit(p))
        PROVE  \A q \in Paths : Settled(q) => Covered(q)' \/ Settled(q)' \/ PassOwes'
    <3>1. UNCHANGED <<disk, evidence, overlay, reader>>
      BY <2>3, Zenon DEF RulesEvent, TurnToPolling, BeginReload, PeriodicPass, BeginPass,
         BeginSave, Admit,
          SearchFrame, file, index
    <3> QED
      BY <1>0, <3>1
  <2> QED
    BY <1>2, <2>1, <2>2, <2>3 DEF Environment
<1>3. CASE Checkpoint
  <2>1. build.by = "startup" /\ build' = build
    BY <1>3, CheckpointDoes, Zenon
  <2> QED
    BY <2>1, Zenon DEF Covered, Lasting
<1>4. CASE Events
  <2>1. ASSUME NEW a \in Actors, DropGone(a) PROVE \A q \in Paths : Settled(q) => Covered(q)' \/ Settled(q)' \/ PassOwes'
    <3>1. ASSUME NEW q \in Paths, Settled(q) PROVE Covered(q)' \/ Settled(q)'
      <4>1. CASE q = act[a].path
        BY <2>1, <1>k, <4>1, LookSettles, Zenon
      <4>2. CASE q # act[a].path
        BY <2>1, <3>1, <4>2, LookLeaves, Zenon
      <4> QED
        BY <4>1, <4>2
    <3> QED
      BY <3>1, Zenon
  <2>2. ASSUME NEW a \in Actors, Open(a) PROVE \A q \in Paths : Settled(q) => Covered(q)' \/ Settled(q)' \/ PassOwes'
    <3>1. ASSUME NEW q \in Paths, Settled(q) PROVE Covered(q)' \/ Settled(q)'
      <4>1. CASE q = act[a].path
        BY <2>2, <1>k, <4>1, LookSettles, Zenon
      <4>2. CASE q # act[a].path
        BY <2>2, <3>1, <4>2, LookLeaves, Zenon
      <4> QED
        BY <4>1, <4>2
    <3> QED
      BY <3>1, Zenon
  <2>3. ASSUME NEW a \in Actors, Verify(a) PROVE \A q \in Paths : Settled(q) => Covered(q)' \/ Settled(q)' \/ PassOwes'
    <3>1. ASSUME NEW q \in Paths, Settled(q) PROVE Covered(q)' \/ Settled(q)'
      <4>1. CASE q = act[a].path
        BY <2>3, <1>k, <4>1, LookSettles, Zenon
      <4>2. CASE q # act[a].path
        BY <2>3, <3>1, <4>2, LookLeaves, Zenon
      <4> QED
        BY <4>1, <4>2
    <3> QED
      BY <3>1, Zenon
  <2>4. ASSUME (\E p \in Paths : TakeEvent(p)) \/ (\E p \in Paths : ReplayEvent(p)) \/ (\E a
               \in Actors : Defer(a)) \/ (\E a \in Actors : Enter(a))
        PROVE  \A q \in Paths : Settled(q) => Covered(q)' \/ Settled(q)' \/ PassOwes'
    <3>1. UNCHANGED <<disk, evidence, overlay, reader>>
      BY <2>4, Zenon DEF TakeEvent, ReplayEvent, Defer, Enter, file, index
    <3> QED
      BY <1>0, <3>1
  <2> QED
    BY <1>4, <2>1, <2>2, <2>3, <2>4 DEF Events
<1>5. CASE Recovering
  <2>1. ASSUME RecoveryReplays \/ RecoveryScans \/ (\E p \in Paths : ScanOne(p)) \/
               RecoveryEnds
        PROVE  \A q \in Paths : Settled(q) => Covered(q)' \/ Settled(q)' \/ PassOwes'
    <3>1. UNCHANGED <<disk, evidence, overlay, reader>>
      BY <2>1, Zenon DEF RecoveryReplays, RecoveryScans, ScanOne, RecoveryEnds, file, index
    <3> QED
      BY <1>0, <3>1
  <2> QED
    BY <1>5, <2>1 DEF Recovering
<1>6. CASE Ignoring
  <2>1. ASSUME IgnoreChecks \/ IgnoreWaits \/ IgnoreClears \/ IgnoreRechecks
        PROVE  \A q \in Paths : Settled(q) => Covered(q)' \/ Settled(q)' \/ PassOwes'
    <3>1. UNCHANGED <<disk, evidence, overlay, reader>>
      BY <2>1, Zenon DEF IgnoreChecks, IgnoreWaits, IgnoreClears, IgnoreRechecks, file,
         index
    <3> QED
      BY <1>0, <3>1
  <2> QED
    BY <1>6, <2>1 DEF Ignoring
<1>7. CASE Begins
  <2>1. ASSUME StartupPass \/ IgnorePass \/ OverflowPass \/ DeferredPass \/ BuildPass \/
               ReloadPass
        PROVE  \A q \in Paths : Settled(q) => Covered(q)' \/ Settled(q)' \/ PassOwes'
    <3>1. UNCHANGED <<disk, evidence, overlay, reader>>
      BY <2>1, Zenon DEF StartupPass, BeginPass, IgnorePass, OverflowPass, DeferredPass,
         BuildPass,
          ReloadPass, file, index
    <3> QED
      BY <1>0, <3>1
  <2> QED
    BY <1>7, <2>1 DEF Begins
<1>8. CASE Passing
  <2>1. ASSUME Publish PROVE \A q \in Paths : Settled(q) => Covered(q)' \/ Settled(q)' \/ PassOwes'
    <3>1. /\ pass.at = "read" /\ pass.left = {} /\ disk' = disk /\ pass'.by = pass.by
          /\ \/ reader' = Merged /\ overlay' = Pruned /\ evidence' = Evidenced
             \/ UNCHANGED <<reader, overlay, evidence>>
      BY <2>1, PassMoves, PublishDoes, Zenon DEF Publish, index
    <3>2. ASSUME NEW q \in Paths, Settled(q) PROVE Covered(q)' \/ Settled(q)' \/ PassOwes'
      <4>1. CASE reader' = Merged /\ overlay' = Pruned /\ evidence' = Evidenced
        <5>1. Covered(q) \/ PassOwes \/ Settled(q)'
          BY <3>1, <4>1, MergeSettles, Zenon
        <5>2. Covered(q) => Covered(q)'
          BY <3>1, CoveredInPass, Zenon
        <5> QED
          BY <3>1, <5>1, <5>2, Zenon DEF PassOwes
      <4>2. CASE UNCHANGED <<reader, overlay, evidence>>
        BY <3>1, <3>2, <4>2, Zenon DEF Settled, Visible
      <4> QED
        BY <3>1, <4>1, <4>2
    <3> QED
      BY <3>2, Zenon
  <2>2. ASSUME (\E p \in Paths : Walk(p)) \/ (\E p \in Paths : Read(p)) \/ (\E p \in Paths :
               PassScans(p)) \/ Classify \/ EndPass \/ StartupYields
        PROVE  \A q \in Paths : Settled(q) => Covered(q)' \/ Settled(q)' \/ PassOwes'
    <3>1. UNCHANGED <<disk, evidence, overlay, reader>>
      BY <2>2, Zenon DEF Walk, Read, PassScans, Classify, EndPass, StartupYields, file,
         index
    <3> QED
      BY <1>0, <3>1
  <2> QED
    BY <1>8, <2>1, <2>2 DEF Passing
<1>9. CASE Building
  <2>1. ASSUME BuildPublish PROVE \A q \in Paths : Settled(q) => Covered(q)' \/ Settled(q)' \/ PassOwes'
    <3>1. polling' = polling /\ (polling \/ scanning' = Paths)
      BY <2>1, BuildPublishDoes, Zenon
    <3> QED
      BY <3>1, Zenon DEF Covered, Lasting
  <2>2. ASSUME (\E p \in Paths : BuildRead(p)) \/ BuildFails \/ BuildEnds
        PROVE  \A q \in Paths : Settled(q) => Covered(q)' \/ Settled(q)' \/ PassOwes'
    <3>1. UNCHANGED <<disk, evidence, overlay, reader>>
      BY <2>2, Zenon DEF BuildRead, BuildFails, BuildEnds, file, index
    <3> QED
      BY <1>0, <3>1
  <2> QED
    BY <1>9, <2>1, <2>2 DEF Building
<1>10. CASE Reloading
  <2>1. ASSUME ReloadPublish PROVE \A q \in Paths : Settled(q) => Covered(q)' \/ Settled(q)' \/ PassOwes'
    <3>1. build.by = "reload"
      BY <2>1, ReloadPublishDoes, Zenon
    <3>2. ASSUME NEW q \in Paths PROVE Covered(q)' \/ Settled(q)'
      BY <2>1, <3>1, ReloadSettles, CoveredInPass, Zenon
    <3> QED
      BY <3>2, Zenon
  <2>2. ASSUME ReloadFails \/ ReloadReplays \/ ReloadRests
        PROVE  \A q \in Paths : Settled(q) => Covered(q)' \/ Settled(q)' \/ PassOwes'
    <3>1. UNCHANGED <<disk, evidence, overlay, reader>>
      BY <2>2, Zenon DEF ReloadFails, ReloadReplays, ReloadRests, file, index
    <3> QED
      BY <1>0, <3>1
  <2> QED
    BY <1>10, <2>1, <2>2 DEF Reloading
<1>11. CASE Searching
  <2>1. ASSUME Load \/ ReadFile \/ UpdateCache
        PROVE  \A q \in Paths : Settled(q) => Covered(q)' \/ Settled(q)' \/ PassOwes'
    <3>1. UNCHANGED <<disk, evidence, overlay, reader>>
      BY <2>1, Zenon DEF Load, SearchFrame, ReadFile, UpdateCache, file, index
    <3> QED
      BY <1>0, <3>1
  <2> QED
    BY <1>11, <2>1 DEF Searching
<1> QED
  BY <1>1, <1>2, <1>3, <1>4, <1>5, <1>6, <1>7, <1>8, <1>9, <1>10, <1>11 DEF Next, Progress

\* A pass owes what it owes until it ends.
LEMMA PassGoesOn ==
  TypeOK /\ ThreadsOK /\ ControlInv /\ [Next]_vars => (PassOwes => PassOwes' \/ EndPass)
<1> SUFFICES ASSUME TypeOK, ThreadsOK, ControlInv, [Next]_vars
             PROVE  PassOwes => PassOwes' \/ EndPass
  OBVIOUS
<1>0. ASSUME UNCHANGED <<pass>> PROVE PassOwes => PassOwes' \/ EndPass
  BY <1>0, Zenon DEF PassOwes
<1>1. CASE UNCHANGED vars
  <2>1. UNCHANGED <<pass>>
    BY <1>1 DEF vars
  <2> QED
    BY <1>0, <2>1
<1>2. CASE Environment
  <2>1. ASSUME BeginReload PROVE PassOwes => PassOwes' \/ EndPass
    <3>1. pass.by = "none"
      BY <2>1, PassBegins, BeginReloadDoes, Zenon DEF GateFree, Begins
    <3> QED
      BY <3>1, SMT DEF PassOwes
  <2>2. ASSUME PeriodicPass PROVE PassOwes => PassOwes' \/ EndPass
    <3>1. pass.by = "none"
      BY <2>2, PassBegins, PassSaves, Zenon DEF GateFree, Begins
    <3> QED
      BY <3>1, SMT DEF PassOwes
  <2>3. ASSUME BeginSave PROVE PassOwes => PassOwes' \/ EndPass
    <3>1. pass.by = "none"
      BY <2>3, PassBegins, PassSaves, Zenon DEF GateFree, Begins
    <3> QED
      BY <3>1, SMT DEF PassOwes
  <2>4. ASSUME (\E p \in Paths : \E d \in Contents : Write(p, d)) \/ (\E p \in Paths :
               Remove(p)) \/ RulesEvent \/ TurnToPolling \/ (\E p \in Paths : Admit(p))
        PROVE  PassOwes => PassOwes' \/ EndPass
    <3>1. UNCHANGED <<pass>>
      BY <2>4, Zenon DEF Write, Remove, RulesEvent, TurnToPolling, Admit, SearchFrame
    <3> QED
      BY <1>0, <3>1
  <2> QED
    BY <1>2, <2>1, <2>2, <2>3, <2>4 DEF Environment
<1>3. CASE Checkpoint
  <2>1. UNCHANGED <<pass>>
    BY <1>3, Zenon DEF Checkpoint
  <2> QED
    BY <1>0, <2>1
<1>4. CASE Events
  <2>1. ASSUME (\E p \in Paths : TakeEvent(p)) \/ (\E p \in Paths : ReplayEvent(p)) \/ (\E a
               \in Actors : Defer(a)) \/ (\E a \in Actors : Enter(a)) \/ (\E a \in Actors :
               DropGone(a)) \/ (\E a \in Actors : Open(a)) \/ (\E a \in Actors : Verify(a))
        PROVE  PassOwes => PassOwes' \/ EndPass
    <3>1. UNCHANGED <<pass>>
      BY <2>1, Zenon DEF TakeEvent, ReplayEvent, Defer, Enter, DropGone, Open, Verify
    <3> QED
      BY <1>0, <3>1
  <2> QED
    BY <1>4, <2>1 DEF Events
<1>5. CASE Recovering
  <2>1. ASSUME RecoveryReplays \/ RecoveryScans \/ (\E p \in Paths : ScanOne(p)) \/
               RecoveryEnds
        PROVE  PassOwes => PassOwes' \/ EndPass
    <3>1. UNCHANGED <<pass>>
      BY <2>1, Zenon DEF RecoveryReplays, RecoveryScans, ScanOne, RecoveryEnds
    <3> QED
      BY <1>0, <3>1
  <2> QED
    BY <1>5, <2>1 DEF Recovering
<1>6. CASE Ignoring
  <2>1. ASSUME IgnoreChecks \/ IgnoreWaits \/ IgnoreClears \/ IgnoreRechecks
        PROVE  PassOwes => PassOwes' \/ EndPass
    <3>1. UNCHANGED <<pass>>
      BY <2>1, Zenon DEF IgnoreChecks, IgnoreWaits, IgnoreClears, IgnoreRechecks
    <3> QED
      BY <1>0, <3>1
  <2> QED
    BY <1>6, <2>1 DEF Ignoring
<1>7. CASE Begins
  <2>1. ASSUME StartupPass PROVE PassOwes => PassOwes' \/ EndPass
    <3>1. pass.by = "none"
      BY <2>1, PassBegins, PassSaves, Zenon DEF GateFree, Begins
    <3> QED
      BY <3>1, SMT DEF PassOwes
  <2>2. ASSUME IgnorePass PROVE PassOwes => PassOwes' \/ EndPass
    <3>1. pass.by = "none"
      BY <2>2, PassBegins, PassSaves, Zenon DEF GateFree, Begins
    <3> QED
      BY <3>1, SMT DEF PassOwes
  <2>3. ASSUME OverflowPass PROVE PassOwes => PassOwes' \/ EndPass
    <3>1. pass.by = "none"
      BY <2>3, PassBegins, PassSaves, Zenon DEF GateFree, Begins
    <3> QED
      BY <3>1, SMT DEF PassOwes
  <2>4. ASSUME DeferredPass PROVE PassOwes => PassOwes' \/ EndPass
    <3>1. pass.by = "none"
      BY <2>4, PassBegins, PassSaves, Zenon DEF GateFree, Begins
    <3> QED
      BY <3>1, SMT DEF PassOwes
  <2>5. ASSUME BuildPass PROVE PassOwes => PassOwes' \/ EndPass
    <3>1. pass.by = "none"
      BY <2>5, PassBegins, PassSaves, Zenon DEF GateFree, Begins
    <3> QED
      BY <3>1, SMT DEF PassOwes
  <2>6. ASSUME ReloadPass PROVE PassOwes => PassOwes' \/ EndPass
    <3>1. pass.by = "none"
      BY <2>6, PassBegins, PassSaves, Zenon DEF GateFree, Begins
    <3> QED
      BY <3>1, SMT DEF PassOwes
  <2> QED
    BY <1>7, <2>1, <2>2, <2>3, <2>4, <2>5, <2>6 DEF Begins
<1>8. CASE Passing
  <2>1. ASSUME NEW p \in Paths, Walk(p) PROVE PassOwes => PassOwes' \/ EndPass
    <3>1. pass'.by = pass.by
      BY <2>1, PassWalks, Zenon
    <3> QED
      BY <3>1, Zenon DEF PassOwes
  <2>2. ASSUME NEW p \in Paths, Read(p) PROVE PassOwes => PassOwes' \/ EndPass
    <3>1. pass'.by = pass.by
      BY <2>2, PassReads, Zenon
    <3> QED
      BY <3>1, Zenon DEF PassOwes
  <2>3. ASSUME NEW p \in Paths, PassScans(p) PROVE PassOwes => PassOwes' \/ EndPass
    <3>1. pass'.by = pass.by
      BY <2>3, PassMoves, Zenon
    <3> QED
      BY <3>1, Zenon DEF PassOwes
  <2>4. ASSUME Classify PROVE PassOwes => PassOwes' \/ EndPass
    <3>1. pass'.by = pass.by
      BY <2>4, PassClassifies, Zenon
    <3> QED
      BY <3>1, Zenon DEF PassOwes
  <2>5. ASSUME Publish PROVE PassOwes => PassOwes' \/ EndPass
    <3>1. pass'.by = pass.by
      BY <2>5, PassMoves, Zenon
    <3> QED
      BY <3>1, Zenon DEF PassOwes
  <2>6. ASSUME EndPass PROVE PassOwes => PassOwes' \/ EndPass
    BY <2>6
  <2>7. ASSUME StartupYields
        PROVE  PassOwes => PassOwes' \/ EndPass
    <3>1. UNCHANGED <<pass>>
      BY <2>7, Zenon DEF StartupYields
    <3> QED
      BY <1>0, <3>1
  <2> QED
    BY <1>8, <2>1, <2>2, <2>3, <2>4, <2>5, <2>6, <2>7 DEF Passing
<1>9. CASE Building
  <2>1. ASSUME (\E p \in Paths : BuildRead(p)) \/ BuildPublish \/ BuildFails \/ BuildEnds
        PROVE  PassOwes => PassOwes' \/ EndPass
    <3>1. UNCHANGED <<pass>>
      BY <2>1, Zenon DEF BuildRead, BuildPublish, BuildFails, BuildEnds
    <3> QED
      BY <1>0, <3>1
  <2> QED
    BY <1>9, <2>1 DEF Building
<1>10. CASE Reloading
  <2>1. ASSUME ReloadPublish PROVE PassOwes => PassOwes' \/ EndPass
    <3>1. pass.by = "reload"
      BY <2>1, ReloadPublishDoes, SMT DEF ControlInv, BuildInv
    <3> QED
      BY <3>1, SMT DEF PassOwes
  <2>2. ASSUME ReloadFails PROVE PassOwes => PassOwes' \/ EndPass
    <3>1. pass.by = "reload"
      BY <2>2, ReloadFailsDoes, SMT DEF ControlInv, BuildInv
    <3> QED
      BY <3>1, SMT DEF PassOwes
  <2>3. ASSUME ReloadReplays \/ ReloadRests
        PROVE  PassOwes => PassOwes' \/ EndPass
    <3>1. UNCHANGED <<pass>>
      BY <2>3, Zenon DEF ReloadReplays, ReloadRests
    <3> QED
      BY <1>0, <3>1
  <2> QED
    BY <1>10, <2>1, <2>2, <2>3 DEF Reloading
<1>11. CASE Searching
  <2>1. ASSUME Load \/ ReadFile \/ UpdateCache
        PROVE  PassOwes => PassOwes' \/ EndPass
    <3>1. UNCHANGED <<pass>>
      BY <2>1, Zenon DEF Load, SearchFrame, ReadFile, UpdateCache
    <3> QED
      BY <1>0, <3>1
  <2> QED
    BY <1>11, <2>1 DEF Searching
<1> QED
  BY <1>1, <1>2, <1>3, <1>4, <1>5, <1>6, <1>7, <1>8, <1>9, <1>10, <1>11 DEF Next, Progress

\* A pass that ends has settled what it owed, or its caller still owes it.
LEMMA EndPassSettles ==
  ASSUME TypeOK, ThreadsOK, ControlInv, OwedInv, NEW q \in Paths, EndPass, PassOwes, ~Covered(q)
  PROVE  Covered(q)' \/ Settled(q)'
<1>1. /\ pass.at = "failed" \/ (pass.at = "scan" /\ pass.scan = {})
      /\ ~polling /\ pass.by = "startup" /\ pass.at = "failed" => startup' = startup
      /\ pass.by = "ignore" /\ pass.at = "failed" => dirty'
      /\ pass.by = "overflow" /\ pass.at = "failed" => overflowed'
      /\ pass.by \in {"deferred", "catchup"} /\ pass.at = "failed" => excused' = Paths
      /\ UNCHANGED <<disk, reader, overlay, evidence, polling, scheduled>>
  BY EndPassDoes, Zenon
<1>2. CASE pass.at = "scan" /\ pass.scan = {}
  <2>1. Settled(q)
    BY <1>2, Zenon DEF OwedInv, ScanInv
  <2> QED
    BY <1>1, <2>1, Zenon DEF Settled, Visible
<1>3. CASE pass.at = "failed"
  <2>1. ~polling /\ pass'.by = "none"
    BY PassMoves, NewPasses, Zenon DEF Covered
  <2>2. /\ pass.by = "startup" => startup
        /\ pass.by = "ignore" => scheduled
    BY SMT DEF ControlInv, GateInv, QueueInv
  <2>3. CASE pass.by = "startup"
    <3>1. startup' /\ pass'.by # "startup"
      BY <1>1, <1>3, <2>1, <2>2, <2>3, SMT
    <3> QED
      BY <3>1, Zenon DEF Covered, Lasting
  <2>4. CASE pass.by = "ignore"
    <3>1. dirty' /\ scheduled'
      BY <1>1, <1>3, <2>2, <2>4, SMT
    <3> QED
      BY <3>1, Zenon DEF Covered, Lasting
  <2>5. CASE pass.by = "overflow"
    BY <1>1, <1>3, <2>5, Zenon DEF Covered, Lasting
  <2>6. CASE pass.by \in {"deferred", "catchup"}
    BY <1>1, <1>3, <2>6, Zenon DEF Covered
  <2> QED
    BY <2>3, <2>4, <2>5, <2>6, Zenon DEF PassOwes
<1> QED
  BY <1>1, <1>2, <1>3

\* Whatever is not settled stays owed.
LEMMA OwesInvStep ==
  TypeOK /\ ThreadsOK /\ ControlInv /\ KnowledgeInv /\ OwedInv /\ [Next]_vars => OwesInv'
<1> SUFFICES ASSUME TypeOK, ThreadsOK, ControlInv, KnowledgeInv, OwedInv, [Next]_vars,
                    NEW q \in Paths
             PROVE  Covered(q)' \/ Settled(q)' \/ PassOwes'
  BY Zenon DEF OwesInv
<1>1. CASE Covered(q)
  BY <1>1, CoveredOrSettled, Zenon
<1>2. CASE Settled(q)
  BY <1>2, SettledStays, Zenon
<1>3. CASE PassOwes /\ ~Covered(q)
  BY <1>3, PassGoesOn, EndPassSettles, Zenon
<1> QED
  BY <1>1, <1>2, <1>3, Zenon DEF OwedInv, OwesInv

\* What a walk has seen is so, or a change to it is owed.
LEMMA WalkInvStep ==
  TypeOK /\ ThreadsOK /\ ControlInv /\ KnowledgeInv /\ OwedInv /\ [Next]_vars => WalkInv'
<1> SUFFICES ASSUME TypeOK, ThreadsOK, ControlInv, KnowledgeInv, OwedInv, [Next]_vars
             PROVE  WalkInv'
  OBVIOUS
<1>c. pass.at \in {"walk", "read"} \/ build.by = "reload" =>
        \A q \in Paths : Covered(q) => Covered(q)'
  BY CoveredInPass, Zenon
<1>w. WalkInv
  BY Zenon DEF OwedInv
<1>0. ASSUME UNCHANGED <<disk, pass, watched>> PROVE WalkInv'
  BY <1>0, <1>c, <1>w, Zenon DEF WalkInv, VersionOn
<1>1. CASE UNCHANGED vars
  <2>1. UNCHANGED <<disk, pass, watched>>
    BY <1>1 DEF vars, file
  <2> QED
    BY <1>0, <2>1
<1>2. CASE Environment
  <2>1. ASSUME PeriodicPass PROVE WalkInv'
    <3>1. pass'.left = Paths /\ \A q \in Paths : pass'.got[q] = None
      BY <2>1, PassBegins, Zenon
    <3> QED
      BY <3>1, Zenon DEF WalkInv
  <2>2. ASSUME NEW p \in Paths, NEW d \in Contents, Write(p, d) PROVE WalkInv'
    <3>1. /\ Covered(p)' \/ ~watched'
          /\ \A q \in Paths \ {p} : disk'[q] = disk[q]
          /\ pass' = pass /\ watched' = watched
      BY <2>2, ChangeIsOwed, Zenon
    <3>2. ASSUME pass.at = "walk", NEW q \in Paths
          PROVE  /\ pass'.got[q] = None
                 /\ q \in pass'.left \/ Covered(q)' \/ ~watched' \/ pass'.seen[q] = VersionOn(q)'
      <4>1. /\ pass.got[q] = None
            /\ q \in pass.left \/ Covered(q) \/ ~watched \/ pass.seen[q] = VersionOn(q)
        BY <1>w, <3>2, Zenon DEF WalkInv
      <4>2. CASE q = p
        BY <3>1, <4>1, <4>2, Zenon
      <4>3. CASE q # p
        <5>1. VersionOn(q)' = VersionOn(q)
          BY <3>1, <3>2, <4>3, Zenon DEF VersionOn
        <5> QED
          BY <1>c, <3>1, <3>2, <4>1, <5>1, Zenon
      <4> QED
        BY <4>2, <4>3
    <3> QED
      BY <3>1, <3>2, Zenon DEF WalkInv
  <2>3. ASSUME NEW p \in Paths, Remove(p) PROVE WalkInv'
    <3>1. /\ Covered(p)' \/ ~watched'
          /\ \A q \in Paths \ {p} : disk'[q] = disk[q]
          /\ pass' = pass /\ watched' = watched
      BY <2>3, ChangeIsOwed, Zenon
    <3>2. ASSUME pass.at = "walk", NEW q \in Paths
          PROVE  /\ pass'.got[q] = None
                 /\ q \in pass'.left \/ Covered(q)' \/ ~watched' \/ pass'.seen[q] = VersionOn(q)'
      <4>1. /\ pass.got[q] = None
            /\ q \in pass.left \/ Covered(q) \/ ~watched \/ pass.seen[q] = VersionOn(q)
        BY <1>w, <3>2, Zenon DEF WalkInv
      <4>2. CASE q = p
        BY <3>1, <4>1, <4>2, Zenon
      <4>3. CASE q # p
        <5>1. VersionOn(q)' = VersionOn(q)
          BY <3>1, <3>2, <4>3, Zenon DEF VersionOn
        <5> QED
          BY <1>c, <3>1, <3>2, <4>1, <5>1, Zenon
      <4> QED
        BY <4>2, <4>3
    <3> QED
      BY <3>1, <3>2, Zenon DEF WalkInv
  <2>4. ASSUME BeginReload PROVE WalkInv'
    <3>1. pass'.at # "walk"
      BY <2>4, PassMoves, SMT
    <3> QED
      BY <3>1, Zenon DEF WalkInv
  <2>5. ASSUME BeginSave PROVE WalkInv'
    <3>1. pass'.at # "walk"
      BY <2>5, PassSaves, SMT
    <3> QED
      BY <3>1, Zenon DEF WalkInv
  <2>6. ASSUME RulesEvent \/ TurnToPolling \/ (\E p \in Paths : Admit(p))
        PROVE  WalkInv'
    <3>1. UNCHANGED <<disk, pass, watched>>
      BY <2>6, Zenon DEF RulesEvent, TurnToPolling, Admit, SearchFrame, file
    <3> QED
      BY <1>0, <3>1
  <2> QED
    BY <1>2, <2>1, <2>2, <2>3, <2>4, <2>5, <2>6 DEF Environment
<1>3. CASE Checkpoint
  <2>1. UNCHANGED <<disk, pass, watched>>
    BY <1>3, Zenon DEF Checkpoint, file
  <2> QED
    BY <1>0, <2>1
<1>4. CASE Events
  <2>1. ASSUME (\E p \in Paths : TakeEvent(p)) \/ (\E p \in Paths : ReplayEvent(p)) \/ (\E a
               \in Actors : Defer(a)) \/ (\E a \in Actors : Enter(a)) \/ (\E a \in Actors :
               DropGone(a)) \/ (\E a \in Actors : Open(a)) \/ (\E a \in Actors : Verify(a))
        PROVE  WalkInv'
    <3>1. UNCHANGED <<disk, pass, watched>>
      BY <2>1, Zenon DEF TakeEvent, ReplayEvent, Defer, Enter, DropGone, Open, Verify, file
    <3> QED
      BY <1>0, <3>1
  <2> QED
    BY <1>4, <2>1 DEF Events
<1>5. CASE Recovering
  <2>1. ASSUME RecoveryReplays \/ RecoveryScans \/ (\E p \in Paths : ScanOne(p)) \/
               RecoveryEnds
        PROVE  WalkInv'
    <3>1. UNCHANGED <<disk, pass, watched>>
      BY <2>1, Zenon DEF RecoveryReplays, RecoveryScans, ScanOne, RecoveryEnds, file
    <3> QED
      BY <1>0, <3>1
  <2> QED
    BY <1>5, <2>1 DEF Recovering
<1>6. CASE Ignoring
  <2>1. ASSUME IgnoreChecks \/ IgnoreWaits \/ IgnoreClears \/ IgnoreRechecks
        PROVE  WalkInv'
    <3>1. UNCHANGED <<disk, pass, watched>>
      BY <2>1, Zenon DEF IgnoreChecks, IgnoreWaits, IgnoreClears, IgnoreRechecks, file
    <3> QED
      BY <1>0, <3>1
  <2> QED
    BY <1>6, <2>1 DEF Ignoring
<1>7. CASE Begins
  <2>1. ASSUME Begins PROVE WalkInv'
    <3>1. pass'.left = Paths /\ \A q \in Paths : pass'.got[q] = None
      BY <2>1, PassBegins, Zenon
    <3> QED
      BY <3>1, Zenon DEF WalkInv
  <2> QED
    BY <1>7, <2>1
<1>8. CASE Passing
  <2>1. ASSUME NEW p \in Paths, Walk(p) PROVE WalkInv'
    <3>1. /\ pass.at = "walk" /\ pass'.left = pass.left \ {p} /\ pass'.got = pass.got
          /\ pass'.seen[p] = VersionOn(p) /\ \A q \in Paths \ {p} : pass'.seen[q] = pass.seen[q]
          /\ disk' = disk /\ watched' = watched
      BY <2>1, PassWalks, WalkDoes, Zenon DEF Walk
    <3>2. ASSUME NEW q \in Paths
          PROVE  /\ pass'.got[q] = None
                 /\ q \in pass'.left \/ Covered(q)' \/ ~watched' \/ pass'.seen[q] = VersionOn(q)'
      <4>1. /\ pass.got[q] = None
            /\ q \in pass.left \/ Covered(q) \/ ~watched \/ pass.seen[q] = VersionOn(q)
        BY <1>w, <3>1, Zenon DEF WalkInv
      <4>2. VersionOn(q)' = VersionOn(q)
        BY <3>1, Zenon DEF VersionOn
      <4> QED
        BY <1>c, <3>1, <4>1, <4>2, Zenon
    <3> QED
      BY <3>2, Zenon DEF WalkInv
  <2>2. ASSUME NEW p \in Paths, Read(p) PROVE WalkInv'
    <3>1. pass'.at # "walk"
      BY <2>2, PassReads, SMT
    <3> QED
      BY <3>1, Zenon DEF WalkInv
  <2>3. ASSUME NEW p \in Paths, PassScans(p) PROVE WalkInv'
    <3>1. pass'.at # "walk"
      BY <2>3, PassMoves, PassScansDoes, SMT
    <3> QED
      BY <3>1, Zenon DEF WalkInv
  <2>4. ASSUME Classify PROVE WalkInv'
    <3>1. pass'.at # "walk"
      BY <2>4, PassClassifies, SMT
    <3> QED
      BY <3>1, Zenon DEF WalkInv
  <2>5. ASSUME Publish PROVE WalkInv'
    <3>1. pass'.at # "walk"
      BY <2>5, PassMoves, SMT
    <3> QED
      BY <3>1, Zenon DEF WalkInv
  <2>6. ASSUME EndPass PROVE WalkInv'
    <3>1. pass'.at # "walk"
      BY <2>6, PassMoves, NewPasses, SMT
    <3> QED
      BY <3>1, Zenon DEF WalkInv
  <2>7. ASSUME StartupYields
        PROVE  WalkInv'
    <3>1. UNCHANGED <<disk, pass, watched>>
      BY <2>7, Zenon DEF StartupYields, file
    <3> QED
      BY <1>0, <3>1
  <2> QED
    BY <1>8, <2>1, <2>2, <2>3, <2>4, <2>5, <2>6, <2>7 DEF Passing
<1>9. CASE Building
  <2>1. ASSUME BuildPublish PROVE WalkInv'
    <3>1. GateFree /\ pass' = pass
      BY <2>1, BuildPublishDoes, Zenon
    <3>2. pass'.at # "walk"
      BY <3>1, PassIsAlone, Zenon
    <3> QED
      BY <3>2, Zenon DEF WalkInv
  <2>2. ASSUME (\E p \in Paths : BuildRead(p)) \/ BuildFails \/ BuildEnds
        PROVE  WalkInv'
    <3>1. UNCHANGED <<disk, pass, watched>>
      BY <2>2, Zenon DEF BuildRead, BuildFails, BuildEnds, file
    <3> QED
      BY <1>0, <3>1
  <2> QED
    BY <1>9, <2>1, <2>2 DEF Building
<1>10. CASE Reloading
  <2>1. ASSUME ReloadPublish PROVE WalkInv'
    <3>1. pass'.at # "walk"
      BY <2>1, PassMoves, NewPasses, SMT
    <3> QED
      BY <3>1, Zenon DEF WalkInv
  <2>2. ASSUME ReloadFails PROVE WalkInv'
    <3>1. pass'.at # "walk"
      BY <2>2, PassMoves, NewPasses, SMT
    <3> QED
      BY <3>1, Zenon DEF WalkInv
  <2>3. ASSUME ReloadReplays \/ ReloadRests
        PROVE  WalkInv'
    <3>1. UNCHANGED <<disk, pass, watched>>
      BY <2>3, Zenon DEF ReloadReplays, ReloadRests, file
    <3> QED
      BY <1>0, <3>1
  <2> QED
    BY <1>10, <2>1, <2>2, <2>3 DEF Reloading
<1>11. CASE Searching
  <2>1. ASSUME Load \/ ReadFile \/ UpdateCache
        PROVE  WalkInv'
    <3>1. UNCHANGED <<disk, pass, watched>>
      BY <2>1, Zenon DEF Load, SearchFrame, ReadFile, UpdateCache, file
    <3> QED
      BY <1>0, <3>1
  <2> QED
    BY <1>11, <2>1 DEF Searching
<1> QED
  BY <1>1, <1>2, <1>3, <1>4, <1>5, <1>6, <1>7, <1>8, <1>9, <1>10, <1>11 DEF Next, Progress

\* What a reload has read is so, or a change to it is owed.
LEMMA ReloadInvStep ==
  TypeOK /\ ThreadsOK /\ ControlInv /\ KnowledgeInv /\ OwedInv /\ [Next]_vars => ReloadInv'
<1> SUFFICES ASSUME TypeOK, ThreadsOK, ControlInv, KnowledgeInv, OwedInv, [Next]_vars
             PROVE  ReloadInv'
  OBVIOUS
<1>c. pass.at \in {"walk", "read"} \/ build.by = "reload" =>
        \A q \in Paths : Covered(q) => Covered(q)'
  BY CoveredInPass, Zenon
<1>w. ReloadInv
  BY Zenon DEF OwedInv
<1>0. ASSUME UNCHANGED <<build, disk>> PROVE ReloadInv'
  BY <1>0, <1>c, <1>w, Zenon DEF ReloadInv
<1>1. CASE UNCHANGED vars
  <2>1. UNCHANGED <<build, disk>>
    BY <1>1 DEF vars, file
  <2> QED
    BY <1>0, <2>1
<1>2. CASE Environment
  <2>1. ASSUME NEW p \in Paths, NEW d \in Contents, Write(p, d) PROVE ReloadInv'
    <3>1. /\ Covered(p)' \/ pass.by = "startup"
          /\ \A q \in Paths \ {p} : disk'[q] = disk[q]
          /\ build' = build
      BY <2>1, ChangeIsOwed, Zenon
    <3>2. ASSUME build.by = "reload", NEW q \in Paths \ build.left
          PROVE  Covered(q)' \/ Same(disk'[q], build'.got[q])
      <4>1. Covered(q) \/ Same(disk[q], build.got[q])
        BY <1>w, <3>2, Zenon DEF ReloadInv
      <4>2. pass.by # "startup"
        BY <3>2, SMT DEF ControlInv, BuildInv
      <4> QED
        BY <1>c, <3>1, <3>2, <4>1, <4>2, Zenon
    <3> QED
      BY <3>1, <3>2, Zenon DEF ReloadInv
  <2>2. ASSUME NEW p \in Paths, Remove(p) PROVE ReloadInv'
    <3>1. /\ Covered(p)' \/ pass.by = "startup"
          /\ \A q \in Paths \ {p} : disk'[q] = disk[q]
          /\ build' = build
      BY <2>2, ChangeIsOwed, Zenon
    <3>2. ASSUME build.by = "reload", NEW q \in Paths \ build.left
          PROVE  Covered(q)' \/ Same(disk'[q], build'.got[q])
      <4>1. Covered(q) \/ Same(disk[q], build.got[q])
        BY <1>w, <3>2, Zenon DEF ReloadInv
      <4>2. pass.by # "startup"
        BY <3>2, SMT DEF ControlInv, BuildInv
      <4> QED
        BY <1>c, <3>1, <3>2, <4>1, <4>2, Zenon
    <3> QED
      BY <3>1, <3>2, Zenon DEF ReloadInv
  <2>3. ASSUME BeginReload PROVE ReloadInv'
    <3>1. build'.left = Paths
      BY <2>3, BuildMoves, Zenon
    <3> QED
      BY <3>1, Zenon DEF ReloadInv
  <2>4. ASSUME RulesEvent \/ TurnToPolling \/ PeriodicPass \/ BeginSave \/ (\E p \in Paths :
               Admit(p))
        PROVE  ReloadInv'
    <3>1. UNCHANGED <<build, disk>>
      BY <2>4, Zenon DEF RulesEvent, TurnToPolling, PeriodicPass, BeginPass, BeginSave,
         Admit, SearchFrame,
          file
    <3> QED
      BY <1>0, <3>1
  <2> QED
    BY <1>2, <2>1, <2>2, <2>3, <2>4 DEF Environment
<1>3. CASE Checkpoint
  <2>1. UNCHANGED <<build, disk>>
    BY <1>3, Zenon DEF Checkpoint, file
  <2> QED
    BY <1>0, <2>1
<1>4. CASE Events
  <2>1. ASSUME (\E p \in Paths : TakeEvent(p)) \/ (\E p \in Paths : ReplayEvent(p)) \/ (\E a
               \in Actors : Defer(a)) \/ (\E a \in Actors : Enter(a)) \/ (\E a \in Actors :
               DropGone(a)) \/ (\E a \in Actors : Open(a)) \/ (\E a \in Actors : Verify(a))
        PROVE  ReloadInv'
    <3>1. UNCHANGED <<build, disk>>
      BY <2>1, Zenon DEF TakeEvent, ReplayEvent, Defer, Enter, DropGone, Open, Verify, file
    <3> QED
      BY <1>0, <3>1
  <2> QED
    BY <1>4, <2>1 DEF Events
<1>5. CASE Recovering
  <2>1. ASSUME RecoveryReplays \/ RecoveryScans \/ (\E p \in Paths : ScanOne(p)) \/
               RecoveryEnds
        PROVE  ReloadInv'
    <3>1. UNCHANGED <<build, disk>>
      BY <2>1, Zenon DEF RecoveryReplays, RecoveryScans, ScanOne, RecoveryEnds, file
    <3> QED
      BY <1>0, <3>1
  <2> QED
    BY <1>5, <2>1 DEF Recovering
<1>6. CASE Ignoring
  <2>1. ASSUME IgnoreChecks \/ IgnoreWaits \/ IgnoreClears \/ IgnoreRechecks
        PROVE  ReloadInv'
    <3>1. UNCHANGED <<build, disk>>
      BY <2>1, Zenon DEF IgnoreChecks, IgnoreWaits, IgnoreClears, IgnoreRechecks, file
    <3> QED
      BY <1>0, <3>1
  <2> QED
    BY <1>6, <2>1 DEF Ignoring
<1>7. CASE Begins
  <2>1. ASSUME StartupPass \/ IgnorePass \/ OverflowPass \/ DeferredPass \/ BuildPass \/
               ReloadPass
        PROVE  ReloadInv'
    <3>1. UNCHANGED <<build, disk>>
      BY <2>1, Zenon DEF StartupPass, BeginPass, IgnorePass, OverflowPass, DeferredPass,
         BuildPass,
          ReloadPass, file
    <3> QED
      BY <1>0, <3>1
  <2> QED
    BY <1>7, <2>1 DEF Begins
<1>8. CASE Passing
  <2>1. ASSUME EndPass PROVE ReloadInv'
    <3>1. build' = build \/ build'.by \in {"complete", "failed"}
      BY <2>1, BuildIsCompleted, Zenon
    <3>2. CASE build' = build
      <4>1. disk' = disk
        BY <2>1, EndPassDoes, Zenon
      <4> QED
        BY <1>0, <3>2, <4>1, Zenon
    <3>3. CASE build'.by \in {"complete", "failed"}
      <4>1. build'.by # "reload"
        BY <3>3, SMT
      <4> QED
        BY <4>1, Zenon DEF ReloadInv
    <3> QED
      BY <3>1, <3>2, <3>3
  <2>2. ASSUME (\E p \in Paths : Walk(p)) \/ (\E p \in Paths : Read(p)) \/ (\E p \in Paths :
               PassScans(p)) \/ Classify \/ Publish \/ StartupYields
        PROVE  ReloadInv'
    <3>1. UNCHANGED <<build, disk>>
      BY <2>2, Zenon DEF Walk, Read, PassScans, Classify, Publish, StartupYields, file
    <3> QED
      BY <1>0, <3>1
  <2> QED
    BY <1>8, <2>1, <2>2 DEF Passing
<1>9. CASE Building
  <2>1. ASSUME NEW p \in Paths, BuildRead(p) PROVE ReloadInv'
    <3>1. /\ build'.by = build.by /\ build'.left = build.left \ {p} /\ disk' = disk
          /\ build'.got[p] = disk[p] \/ p \in excused'
          /\ \A q \in Paths \ {p} : build'.got[q] = build.got[q]
      BY <2>1, BuildReads, BuildReadDoes, Zenon
    <3>2. Same(disk[p], disk[p])
      BY Zenon DEF TypeOK, Same
    <3>3. ASSUME build.by = "reload", NEW q \in Paths \ build'.left
          PROVE  Covered(q)' \/ Same(disk'[q], build'.got[q])
      <4>1. CASE q = p
        BY <3>1, <3>2, <4>1, Zenon DEF Covered
      <4>2. CASE q # p
        <5>1. Covered(q) \/ Same(disk[q], build.got[q])
          BY <1>w, <3>1, <3>3, <4>2, Zenon DEF ReloadInv
        <5> QED
          BY <1>c, <3>1, <3>3, <4>2, <5>1, Zenon
      <4> QED
        BY <4>1, <4>2
    <3> QED
      BY <3>1, <3>3, Zenon DEF ReloadInv
  <2>2. ASSUME BuildPublish PROVE ReloadInv'
    <3>1. build'.by # "reload"
      BY <2>2, BuildMoves, SMT
    <3> QED
      BY <3>1, Zenon DEF ReloadInv
  <2>3. ASSUME BuildFails PROVE ReloadInv'
    <3>1. build'.by # "reload"
      BY <2>3, BuildMoves, SMT
    <3> QED
      BY <3>1, Zenon DEF ReloadInv
  <2>4. ASSUME BuildEnds PROVE ReloadInv'
    <3>1. build'.by # "reload"
      BY <2>4, BuildMoves, NewBuilds, SMT
    <3> QED
      BY <3>1, Zenon DEF ReloadInv
  <2> QED
    BY <1>9, <2>1, <2>2, <2>3, <2>4 DEF Building
<1>10. CASE Reloading
  <2>1. ASSUME ReloadPublish PROVE ReloadInv'
    <3>1. build'.by # "reload"
      BY <2>1, BuildMoves, NewBuilds, SMT
    <3> QED
      BY <3>1, Zenon DEF ReloadInv
  <2>2. ASSUME ReloadFails PROVE ReloadInv'
    <3>1. build'.by # "reload"
      BY <2>2, BuildMoves, NewBuilds, SMT
    <3> QED
      BY <3>1, Zenon DEF ReloadInv
  <2>3. ASSUME ReloadReplays \/ ReloadRests
        PROVE  ReloadInv'
    <3>1. UNCHANGED <<build, disk>>
      BY <2>3, Zenon DEF ReloadReplays, ReloadRests, file
    <3> QED
      BY <1>0, <3>1
  <2> QED
    BY <1>10, <2>1, <2>2, <2>3 DEF Reloading
<1>11. CASE Searching
  <2>1. ASSUME Load \/ ReadFile \/ UpdateCache
        PROVE  ReloadInv'
    <3>1. UNCHANGED <<build, disk>>
      BY <2>1, Zenon DEF Load, SearchFrame, ReadFile, UpdateCache, file
    <3> QED
      BY <1>0, <3>1
  <2> QED
    BY <1>11, <2>1 DEF Searching
<1> QED
  BY <1>1, <1>2, <1>3, <1>4, <1>5, <1>6, <1>7, <1>8, <1>9, <1>10, <1>11 DEF Next, Progress

\* A file comes back from being gone with news of it.
LEMMA DropInvStep == TypeOK /\ ThreadsOK /\ ControlInv /\ DropInv /\ [Next]_vars => DropInv'
<1> SUFFICES ASSUME TypeOK, ThreadsOK, ControlInv, DropInv, [Next]_vars
             PROVE  DropInv'
  OBVIOUS
<1>w. DropInv
  OBVIOUS
<1>a. "watcher" \in Actors /\ "watcher" # "replay" /\ "watcher" # "scan"
  BY DEF Actors
<1>0. ASSUME UNCHANGED <<act, disk, overflowed, polling, queue>> PROVE DropInv'
  BY <1>0, <1>w, Zenon DEF DropInv
<1>1. CASE UNCHANGED vars
  <2>1. UNCHANGED <<act, disk, overflowed, polling, queue>>
    BY <1>1 DEF vars, file, notices
  <2> QED
    BY <1>0, <2>1
<1>2. CASE Environment
  <2>1. ASSUME NEW p \in Paths, NEW d \in Contents, Write(p, d) PROVE DropInv'
    <3>1. /\ disk'[p] = None \/ ~watched \/ polling \/ p \in queue' \/ overflowed'
          /\ \A q \in Paths \ {p} : disk'[q] = disk[q]
          /\ queue \subseteq queue' /\ (overflowed => overflowed')
          /\ UNCHANGED <<act, polling>>
      BY <2>1, WriteDoes, RemoveDoes, Zenon
    <3>2. act["watcher"].at = "drop" => watched /\ act["watcher"].path \in Paths
      <4>1. "watcher" \in Actors /\ "drop" \in Touching
        BY DEF Actors, Touching
      <4> QED
        BY <4>1, SMT DEF ControlInv, PendingInv, ThreadsOK
    <3> QED
      BY <1>w, <3>1, <3>2, Zenon DEF DropInv
  <2>2. ASSUME NEW p \in Paths, Remove(p) PROVE DropInv'
    <3>1. /\ disk'[p] = None \/ ~watched \/ polling \/ p \in queue' \/ overflowed'
          /\ \A q \in Paths \ {p} : disk'[q] = disk[q]
          /\ queue \subseteq queue' /\ (overflowed => overflowed')
          /\ UNCHANGED <<act, polling>>
      BY <2>2, WriteDoes, RemoveDoes, Zenon
    <3>2. act["watcher"].at = "drop" => watched /\ act["watcher"].path \in Paths
      <4>1. "watcher" \in Actors /\ "drop" \in Touching
        BY DEF Actors, Touching
      <4> QED
        BY <4>1, SMT DEF ControlInv, PendingInv, ThreadsOK
    <3> QED
      BY <1>w, <3>1, <3>2, Zenon DEF DropInv
  <2>3. ASSUME TurnToPolling PROVE DropInv'
    <3>1. polling'
      BY <2>3, TurnToPollingDoes, Zenon
    <3> QED
      BY <3>1, Zenon DEF DropInv
  <2>4. ASSUME RulesEvent \/ BeginReload \/ PeriodicPass \/ BeginSave \/ (\E p \in Paths :
               Admit(p))
        PROVE  DropInv'
    <3>1. UNCHANGED <<act, disk, overflowed, polling, queue>>
      BY <2>4, Zenon DEF RulesEvent, BeginReload, PeriodicPass, BeginPass, BeginSave,
         Admit, SearchFrame,
          file, notices
    <3> QED
      BY <1>0, <3>1
  <2> QED
    BY <1>2, <2>1, <2>2, <2>3, <2>4 DEF Environment
<1>3. CASE Checkpoint
  <2>1. UNCHANGED <<act, disk, overflowed, polling, queue>>
    BY <1>3, Zenon DEF Checkpoint, file, notices
  <2> QED
    BY <1>0, <2>1
<1>4. CASE Events
  <2>1. ASSUME NEW p \in Paths, TakeEvent(p) PROVE DropInv'
    <3>1. polling \/ act'["watcher"].at \in {"defer", "gate"}
      BY <2>1, TakeEventDoes, SMT
    <3>2. polling' = polling
      BY <2>1, TakeEventDoes, Zenon
    <3>3. act'["watcher"].at \in {"defer", "gate"} => act'["watcher"].at # "drop"
      BY SMT
    <3> QED
      BY <3>1, <3>2, <3>3, Zenon DEF DropInv
  <2>2. ASSUME NEW p \in Paths, ReplayEvent(p) PROVE DropInv'
    <3>1. act'["watcher"] = act["watcher"] /\ UNCHANGED <<disk, queue, overflowed, polling>>
      BY <2>2, <1>a, ReplayEventDoes, Zenon DEF Actors
    <3> QED
      BY <1>w, <3>1, Zenon DEF DropInv
  <2>3. ASSUME NEW a \in Actors, Defer(a) PROVE DropInv'
    <3>1. /\ \A c \in Actors \ {a} : act'[c] = act[c]
          /\ UNCHANGED <<disk, queue, overflowed, polling>>
      BY <2>3, DeferDoes, Zenon
    <3>2. act'[a].at # "drop"
      <4>1. act'[a].at \in {"gate", "idle"}
        BY <2>3, DeferDoes, Zenon
      <4> QED
        BY <4>1, SMT
    <3>3. CASE a = "watcher"
      BY <3>1, <3>2, <3>3, Zenon DEF DropInv
    <3>4. CASE a # "watcher"
      <4>1. act'["watcher"] = act["watcher"]
        BY <1>a, <3>1, <3>4, Zenon
      <4> QED
        BY <1>w, <3>1, <4>1, Zenon DEF DropInv
    <3> QED
      BY <3>3, <3>4
  <2>4. ASSUME NEW a \in Actors, Enter(a) PROVE DropInv'
    <3>1. /\ \A c \in Actors \ {a} : act'[c] = act[c]
          /\ UNCHANGED <<disk, queue, overflowed, polling>>
      BY <2>4, EnterDoes, Zenon
    <3>2. act'[a].at = "drop" => act'[a].path = act[a].path /\ disk[act[a].path] = None
      BY <2>4, EnterDoes, SMT
    <3>3. CASE a = "watcher"
      BY <3>1, <3>2, <3>3, Zenon DEF DropInv
    <3>4. CASE a # "watcher"
      <4>1. act'["watcher"] = act["watcher"]
        BY <1>a, <3>1, <3>4, Zenon
      <4> QED
        BY <1>w, <3>1, <4>1, Zenon DEF DropInv
    <3> QED
      BY <3>3, <3>4
  <2>5. ASSUME NEW a \in Actors, DropGone(a) PROVE DropInv'
    <3>1. /\ \A c \in Actors \ {a} : act'[c] = act[c]
          /\ UNCHANGED <<disk, queue, overflowed, polling>>
      BY <2>5, DropGoneDoes, Zenon
    <3>2. act'[a].at # "drop"
      BY <2>5, DropGoneDoes, SMT
    <3>3. CASE a = "watcher"
      BY <3>1, <3>2, <3>3, Zenon DEF DropInv
    <3>4. CASE a # "watcher"
      <4>1. act'["watcher"] = act["watcher"]
        BY <1>a, <3>1, <3>4, Zenon
      <4> QED
        BY <1>w, <3>1, <4>1, Zenon DEF DropInv
    <3> QED
      BY <3>3, <3>4
  <2>6. ASSUME NEW a \in Actors, Open(a) PROVE DropInv'
    <3>1. /\ \A c \in Actors \ {a} : act'[c] = act[c]
          /\ UNCHANGED <<disk, queue, overflowed, polling>>
      BY <2>6, OpenDoes, Zenon
    <3>2. act'[a].at # "drop"
      BY <2>6, OpenDoes, SMT
    <3>3. CASE a = "watcher"
      BY <3>1, <3>2, <3>3, Zenon DEF DropInv
    <3>4. CASE a # "watcher"
      <4>1. act'["watcher"] = act["watcher"]
        BY <1>a, <3>1, <3>4, Zenon
      <4> QED
        BY <1>w, <3>1, <4>1, Zenon DEF DropInv
    <3> QED
      BY <3>3, <3>4
  <2>7. ASSUME NEW a \in Actors, Verify(a) PROVE DropInv'
    <3>1. /\ \A c \in Actors \ {a} : act'[c] = act[c]
          /\ UNCHANGED <<disk, queue, overflowed, polling>>
      BY <2>7, VerifyDoes, Zenon
    <3>2. act'[a].at # "drop"
      BY <2>7, VerifyDoes, SMT
    <3>3. CASE a = "watcher"
      BY <3>1, <3>2, <3>3, Zenon DEF DropInv
    <3>4. CASE a # "watcher"
      <4>1. act'["watcher"] = act["watcher"]
        BY <1>a, <3>1, <3>4, Zenon
      <4> QED
        BY <1>w, <3>1, <4>1, Zenon DEF DropInv
    <3> QED
      BY <3>3, <3>4
  <2> QED
    BY <1>4, <2>1, <2>2, <2>3, <2>4, <2>5, <2>6, <2>7 DEF Events
<1>5. CASE Recovering
  <2>1. ASSUME NEW p \in Paths, ScanOne(p) PROVE DropInv'
    <3>1. act'["watcher"] = act["watcher"] /\ UNCHANGED <<disk, queue, overflowed, polling>>
      BY <2>1, <1>a, ScanOneDoes, Zenon DEF Actors
    <3> QED
      BY <1>w, <3>1, Zenon DEF DropInv
  <2>2. ASSUME RecoveryReplays \/ RecoveryScans \/ RecoveryEnds
        PROVE  DropInv'
    <3>1. UNCHANGED <<act, disk, overflowed, polling, queue>>
      BY <2>2, Zenon DEF RecoveryReplays, RecoveryScans, RecoveryEnds, file, notices
    <3> QED
      BY <1>0, <3>1
  <2> QED
    BY <1>5, <2>1, <2>2 DEF Recovering
<1>6. CASE Ignoring
  <2>1. ASSUME IgnoreChecks \/ IgnoreWaits \/ IgnoreClears \/ IgnoreRechecks
        PROVE  DropInv'
    <3>1. UNCHANGED <<act, disk, overflowed, polling, queue>>
      BY <2>1, Zenon DEF IgnoreChecks, IgnoreWaits, IgnoreClears, IgnoreRechecks, file,
         notices
    <3> QED
      BY <1>0, <3>1
  <2> QED
    BY <1>6, <2>1 DEF Ignoring
<1>7. CASE Begins
  <2>1. ASSUME OverflowPass PROVE DropInv'
    <3>1. act'["watcher"].at = "idle"
      BY <2>1, OverflowPassDoes, Zenon
    <3>2. act'["watcher"].at # "drop"
      BY <3>1, SMT
    <3> QED
      BY <3>2, Zenon DEF DropInv
  <2>2. ASSUME StartupPass \/ IgnorePass \/ DeferredPass \/ BuildPass \/ ReloadPass
        PROVE  DropInv'
    <3>1. UNCHANGED <<act, disk, overflowed, polling, queue>>
      BY <2>2, Zenon DEF StartupPass, BeginPass, IgnorePass, DeferredPass, BuildPass,
         ReloadPass, file,
          notices
    <3> QED
      BY <1>0, <3>1
  <2> QED
    BY <1>7, <2>1, <2>2 DEF Begins
<1>8. CASE Passing
  <2>1. ASSUME NEW p \in Paths, PassScans(p) PROVE DropInv'
    <3>1. act'["watcher"] = act["watcher"] /\ UNCHANGED <<disk, queue, overflowed, polling>>
      BY <2>1, <1>a, PassScansDoes, Zenon DEF Actors
    <3> QED
      BY <1>w, <3>1, Zenon DEF DropInv
  <2>2. ASSUME EndPass PROVE DropInv'
    <3>1. UNCHANGED <<act, disk, queue, polling>> /\ (overflowed => overflowed')
      BY <2>2, EndPassDoes, Zenon
    <3> QED
      BY <1>w, <3>1, Zenon DEF DropInv
  <2>3. ASSUME (\E p \in Paths : Walk(p)) \/ (\E p \in Paths : Read(p)) \/ Classify \/
               Publish \/ StartupYields
        PROVE  DropInv'
    <3>1. UNCHANGED <<act, disk, overflowed, polling, queue>>
      BY <2>3, Zenon DEF Walk, Read, Classify, Publish, StartupYields, file, notices
    <3> QED
      BY <1>0, <3>1
  <2> QED
    BY <1>8, <2>1, <2>2, <2>3 DEF Passing
<1>9. CASE Building
  <2>1. ASSUME (\E p \in Paths : BuildRead(p)) \/ BuildPublish \/ BuildFails \/ BuildEnds
        PROVE  DropInv'
    <3>1. UNCHANGED <<act, disk, overflowed, polling, queue>>
      BY <2>1, Zenon DEF BuildRead, BuildPublish, BuildFails, BuildEnds, file, notices
    <3> QED
      BY <1>0, <3>1
  <2> QED
    BY <1>9, <2>1 DEF Building
<1>10. CASE Reloading
  <2>1. ASSUME ReloadPublish \/ ReloadFails \/ ReloadReplays \/ ReloadRests
        PROVE  DropInv'
    <3>1. UNCHANGED <<act, disk, overflowed, polling, queue>>
      BY <2>1, Zenon DEF ReloadPublish, ReloadFails, ReloadReplays, ReloadRests, file,
         notices
    <3> QED
      BY <1>0, <3>1
  <2> QED
    BY <1>10, <2>1 DEF Reloading
<1>11. CASE Searching
  <2>1. ASSUME Load \/ ReadFile \/ UpdateCache
        PROVE  DropInv'
    <3>1. UNCHANGED <<act, disk, overflowed, polling, queue>>
      BY <2>1, Zenon DEF Load, SearchFrame, ReadFile, UpdateCache, file, notices
    <3> QED
      BY <1>0, <3>1
  <2> QED
    BY <1>11, <2>1 DEF Searching
<1> QED
  BY <1>1, <1>2, <1>3, <1>4, <1>5, <1>6, <1>7, <1>8, <1>9, <1>10, <1>11 DEF Next, Progress

\* A file that is as a walk saw it, and as it was known to be, is settled.
LEMMA FoundIsSettled ==
  ASSUME TypeOK, VersionsInv, IndexInv, NEW q \in Paths, overlay[q] = None,
         IF VersionOn(q) = None THEN Old(q) = None /\ ~Indexed(q) ELSE Old(q) = VersionOn(q)
  PROVE  Settled(q)
<1>1. disk[q] \in Copies \cup {None} /\ reader[q] \in Copies \cup {None}
  BY Zenon DEF TypeOK
<1>2. Visible(q) = reader[q]
  BY Zenon DEF Visible
<1>3. Firm(overlay[q], evidence[q]) <=> evidence[q].ver # Unknown
  BY Sentinels, Zenon DEF Firm
<1>4. CASE disk[q] = None
  <2>1. VersionOn(q) = None
    BY <1>4, Sentinels, Zenon DEF VersionOn
  <2>2. evidence[q].ver = None /\ reader[q] = None
    BY <2>1, Zenon DEF Old, Indexed
  <2> QED
    BY <1>2, <1>3, <1>4, <2>2, Sentinels, Zenon DEF Settled, Same
<1>5. CASE disk[q] \in Copies
  <2>1. VersionOn(q) = disk[q].ver /\ disk[q].ver \in Versions /\ disk[q] # None
    BY <1>5, Sentinels, Zenon DEF VersionOn
  <2>2. Old(q) = VersionOn(q)
    BY <2>1, Sentinels, Zenon
  <2>3. Fresh(q)
    BY <2>1, <2>2, DetectableByInv, Zenon DEF StaleIsDetectable
  <2>4. Same(disk[q], Visible(q))
    BY <1>1, <1>2, <2>1, <2>3, Zenon DEF Fresh, Same
  <2>5. evidence[q].ver # Unknown
    <3>1. CASE evidence[q].ver = None
      BY <3>1, Sentinels
    <3>2. CASE evidence[q].ver # None
      BY <2>1, <2>2, <3>2, Sentinels, Zenon DEF Old
    <3> QED
      BY <3>1, <3>2
  <2> QED
    BY <1>3, <2>4, <2>5, Zenon DEF Settled
<1> QED
  BY <1>1, <1>4, <1>5

\* Where a pass has walked all there is, a file that nobody owes is as it saw
\* it, or is to be scanned, unless the failure to read it is remembered.
LEMMA WalkedIsSeen ==
  ASSUME TypeOK, ThreadsOK, ControlInv, KnowledgeInv, OwedInv, Classify, NEW q \in Paths,
         ~Covered(q)
  PROVE  /\ pass.got[q] = None
         /\ \/ PassOwes /\ pass'.scan = Paths
            \/ pass.seen[q] = VersionOn(q) /\ q \notin SkippedIn(pass.seen)
            \/ pass'.at = "failed"
<1>1. /\ pass.at = "walk" /\ pass.left = {}
      /\ \/ pass'.scan = IF watched \/ pass.by \in {"build", "catchup"} THEN {} ELSE Paths
         \/ pass'.at = "failed"
  BY PassClassifies, Zenon
<1>2. /\ pass.got[q] = None
      /\ ~watched \/ pass.seen[q] = VersionOn(q)
  BY <1>1, Zenon DEF OwedInv, WalkInv
<1>3. ASSUME ~watched
      PROVE  PassOwes /\ pass.by \notin {"build", "catchup"}
  <2>1. pending
    BY <1>3, Zenon DEF ControlInv, PendingInv
  <2>2. startup /\ ~(build.by \in {"startup", "failed"})
    BY <2>1, Zenon DEF ControlInv, PendingInv, Covered, Lasting
  <2>3. pass.by = "startup"
    BY <2>2, Zenon DEF Covered, Lasting
  <2> QED
    BY <2>3, SMT DEF PassOwes
<1>4. ASSUME pass.seen[q] = VersionOn(q)
      PROVE  q \notin SkippedIn(pass.seen)
  <2>1. SUFFICES ASSUME q \in SkippedIn(pass.seen) PROVE FALSE
    OBVIOUS
  <2>2. memo[q] = VersionOn(q) /\ VersionOn(q) # None
    BY <1>4, <2>1, Zenon DEF SkippedIn
  <2>3. VersionOn(q) \in Versions
    BY <2>2, Sentinels, Zenon DEF VersionOn
  <2>4. q \in excused
    BY <2>2, <2>3, Zenon DEF KnowledgeInv, MemoInv
  <2> QED
    BY <2>4, Zenon DEF Covered
<1>5. CASE watched
  BY <1>2, <1>4, <1>5, Zenon
<1>6. CASE ~watched
  BY <1>1, <1>2, <1>3, <1>6, Zenon
<1> QED
  BY <1>5, <1>6

\* What a pass is to settle it will, or it is owed.
LEMMA MergeInvStep ==
  TypeOK /\ ThreadsOK /\ ControlInv /\ KnowledgeInv /\ OwedInv /\ [Next]_vars => MergeInv'
<1> SUFFICES ASSUME TypeOK, ThreadsOK, ControlInv, KnowledgeInv, OwedInv, [Next]_vars
             PROVE  MergeInv'
  OBVIOUS
<1>c. pass.at \in {"walk", "read"} \/ build.by = "reload" =>
        \A q \in Paths : Covered(q) => Covered(q)'
  BY CoveredInPass, Zenon
<1>k. VersionsInv /\ IndexInv /\ ReadInv /\ DropInv
  BY Zenon DEF KnowledgeInv, OwedInv
<1>w. MergeInv
  BY Zenon DEF OwedInv
<1>0. ASSUME UNCHANGED <<disk, evidence, overlay, pass, reader>> PROVE MergeInv'
  <2>1. \A q \in Paths : VersionOn(q)' = VersionOn(q) /\ Settled(q)' = Settled(q)
    BY <1>0, Zenon DEF VersionOn, Settled, Visible
  <2>2. PassOwes' = PassOwes
    BY <1>0, Zenon DEF PassOwes
  <2>3. pass.at = "read" => \A q \in Paths : Covered(q) => Covered(q)'
    BY <1>c, Zenon
  <2> QED
    BY <1>0, <1>w, <2>1, <2>2, <2>3, Zenon DEF MergeInv
<1>1. CASE UNCHANGED vars
  <2>1. UNCHANGED <<disk, evidence, overlay, pass, reader>>
    BY <1>1 DEF vars, file, index
  <2> QED
    BY <1>0, <2>1
<1>2. CASE Environment
  <2>1. ASSUME PeriodicPass PROVE MergeInv'
    <3>1. pass'.at # "read"
      BY <2>1, PassBegins, SMT
    <3> QED
      BY <3>1, Zenon DEF MergeInv
  <2>2. ASSUME NEW p \in Paths, NEW d \in Contents, Write(p, d) PROVE MergeInv'
    <3>1. /\ Covered(p)' \/ pending
          /\ \A q \in Paths \ {p} : disk'[q] = disk[q]
          /\ UNCHANGED <<pass, reader, overlay, evidence>>
      BY <2>2, ChangeIsOwed, Zenon
    <3>2. ASSUME pass.at = "read", NEW q \in Paths
          PROVE  \/ Covered(q)'
                 \/ q \in pass'.scan /\ PassOwes'
                 \/ q \in pass'.left /\ disk'[q] # None /\ pass'.seen[q] = VersionOn(q)'
                 \/ q \in pass'.cand \ pass'.left /\ Same(disk'[q], pass'.got[q])
                 \/ q \notin pass'.cand \cup pass'.skip /\ Settled(q)'
      <4>1. CASE q = p
        <5>1. ~pending
          BY <3>2, SMT DEF ControlInv, GateInv
        <5> QED
          BY <3>1, <4>1, <5>1, Zenon
      <4>2. CASE q # p
        <5>1. VersionOn(q)' = VersionOn(q) /\ Settled(q)' = Settled(q) /\ PassOwes' = PassOwes
          BY <3>1, <3>2, <4>2, Zenon DEF VersionOn, Settled, Visible, PassOwes
        <5>2. \/ Covered(q)
              \/ q \in pass.scan /\ PassOwes
              \/ q \in pass.left /\ disk[q] # None /\ pass.seen[q] = VersionOn(q)
              \/ q \in pass.cand \ pass.left /\ Same(disk[q], pass.got[q])
              \/ q \notin pass.cand \cup pass.skip /\ Settled(q)
          BY <1>w, <3>2, Zenon DEF MergeInv
        <5> QED
          BY <1>c, <3>1, <3>2, <4>2, <5>1, <5>2, Zenon
      <4> QED
        BY <4>1, <4>2
    <3> QED
      BY <3>1, <3>2, Zenon DEF MergeInv
  <2>3. ASSUME NEW p \in Paths, Remove(p) PROVE MergeInv'
    <3>1. /\ Covered(p)' \/ pending
          /\ \A q \in Paths \ {p} : disk'[q] = disk[q]
          /\ UNCHANGED <<pass, reader, overlay, evidence>>
      BY <2>3, ChangeIsOwed, Zenon
    <3>2. ASSUME pass.at = "read", NEW q \in Paths
          PROVE  \/ Covered(q)'
                 \/ q \in pass'.scan /\ PassOwes'
                 \/ q \in pass'.left /\ disk'[q] # None /\ pass'.seen[q] = VersionOn(q)'
                 \/ q \in pass'.cand \ pass'.left /\ Same(disk'[q], pass'.got[q])
                 \/ q \notin pass'.cand \cup pass'.skip /\ Settled(q)'
      <4>1. CASE q = p
        <5>1. ~pending
          BY <3>2, SMT DEF ControlInv, GateInv
        <5> QED
          BY <3>1, <4>1, <5>1, Zenon
      <4>2. CASE q # p
        <5>1. VersionOn(q)' = VersionOn(q) /\ Settled(q)' = Settled(q) /\ PassOwes' = PassOwes
          BY <3>1, <3>2, <4>2, Zenon DEF VersionOn, Settled, Visible, PassOwes
        <5>2. \/ Covered(q)
              \/ q \in pass.scan /\ PassOwes
              \/ q \in pass.left /\ disk[q] # None /\ pass.seen[q] = VersionOn(q)
              \/ q \in pass.cand \ pass.left /\ Same(disk[q], pass.got[q])
              \/ q \notin pass.cand \cup pass.skip /\ Settled(q)
          BY <1>w, <3>2, Zenon DEF MergeInv
        <5> QED
          BY <1>c, <3>1, <3>2, <4>2, <5>1, <5>2, Zenon
      <4> QED
        BY <4>1, <4>2
    <3> QED
      BY <3>1, <3>2, Zenon DEF MergeInv
  <2>4. ASSUME BeginReload PROVE MergeInv'
    <3>1. pass'.at # "read"
      BY <2>4, PassMoves, SMT
    <3> QED
      BY <3>1, Zenon DEF MergeInv
  <2>5. ASSUME BeginSave PROVE MergeInv'
    <3>1. /\ pass.by = "none"
          /\ pass'.cand = {p \in Paths : overlay[p] # None}
          /\ pass'.left = {p \in pass'.cand : evidence[p].ver # None}
          /\ pass'.skip = {}
          /\ \A p \in Paths : pass'.seen[p] = VersionOn(p) /\ pass'.got[p] = None
          /\ pass'.by = "autosave"
          /\ UNCHANGED <<disk, reader, overlay, evidence>>
      BY <2>5, PassSaves, BeginSaveDoes, Zenon DEF GateFree
    <3>2. ~PassOwes /\ ~PassOwes'
      BY <3>1, SMT DEF PassOwes
    <3>3. ASSUME NEW q \in Paths, ~Covered(q)'
          PROVE  \/ Covered(q)'
                 \/ q \in pass'.scan /\ PassOwes'
                 \/ q \in pass'.left /\ disk'[q] # None /\ pass'.seen[q] = VersionOn(q)'
                 \/ q \in pass'.cand \ pass'.left /\ Same(disk'[q], pass'.got[q])
                 \/ q \notin pass'.cand \cup pass'.skip /\ Settled(q)'
      <4>1. Settled(q)
        <5>1. \A a \in Actors : act[a].at \notin Touching
          BY <2>5, PassSaves, Zenon DEF GateFree, Touching
        <5>2. Remains(q) => Covered(q)'
          BY <3>2, <5>1, Zenon DEF Remains
        <5>3. ~Covered(q)
          BY <3>3, <5>2, CoveredStays, Zenon
        <5> QED
          BY <3>2, <5>3, Zenon DEF OwedInv, OwesInv
      <4>2. Settled(q)'
        BY <3>1, <4>1, Zenon DEF Settled, Visible
      <4>3. CASE overlay[q] = None
        BY <3>1, <4>2, <4>3, Zenon
      <4>4. CASE overlay[q] \in Copies
        <5>1. disk[q] # None /\ evidence[q].ver # None
          BY <4>1, <4>4, Sentinels, Zenon DEF Settled, Same, Visible, Firm
        <5>2. VersionOn(q)' = VersionOn(q)
          BY <3>1, Zenon DEF VersionOn
        <5>3. q \in pass'.left
          BY <3>1, <4>4, <5>1, Sentinels, Zenon
        <5> QED
          BY <3>1, <5>1, <5>2, <5>3, Zenon
      <4>5. CASE overlay[q] = Tombstone
        <5>1. Visible(q) = None
          BY <4>5, Sentinels, Zenon DEF Visible
        <5>2. disk[q] = None
          BY <4>1, <5>1, Sentinels, Zenon DEF Settled, Same
        <5>3. evidence[q].ver = None
          <6>1. evidence[q].data = None
            BY <1>k, <5>1, Zenon DEF IndexInv, KnownInv
          <6>2. evidence[q].ver \notin Versions
            BY <1>k, <6>1, Sentinels, Zenon DEF VersionsInv, IndexVersions, GoodEvidence
          <6>3. evidence[q].ver \in Versions \cup {None, Unknown}
            BY SMT DEF TypeOK, Stamp
          <6> QED
            BY <4>1, <6>2, <6>3, Zenon DEF Settled, Firm
        <5>4. q \in pass'.cand \ pass'.left
          BY <3>1, <4>5, <5>3, Sentinels, Zenon
        <5>5. Same(disk'[q], pass'.got[q])
          BY <3>1, <5>2, Zenon DEF Same
        <5> QED
          BY <5>4, <5>5
      <4> QED
        BY <4>3, <4>4, <4>5, Zenon DEF TypeOK
    <3> QED
      BY <3>3, Zenon DEF MergeInv
  <2>6. ASSUME RulesEvent \/ TurnToPolling \/ (\E p \in Paths : Admit(p))
        PROVE  MergeInv'
    <3>1. UNCHANGED <<disk, evidence, overlay, pass, reader>>
      BY <2>6, Zenon DEF RulesEvent, TurnToPolling, Admit, SearchFrame, file, index
    <3> QED
      BY <1>0, <3>1
  <2> QED
    BY <1>2, <2>1, <2>2, <2>3, <2>4, <2>5, <2>6 DEF Environment
<1>3. CASE Checkpoint
  <2>1. GateFree /\ pass' = pass
    BY <1>3, CheckpointDoes, Zenon DEF Touching
  <2>2. pass'.at # "read"
    BY <2>1, PassIsAlone, Zenon
  <2> QED
    BY <2>2, Zenon DEF MergeInv
<1>4. CASE Events
  <2>1. ASSUME NEW a \in Actors, DropGone(a) PROVE MergeInv'
    <3>1. act[a].at \in Touching /\ pass' = pass
      BY <2>1, DropGoneDoes, Zenon DEF Touching
    <3>2. pass'.at # "read"
      BY <3>1, PassIsAlone, Zenon
    <3> QED
      BY <3>2, Zenon DEF MergeInv
  <2>2. ASSUME NEW a \in Actors, Open(a) PROVE MergeInv'
    <3>1. act[a].at \in Touching /\ pass' = pass
      BY <2>2, OpenDoes, Zenon DEF Touching
    <3>2. pass'.at # "read"
      BY <3>1, PassIsAlone, Zenon
    <3> QED
      BY <3>2, Zenon DEF MergeInv
  <2>3. ASSUME NEW a \in Actors, Verify(a) PROVE MergeInv'
    <3>1. act[a].at \in Touching /\ pass' = pass
      BY <2>3, VerifyDoes, Zenon DEF Touching
    <3>2. pass'.at # "read"
      BY <3>1, PassIsAlone, Zenon
    <3> QED
      BY <3>2, Zenon DEF MergeInv
  <2>4. ASSUME (\E p \in Paths : TakeEvent(p)) \/ (\E p \in Paths : ReplayEvent(p)) \/ (\E a
               \in Actors : Defer(a)) \/ (\E a \in Actors : Enter(a))
        PROVE  MergeInv'
    <3>1. UNCHANGED <<disk, evidence, overlay, pass, reader>>
      BY <2>4, Zenon DEF TakeEvent, ReplayEvent, Defer, Enter, file, index
    <3> QED
      BY <1>0, <3>1
  <2> QED
    BY <1>4, <2>1, <2>2, <2>3, <2>4 DEF Events
<1>5. CASE Recovering
  <2>1. ASSUME RecoveryReplays \/ RecoveryScans \/ (\E p \in Paths : ScanOne(p)) \/
               RecoveryEnds
        PROVE  MergeInv'
    <3>1. UNCHANGED <<disk, evidence, overlay, pass, reader>>
      BY <2>1, Zenon DEF RecoveryReplays, RecoveryScans, ScanOne, RecoveryEnds, file, index
    <3> QED
      BY <1>0, <3>1
  <2> QED
    BY <1>5, <2>1 DEF Recovering
<1>6. CASE Ignoring
  <2>1. ASSUME IgnoreChecks \/ IgnoreWaits \/ IgnoreClears \/ IgnoreRechecks
        PROVE  MergeInv'
    <3>1. UNCHANGED <<disk, evidence, overlay, pass, reader>>
      BY <2>1, Zenon DEF IgnoreChecks, IgnoreWaits, IgnoreClears, IgnoreRechecks, file,
         index
    <3> QED
      BY <1>0, <3>1
  <2> QED
    BY <1>6, <2>1 DEF Ignoring
<1>7. CASE Begins
  <2>1. ASSUME Begins PROVE MergeInv'
    <3>1. pass'.at # "read"
      BY <2>1, PassBegins, SMT
    <3> QED
      BY <3>1, Zenon DEF MergeInv
  <2> QED
    BY <1>7, <2>1
<1>8. CASE Passing
  <2>1. ASSUME NEW p \in Paths, Walk(p) PROVE MergeInv'
    <3>1. pass.at = "walk" /\ pass'.at = pass.at
      BY <2>1, PassWalks, Zenon DEF Walk
    <3>2. pass'.at # "read"
      BY <3>1, SMT
    <3> QED
      BY <3>2, Zenon DEF MergeInv
  <2>2. ASSUME NEW p \in Paths, Read(p) PROVE MergeInv'
    <3>1. /\ pass.at = "read" /\ p \in pass.left /\ pass'.by = pass.by
          /\ pass'.left = pass.left \ {p} /\ pass'.cand = pass.cand /\ pass'.skip = pass.skip
          /\ pass'.scan = pass.scan /\ pass'.seen = pass.seen
          /\ pass'.got[p] = Unread \/ pass'.got[p] = disk[p]
          /\ pass'.got[p] = Unread => disk[p] = None \/ VersionOn(p) # pass.seen[p] \/ p \in excused'
          /\ \A q \in Paths \ {p} : pass'.got[q] = pass.got[q]
          /\ UNCHANGED <<disk, reader, overlay, evidence>>
      BY <2>2, PassReads, ReadDoes, Zenon
    <3>2. p \in pass.cand
      BY <1>k, <3>1, Zenon DEF ReadInv
    <3>3. Same(disk[p], disk[p])
      BY Zenon DEF TypeOK, Same
    <3>4. \A q \in Paths : VersionOn(q)' = VersionOn(q) /\ Settled(q)' = Settled(q)
      BY <3>1, Zenon DEF VersionOn, Settled, Visible
    <3>5. PassOwes' = PassOwes
      BY <3>1, Zenon DEF PassOwes
    <3>6. ASSUME NEW q \in Paths
          PROVE  \/ Covered(q)'
                 \/ q \in pass'.scan /\ PassOwes'
                 \/ q \in pass'.left /\ disk'[q] # None /\ pass'.seen[q] = VersionOn(q)'
                 \/ q \in pass'.cand \ pass'.left /\ Same(disk'[q], pass'.got[q])
                 \/ q \notin pass'.cand \cup pass'.skip /\ Settled(q)'
      <4>1. \/ Covered(q)
            \/ q \in pass.scan /\ PassOwes
            \/ q \in pass.left /\ disk[q] # None /\ pass.seen[q] = VersionOn(q)
            \/ q \in pass.cand \ pass.left /\ Same(disk[q], pass.got[q])
            \/ q \notin pass.cand \cup pass.skip /\ Settled(q)
        BY <1>w, <3>1, Zenon DEF MergeInv
      <4>2. CASE q = p
        <5>1. Covered(p) => Covered(p)'
          BY <1>c, <3>1, Zenon
        <5>2. p \in excused' => Covered(p)'
          BY Zenon DEF Covered
        <5> QED
          BY <3>1, <3>2, <3>3, <3>5, <4>1, <4>2, <5>1, <5>2, Zenon
      <4>3. CASE q # p
        <5>1. Covered(q) => Covered(q)'
          BY <1>c, <3>1, Zenon
        <5> QED
          BY <3>1, <3>4, <3>5, <4>1, <4>3, <5>1, Zenon
      <4> QED
        BY <4>2, <4>3
    <3> QED
      BY <3>6, Zenon DEF MergeInv
  <2>3. ASSUME NEW p \in Paths, PassScans(p) PROVE MergeInv'
    <3>1. pass'.at # "read"
      BY <2>3, PassMoves, PassScansDoes, SMT
    <3> QED
      BY <3>1, Zenon DEF MergeInv
  <2>4. ASSUME Classify PROVE MergeInv'
    <3>1. /\ pass.at = "walk" /\ pass'.by = pass.by /\ pass'.seen = pass.seen
          /\ pass'.got = pass.got /\ UNCHANGED <<disk, reader, overlay, evidence>>
      BY <2>4, PassClassifies, ClassifyDoes, Zenon
    <3>2. CASE pass'.at = "read"
      <4>0. pass'.at # "failed" /\ pass'.at # "scan"
        BY <3>2, SMT
      <4>1. /\ pass'.skip = SkippedIn(pass.seen)
            /\ pass'.cand = CandidatesIn(pass.seen, pass.member)
            /\ pass'.left = {p \in pass'.cand : pass.seen[p] # None}
        BY <2>4, <4>0, PassClassifies, Zenon
      <4>2. ASSUME NEW q \in Paths, ~Covered(q)'
            PROVE  \/ Covered(q)'
                   \/ q \in pass'.scan /\ PassOwes'
                   \/ q \in pass'.left /\ disk'[q] # None /\ pass'.seen[q] = VersionOn(q)'
                   \/ q \in pass'.cand \ pass'.left /\ Same(disk'[q], pass'.got[q])
                   \/ q \notin pass'.cand \cup pass'.skip /\ Settled(q)'
        <5>1. ~Covered(q)
          BY <1>c, <3>1, <4>2, Zenon
        <5>2. /\ pass.got[q] = None
              /\ \/ PassOwes /\ pass'.scan = Paths
                 \/ pass.seen[q] = VersionOn(q) /\ q \notin pass'.skip
          BY <2>4, <4>0, <4>1, <5>1, WalkedIsSeen, Zenon
        <5>3. CASE PassOwes /\ pass'.scan = Paths
          BY <3>1, <5>3, Zenon DEF PassOwes
        <5>4. CASE pass.seen[q] = VersionOn(q) /\ q \notin pass'.skip
          <6>1. VersionOn(q)' = VersionOn(q)
            BY <3>1, Zenon DEF VersionOn
          <6>2. disk[q] = None <=> VersionOn(q) = None
            <7>1. disk[q] \in Copies \cup {None}
              BY Zenon DEF TypeOK
            <7>2. CASE disk[q] \in Copies
              BY <7>2, Sentinels, Zenon DEF VersionOn
            <7>3. CASE disk[q] = None
              BY <7>3, Sentinels, Zenon DEF VersionOn
            <7> QED
              BY <7>1, <7>2, <7>3
          <6>3. CASE q \in pass'.cand /\ disk[q] = None
            <7>1. q \notin pass'.left
              BY <4>1, <5>4, <6>2, <6>3, Zenon
            <7>2. Same(disk'[q], pass'.got[q])
              BY <3>1, <5>2, <6>3, Zenon DEF Same
            <7> QED
              BY <6>3, <7>1, <7>2, Zenon
          <6>4. CASE q \in pass'.cand /\ disk[q] # None
            BY <3>1, <4>1, <5>4, <6>1, <6>2, <6>4, Zenon
          <6>5. CASE q \notin pass'.cand
            <7>1. /\ overlay[q] = None
                  /\ pass.seen[q] # None => Old(q) = pass.seen[q]
                  /\ pass.seen[q] = None => Old(q) = None /\ ~Indexed(q)
              BY <4>1, <5>4, <6>5, Zenon DEF CandidatesIn, ChangedIn, DeletedIn
            <7>2. IF VersionOn(q) = None THEN Old(q) = None /\ ~Indexed(q) ELSE Old(q) = VersionOn(q)
              BY <5>4, <7>1, Zenon
            <7>3. Settled(q)
              BY <1>k, <7>1, <7>2, FoundIsSettled, Zenon
            <7>4. Settled(q)'
              BY <3>1, <7>3, Zenon DEF Settled, Visible
            <7> QED
              BY <5>4, <6>5, <7>4, Zenon
          <6> QED
            BY <6>3, <6>4, <6>5
        <5> QED
          BY <5>2, <5>3, <5>4
      <4> QED
        BY <4>2, Zenon DEF MergeInv
    <3> QED
      BY <3>2, Zenon DEF MergeInv
  <2>5. ASSUME Publish PROVE MergeInv'
    <3>1. pass'.at # "read"
      BY <2>5, PassMoves, SMT
    <3> QED
      BY <3>1, Zenon DEF MergeInv
  <2>6. ASSUME EndPass PROVE MergeInv'
    <3>1. pass'.at # "read"
      BY <2>6, PassMoves, NewPasses, SMT
    <3> QED
      BY <3>1, Zenon DEF MergeInv
  <2>7. ASSUME StartupYields
        PROVE  MergeInv'
    <3>1. UNCHANGED <<disk, evidence, overlay, pass, reader>>
      BY <2>7, Zenon DEF StartupYields, file, index
    <3> QED
      BY <1>0, <3>1
  <2> QED
    BY <1>8, <2>1, <2>2, <2>3, <2>4, <2>5, <2>6, <2>7 DEF Passing
<1>9. CASE Building
  <2>1. ASSUME BuildPublish PROVE MergeInv'
    <3>1. GateFree /\ pass' = pass
      BY <2>1, BuildPublishDoes, Zenon DEF Touching
    <3>2. pass'.at # "read"
      BY <3>1, PassIsAlone, Zenon
    <3> QED
      BY <3>2, Zenon DEF MergeInv
  <2>2. ASSUME (\E p \in Paths : BuildRead(p)) \/ BuildFails \/ BuildEnds
        PROVE  MergeInv'
    <3>1. UNCHANGED <<disk, evidence, overlay, pass, reader>>
      BY <2>2, Zenon DEF BuildRead, BuildFails, BuildEnds, file, index
    <3> QED
      BY <1>0, <3>1
  <2> QED
    BY <1>9, <2>1, <2>2 DEF Building
<1>10. CASE Reloading
  <2>1. ASSUME ReloadPublish PROVE MergeInv'
    <3>1. pass'.at # "read"
      BY <2>1, PassMoves, NewPasses, SMT
    <3> QED
      BY <3>1, Zenon DEF MergeInv
  <2>2. ASSUME ReloadFails PROVE MergeInv'
    <3>1. pass'.at # "read"
      BY <2>2, PassMoves, NewPasses, SMT
    <3> QED
      BY <3>1, Zenon DEF MergeInv
  <2>3. ASSUME ReloadReplays \/ ReloadRests
        PROVE  MergeInv'
    <3>1. UNCHANGED <<disk, evidence, overlay, pass, reader>>
      BY <2>3, Zenon DEF ReloadReplays, ReloadRests, file, index
    <3> QED
      BY <1>0, <3>1
  <2> QED
    BY <1>10, <2>1, <2>2, <2>3 DEF Reloading
<1>11. CASE Searching
  <2>1. ASSUME Load \/ ReadFile \/ UpdateCache
        PROVE  MergeInv'
    <3>1. UNCHANGED <<disk, evidence, overlay, pass, reader>>
      BY <2>1, Zenon DEF Load, SearchFrame, ReadFile, UpdateCache, file, index
    <3> QED
      BY <1>0, <3>1
  <2> QED
    BY <1>11, <2>1 DEF Searching
<1> QED
  BY <1>1, <1>2, <1>3, <1>4, <1>5, <1>6, <1>7, <1>8, <1>9, <1>10, <1>11 DEF Next, Progress

\* What a pass has published is settled, or will be scanned.
LEMMA ScanInvStep ==
  TypeOK /\ ThreadsOK /\ ControlInv /\ KnowledgeInv /\ OwedInv /\ [Next]_vars => ScanInv'
<1> SUFFICES ASSUME TypeOK, ThreadsOK, ControlInv, KnowledgeInv, OwedInv, [Next]_vars
             PROVE  ScanInv'
  OBVIOUS
<1>c. pass.at = "scan" => \A q \in Paths : Covered(q) => Covered(q)' \/ Settled(q)'
  <2>1. pass.at = "scan" => pass.by # "none"
    BY SMT DEF ControlInv, GateInv
  <2> QED
    BY <2>1, CoveredOrSettled, Zenon
<1>k. VersionsInv /\ IndexInv /\ DropInv
  BY Zenon DEF KnowledgeInv, OwedInv
<1>w. ScanInv
  BY Zenon DEF OwedInv
<1>0. ASSUME UNCHANGED <<disk, evidence, overlay, pass, reader>> PROVE ScanInv'
  BY <1>0, <1>c, <1>w, Zenon DEF ScanInv, Settled, Visible
<1>1. CASE UNCHANGED vars
  <2>1. UNCHANGED <<disk, evidence, overlay, pass, reader>>
    BY <1>1 DEF vars, file, index
  <2> QED
    BY <1>0, <2>1
<1>2. CASE Environment
  <2>1. ASSUME PeriodicPass PROVE ScanInv'
    <3>1. pass'.at # "scan"
      BY <2>1, PassBegins, SMT
    <3> QED
      BY <3>1, Zenon DEF ScanInv
  <2>2. ASSUME NEW p \in Paths, NEW d \in Contents, Write(p, d) PROVE ScanInv'
    <3>1. /\ Covered(p)' \/ pending
          /\ \A q \in Paths \ {p} : disk'[q] = disk[q]
          /\ UNCHANGED <<pass, reader, overlay, evidence>>
      BY <2>2, ChangeIsOwed, Zenon
    <3>2. ASSUME pass.at = "scan", NEW q \in Paths \ pass.scan
          PROVE  Covered(q)' \/ Settled(q)'
      <4>1. CASE q = p
        <5>1. ~pending
          BY <3>2, SMT DEF ControlInv, GateInv
        <5> QED
          BY <3>1, <4>1, <5>1, Zenon
      <4>2. CASE q # p
        <5>1. Settled(q)' = Settled(q)
          BY <3>1, <3>2, <4>2, Zenon DEF Settled, Visible
        <5> QED
          BY <1>c, <1>w, <3>2, <5>1, Zenon DEF ScanInv
      <4> QED
        BY <4>1, <4>2
    <3> QED
      BY <3>1, <3>2, Zenon DEF ScanInv
  <2>3. ASSUME NEW p \in Paths, Remove(p) PROVE ScanInv'
    <3>1. /\ Covered(p)' \/ pending
          /\ \A q \in Paths \ {p} : disk'[q] = disk[q]
          /\ UNCHANGED <<pass, reader, overlay, evidence>>
      BY <2>3, ChangeIsOwed, Zenon
    <3>2. ASSUME pass.at = "scan", NEW q \in Paths \ pass.scan
          PROVE  Covered(q)' \/ Settled(q)'
      <4>1. CASE q = p
        <5>1. ~pending
          BY <3>2, SMT DEF ControlInv, GateInv
        <5> QED
          BY <3>1, <4>1, <5>1, Zenon
      <4>2. CASE q # p
        <5>1. Settled(q)' = Settled(q)
          BY <3>1, <3>2, <4>2, Zenon DEF Settled, Visible
        <5> QED
          BY <1>c, <1>w, <3>2, <5>1, Zenon DEF ScanInv
      <4> QED
        BY <4>1, <4>2
    <3> QED
      BY <3>1, <3>2, Zenon DEF ScanInv
  <2>4. ASSUME BeginReload PROVE ScanInv'
    <3>1. pass'.at # "scan"
      BY <2>4, PassMoves, SMT
    <3> QED
      BY <3>1, Zenon DEF ScanInv
  <2>5. ASSUME BeginSave PROVE ScanInv'
    <3>1. pass'.at # "scan"
      BY <2>5, PassSaves, SMT
    <3> QED
      BY <3>1, Zenon DEF ScanInv
  <2>6. ASSUME RulesEvent \/ TurnToPolling \/ (\E p \in Paths : Admit(p))
        PROVE  ScanInv'
    <3>1. UNCHANGED <<disk, evidence, overlay, pass, reader>>
      BY <2>6, Zenon DEF RulesEvent, TurnToPolling, Admit, SearchFrame, file, index
    <3> QED
      BY <1>0, <3>1
  <2> QED
    BY <1>2, <2>1, <2>2, <2>3, <2>4, <2>5, <2>6 DEF Environment
<1>3. CASE Checkpoint
  <2>1. GateFree /\ pass' = pass
    BY <1>3, CheckpointDoes, Zenon
  <2>2. pass'.at # "scan"
    <3>1. pass.by = "none"
      BY <2>1, Zenon DEF GateFree
    <3>2. pass.at = "none"
      BY <3>1, SMT DEF ControlInv, GateInv
    <3> QED
      BY <2>1, <3>2, SMT
  <2> QED
    BY <2>2, Zenon DEF ScanInv
<1>4. CASE Events
  <2>1. ASSUME NEW a \in Actors, DropGone(a) PROVE ScanInv'
    <3>1. pass' = pass
      BY <2>1, DropGoneDoes, Zenon
    <3>2. ASSUME pass.at = "scan", NEW q \in Paths \ pass.scan
          PROVE  Covered(q)' \/ Settled(q)'
      <4>1. CASE q = act[a].path
        BY <2>1, <1>k, <4>1, LookSettles, Zenon
      <4>2. CASE q # act[a].path
        <5>1. Covered(q) \/ Settled(q)
          BY <1>w, <3>2, Zenon DEF ScanInv
        <5> QED
          BY <2>1, <4>2, <5>1, LookLeaves, Zenon
      <4> QED
        BY <4>1, <4>2
    <3> QED
      BY <3>1, <3>2, Zenon DEF ScanInv
  <2>2. ASSUME NEW a \in Actors, Open(a) PROVE ScanInv'
    <3>1. pass' = pass
      BY <2>2, OpenDoes, Zenon
    <3>2. ASSUME pass.at = "scan", NEW q \in Paths \ pass.scan
          PROVE  Covered(q)' \/ Settled(q)'
      <4>1. CASE q = act[a].path
        BY <2>2, <1>k, <4>1, LookSettles, Zenon
      <4>2. CASE q # act[a].path
        <5>1. Covered(q) \/ Settled(q)
          BY <1>w, <3>2, Zenon DEF ScanInv
        <5> QED
          BY <2>2, <4>2, <5>1, LookLeaves, Zenon
      <4> QED
        BY <4>1, <4>2
    <3> QED
      BY <3>1, <3>2, Zenon DEF ScanInv
  <2>3. ASSUME NEW a \in Actors, Verify(a) PROVE ScanInv'
    <3>1. pass' = pass
      BY <2>3, VerifyDoes, Zenon
    <3>2. ASSUME pass.at = "scan", NEW q \in Paths \ pass.scan
          PROVE  Covered(q)' \/ Settled(q)'
      <4>1. CASE q = act[a].path
        BY <2>3, <1>k, <4>1, LookSettles, Zenon
      <4>2. CASE q # act[a].path
        <5>1. Covered(q) \/ Settled(q)
          BY <1>w, <3>2, Zenon DEF ScanInv
        <5> QED
          BY <2>3, <4>2, <5>1, LookLeaves, Zenon
      <4> QED
        BY <4>1, <4>2
    <3> QED
      BY <3>1, <3>2, Zenon DEF ScanInv
  <2>4. ASSUME (\E p \in Paths : TakeEvent(p)) \/ (\E p \in Paths : ReplayEvent(p)) \/ (\E a
               \in Actors : Defer(a)) \/ (\E a \in Actors : Enter(a))
        PROVE  ScanInv'
    <3>1. UNCHANGED <<disk, evidence, overlay, pass, reader>>
      BY <2>4, Zenon DEF TakeEvent, ReplayEvent, Defer, Enter, file, index
    <3> QED
      BY <1>0, <3>1
  <2> QED
    BY <1>4, <2>1, <2>2, <2>3, <2>4 DEF Events
<1>5. CASE Recovering
  <2>1. ASSUME RecoveryReplays \/ RecoveryScans \/ (\E p \in Paths : ScanOne(p)) \/
               RecoveryEnds
        PROVE  ScanInv'
    <3>1. UNCHANGED <<disk, evidence, overlay, pass, reader>>
      BY <2>1, Zenon DEF RecoveryReplays, RecoveryScans, ScanOne, RecoveryEnds, file, index
    <3> QED
      BY <1>0, <3>1
  <2> QED
    BY <1>5, <2>1 DEF Recovering
<1>6. CASE Ignoring
  <2>1. ASSUME IgnoreChecks \/ IgnoreWaits \/ IgnoreClears \/ IgnoreRechecks
        PROVE  ScanInv'
    <3>1. UNCHANGED <<disk, evidence, overlay, pass, reader>>
      BY <2>1, Zenon DEF IgnoreChecks, IgnoreWaits, IgnoreClears, IgnoreRechecks, file,
         index
    <3> QED
      BY <1>0, <3>1
  <2> QED
    BY <1>6, <2>1 DEF Ignoring
<1>7. CASE Begins
  <2>1. ASSUME Begins PROVE ScanInv'
    <3>1. pass'.at # "scan"
      BY <2>1, PassBegins, SMT
    <3> QED
      BY <3>1, Zenon DEF ScanInv
  <2> QED
    BY <1>7, <2>1
<1>8. CASE Passing
  <2>1. ASSUME NEW p \in Paths, Walk(p) PROVE ScanInv'
    <3>1. pass.at = "walk" /\ pass'.at = pass.at
      BY <2>1, PassWalks, Zenon DEF Walk
    <3>2. pass'.at # "scan"
      BY <3>1, SMT
    <3> QED
      BY <3>2, Zenon DEF ScanInv
  <2>2. ASSUME NEW p \in Paths, Read(p) PROVE ScanInv'
    <3>1. pass'.at # "scan"
      BY <2>2, PassReads, SMT
    <3> QED
      BY <3>1, Zenon DEF ScanInv
  <2>3. ASSUME NEW p \in Paths, PassScans(p) PROVE ScanInv'
    <3>1. /\ pass.at = "scan" /\ pass'.scan = pass.scan \ {p}
          /\ act'["scan"].at = "open" /\ act'["scan"].path = p
          /\ UNCHANGED <<disk, reader, overlay, evidence>>
      BY <2>3, PassMoves, PassScansDoes, Zenon
    <3>2. Covered(p)'
      <4>1. "scan" \in Actors /\ act'["scan"].at # "idle"
        BY <3>1, SMT DEF Actors
      <4> QED
        BY <3>1, <4>1, Zenon DEF Covered, Lasting, InHand
    <3>3. ASSUME NEW q \in Paths \ pass'.scan
          PROVE  Covered(q)' \/ Settled(q)'
      <4>1. CASE q = p
        BY <3>2, <4>1
      <4>2. CASE q # p
        <5>1. Covered(q) \/ Settled(q)
          BY <1>w, <3>1, <4>2, Zenon DEF ScanInv
        <5>2. Settled(q)' = Settled(q)
          BY <3>1, Zenon DEF Settled, Visible
        <5> QED
          BY <1>c, <3>1, <5>1, <5>2, Zenon
      <4> QED
        BY <4>1, <4>2
    <3> QED
      BY <3>3, Zenon DEF ScanInv
  <2>4. ASSUME Classify PROVE ScanInv'
    <3>1. pass.at = "walk" /\ UNCHANGED <<disk, reader, overlay, evidence>>
      BY <2>4, PassClassifies, ClassifyDoes, Zenon
    <3>2. ASSUME pass'.at = "scan", NEW q \in Paths \ pass'.scan, ~Covered(q)'
          PROVE  Settled(q)'
      <4>0. pass'.at # "failed" /\ pass'.at # "read"
        BY <3>2, SMT
      <4>1. ~Covered(q)
        BY <3>1, <3>2, CoveredInPass, Zenon
      <4>2. pass.seen[q] = VersionOn(q) /\ q \notin SkippedIn(pass.seen)
        BY <2>4, <3>2, <4>0, <4>1, WalkedIsSeen, Zenon
      <4>3. /\ overlay[q] = None
            /\ q \notin ChangedIn(pass.seen, pass.member) \ SkippedIn(pass.seen)
            /\ q \notin DeletedIn(pass.seen)
        BY <2>4, <4>0, PassClassifies, Zenon
      <4>4. IF VersionOn(q) = None THEN Old(q) = None /\ ~Indexed(q) ELSE Old(q) = VersionOn(q)
        BY <4>2, <4>3, Zenon DEF ChangedIn, DeletedIn
      <4>5. Settled(q)
        BY <1>k, <4>3, <4>4, FoundIsSettled, Zenon
      <4> QED
        BY <3>1, <4>5, Zenon DEF Settled, Visible
    <3> QED
      BY <3>2, Zenon DEF ScanInv
  <2>5. ASSUME Publish PROVE ScanInv'
    <3>1. /\ pass.at = "read" /\ pass.left = {} /\ disk' = disk /\ pass'.scan = pass.scan
          /\ \/ reader' = Merged /\ overlay' = Pruned /\ evidence' = Evidenced
             \/ pass'.at = "failed"
      <4>1. \/ reader' = Merged /\ overlay' = Pruned /\ evidence' = Evidenced
            \/ pass' = [pass EXCEPT !.at = "failed"]
        BY <2>5, Zenon DEF Publish
      <4>2. pass' = [pass EXCEPT !.at = "failed"] => pass'.at = "failed"
        BY SMT DEF ThreadsOK
      <4> QED
        BY <2>5, <4>1, <4>2, PassMoves, PublishDoes, Zenon
    <3>2. ASSUME pass'.at = "scan", NEW q \in Paths \ pass'.scan
          PROVE  Covered(q)' \/ Settled(q)'
      <4>1. reader' = Merged /\ overlay' = Pruned /\ evidence' = Evidenced
        <5>1. pass'.at # "failed"
          BY <3>2, SMT
        <5> QED
          BY <3>1, <5>1, Zenon
      <4>2. Covered(q) \/ Settled(q)'
        BY <3>1, <3>2, <4>1, MergeSettles, Zenon
      <4>3. Covered(q) => Covered(q)'
        BY <3>1, CoveredInPass, Zenon
      <4> QED
        BY <4>2, <4>3
    <3> QED
      BY <3>2, Zenon DEF ScanInv
  <2>6. ASSUME EndPass PROVE ScanInv'
    <3>1. pass'.at # "scan"
      BY <2>6, PassMoves, NewPasses, SMT
    <3> QED
      BY <3>1, Zenon DEF ScanInv
  <2>7. ASSUME StartupYields
        PROVE  ScanInv'
    <3>1. UNCHANGED <<disk, evidence, overlay, pass, reader>>
      BY <2>7, Zenon DEF StartupYields, file, index
    <3> QED
      BY <1>0, <3>1
  <2> QED
    BY <1>8, <2>1, <2>2, <2>3, <2>4, <2>5, <2>6, <2>7 DEF Passing
<1>9. CASE Building
  <2>1. ASSUME BuildPublish PROVE ScanInv'
    <3>1. GateFree /\ pass' = pass
      BY <2>1, BuildPublishDoes, Zenon
    <3>2. pass'.at # "scan"
      <4>1. pass.by = "none"
        BY <3>1, Zenon DEF GateFree
      <4>2. pass.at = "none"
        BY <4>1, SMT DEF ControlInv, GateInv
      <4> QED
        BY <3>1, <4>2, SMT
    <3> QED
      BY <3>2, Zenon DEF ScanInv
  <2>2. ASSUME (\E p \in Paths : BuildRead(p)) \/ BuildFails \/ BuildEnds
        PROVE  ScanInv'
    <3>1. UNCHANGED <<disk, evidence, overlay, pass, reader>>
      BY <2>2, Zenon DEF BuildRead, BuildFails, BuildEnds, file, index
    <3> QED
      BY <1>0, <3>1
  <2> QED
    BY <1>9, <2>1, <2>2 DEF Building
<1>10. CASE Reloading
  <2>1. ASSUME ReloadPublish PROVE ScanInv'
    <3>1. pass'.at # "scan"
      BY <2>1, PassMoves, NewPasses, SMT
    <3> QED
      BY <3>1, Zenon DEF ScanInv
  <2>2. ASSUME ReloadFails PROVE ScanInv'
    <3>1. pass'.at # "scan"
      BY <2>2, PassMoves, NewPasses, SMT
    <3> QED
      BY <3>1, Zenon DEF ScanInv
  <2>3. ASSUME ReloadReplays \/ ReloadRests
        PROVE  ScanInv'
    <3>1. UNCHANGED <<disk, evidence, overlay, pass, reader>>
      BY <2>3, Zenon DEF ReloadReplays, ReloadRests, file, index
    <3> QED
      BY <1>0, <3>1
  <2> QED
    BY <1>10, <2>1, <2>2, <2>3 DEF Reloading
<1>11. CASE Searching
  <2>1. ASSUME Load \/ ReadFile \/ UpdateCache
        PROVE  ScanInv'
    <3>1. UNCHANGED <<disk, evidence, overlay, pass, reader>>
      BY <2>1, Zenon DEF Load, SearchFrame, ReadFile, UpdateCache, file, index
    <3> QED
      BY <1>0, <3>1
  <2> QED
    BY <1>11, <2>1 DEF Searching
<1> QED
  BY <1>1, <1>2, <1>3, <1>4, <1>5, <1>6, <1>7, <1>8, <1>9, <1>10, <1>11 DEF Next, Progress

\* Whatever the index has wrong stays owed, step by step,
LEMMA OwedStep ==
  TypeOK /\ ThreadsOK /\ ControlInv /\ KnowledgeInv /\ OwedInv /\ [Next]_vars => OwedInv'
<1> SUFFICES ASSUME TypeOK, ThreadsOK, ControlInv, KnowledgeInv, OwedInv, [Next]_vars
             PROVE  OwedInv'
  OBVIOUS
<1>1. OwesInv' /\ WalkInv' /\ MergeInv'
  BY OwesInvStep, WalkInvStep, MergeInvStep, Zenon
<1>2. ScanInv' /\ ReloadInv'
  BY ScanInvStep, ReloadInvStep, Zenon
<1>3. DropInv'
  BY DropInvStep, Zenon DEF OwedInv
<1> QED
  BY <1>1, <1>2, <1>3, Zenon DEF OwedInv

\* from the start, where the startup refresh or the build is to look at all,
LEMMA InitOwed == Init => OwedInv
<1> SUFFICES ASSUME Init PROVE OwedInv
  OBVIOUS
<1>1. /\ pass = NoPass /\ \A a \in Actors : act[a] = Idle
      /\ startup \/ build.by = "startup"
      /\ build.by # "reload"
  <2>1. pass = NoPass /\ \A a \in Actors : act[a] = Idle
    BY Zenon DEF Init
  <2>2. \/ startup /\ build = NoBuild
        \/ build = [NoBuild EXCEPT !.by = "startup", !.left = Paths]
    BY Zenon DEF Init
  <2>3. NoBuild.by = "none" /\ [NoBuild EXCEPT !.by = "startup", !.left = Paths].by = "startup"
    BY SMT DEF NoBuild
  <2>4. CASE startup /\ build = NoBuild
    <3>1. build.by # "reload"
      BY <2>3, <2>4, SMT
    <3> QED
      BY <2>1, <2>4, <3>1
  <2>5. CASE build = [NoBuild EXCEPT !.by = "startup", !.left = Paths]
    <3>1. build.by = "startup" /\ build.by # "reload"
      BY <2>3, <2>5, SMT
    <3> QED
      BY <2>1, <3>1
  <2> QED
    BY <2>2, <2>4, <2>5
<1>2. /\ pass.by # "startup"
      /\ pass.at # "walk" /\ pass.at # "read" /\ pass.at # "scan"
  BY <1>1, NewPasses, SMT
<1>3. act["watcher"].at # "drop"
  <2>1. act["watcher"] = Idle
    BY <1>1, Zenon DEF Actors
  <2> QED
    BY <2>1, SMT DEF Idle
<1>4. \A p \in Paths : Covered(p)
  BY <1>1, <1>2, Zenon DEF Covered, Lasting
<1> QED
  BY <1>1, <1>2, <1>3, <1>4, Zenon
     DEF OwedInv, OwesInv, WalkInv, MergeInv, ScanInv, ReloadInv, DropInv

\* and owed means that a thread of the server will look at it.
LEMMA OwedByInv == TypeOK /\ ThreadsOK /\ ControlInv /\ OwedInv => UnreflectedIsOwed
<1> SUFFICES ASSUME TypeOK, ThreadsOK, ControlInv, OwedInv, NEW p \in Paths
             PROVE  polling \/ p \in excused \/ Fresh(p) \/ Owed(p)
  BY Zenon DEF UnreflectedIsOwed
<1>1. Covered(p) \/ Settled(p) \/ PassOwes
  BY Zenon DEF OwedInv, OwesInv
<1>2. CASE Settled(p)
  BY <1>2, Sentinels, Zenon DEF Settled, Same, Fresh
<1>3. CASE PassOwes
  BY <1>3, Zenon DEF PassOwes, Owed, ControlInv, GateInv
<1>4. CASE Covered(p)
  <2>1. deferred.all \/ p \in deferred.paths => deferred # Deferred({})
    BY SMT DEF Deferred
  <2>2. build.by \in {"startup", "failed"} => indexing
    BY SMT DEF ControlInv, BuildInv
  <2>3. CASE deferred.all \/ p \in deferred.paths
    <3>1. \/ indexing \/ recovery = "wait" \/ tail \in {"replay", "failed"}
          \/ polling \/ excused = Paths
      BY <2>1, <2>3, Zenon DEF ControlInv, QueueInv
    <3> QED
      BY <2>3, <3>1, Zenon DEF Owed
  <2>4. CASE ~(deferred.all \/ p \in deferred.paths)
    BY <1>4, <2>2, <2>4, Zenon DEF Covered, Lasting, Owed
  <2> QED
    BY <2>3, <2>4
<1> QED
  BY <1>1, <1>2, <1>3, <1>4

-----------------------------------------------------------------------------
(* The theorems. *)

\* All of it holds at every step of every thread: types, threads, gate, index,
\* evidence, and who owes a look at what.
THEOREM ServerSafe == Spec => [](TypeOK /\ ServerInv)
<1> DEFINE C == TypeOK /\ ThreadsOK /\ ControlInv /\ KnowledgeInv /\ OwedInv
<1>1. Init => C
  BY TypeInit, InitControl, InitKnowledge, InitOwed, Zenon
<1>2. C /\ [Next]_vars => C'
  BY TypeStep, ControlStep, KnowledgeStep, OwedStep, Zenon
<1>3. C => TypeOK /\ ServerInv
  BY Zenon DEF ServerInv
<1> HIDE DEF C
<1> QED
  BY <1>1, <1>2, <1>3, PTL DEF Spec

\* No change to a file is forgotten: while the server watches, whatever the
\* index has wrong is in the hands of an event, a deferral, a replay, a scan, a
\* refresh or a build that has yet to look at it, through races of events with
\* walks, merges, reloads and the startup build, every loss of events and every
\* failure that is retried.  The exceptions, all in excused, are the failures
\* that are not retried and one race: a replay that drops a file created again
\* since the replay looked at it (DropGone).
THEOREM NothingForgotten == Spec => []UnreflectedIsOwed
<1>1. TypeOK /\ ServerInv => UnreflectedIsOwed
  BY OwedByInv, Zenon DEF ServerInv
<1> QED
  BY <1>1, ServerSafe, PTL

=============================================================================
