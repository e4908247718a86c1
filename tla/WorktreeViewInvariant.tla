----------------------- MODULE WorktreeViewInvariant -----------------------
(***************************************************************************)
(* The inductive invariant behind the safety properties of WorktreeView:   *)
(* what must also hold while a pass is running, for its publication, its   *)
(* failure or a concurrent invalidation to leave the view honest.          *)
(***************************************************************************)
EXTENDS WorktreeView

Running == stage # "idle"
Refreshing == Running /\ ~job.verify
Processed(p) == stage = "read" /\ p \notin todo

-----------------------------------------------------------------------------
(* The gate. *)

\* A refresh keeps the gate closed until it publishes a later epoch than any
\* before, and while its epoch is current Control queues nothing beside it.
\* Only a verification observes staleness.
GateInv ==
    /\ ReadyOwesNothing
    /\ Refreshing => ~ready
    /\ ~job.verify => ~stale
    /\ ~Running => job = IdleJob
    /\ Running => job.epoch <= epoch
    /\ published_epoch # None =>
         published_epoch <= epoch /\ (Refreshing => published_epoch <= job.epoch)
    /\ job.verify => job.hints = {} /\ published_epoch # None
    /\ Running /\ epoch = job.epoch /\ ~Exhausted =>
         IF StaleReads \/ job.verify THEN ~full /\ hints = {}
         ELSE full = job.full /\ hints = job.hints

-----------------------------------------------------------------------------
(* The overlay. *)

\* Published content: where there is evidence, queries see what it records,
\* and an overlay entry is always the content the next pass takes it for.
OverlayInv ==
    /\ OverlayMatchesEvidence
    /\ CheckpointIsExact
    /\ \A p \in Paths :
         /\ evidence[p] # Missing => Visible(p) = ContentOf(evidence[p])
         /\ OverlayHas(p) => KnownContent(p) = overlay[p]

\* Prepared content: what the pass will not extract, the overlay indexes; a
\* verification that saw no difference has none to publish.
PreparedInv ==
    \A p \in Paths :
      /\ prepared[p] # Missing => Processed(p)
      /\ p \in upserts => prepared[p] # Missing
      /\ Processed(p) /\ ContentOf(prepared[p]) \notin {Base[p], NoContent} =>
            p \in upserts \/ overlay[p] = ContentOf(prepared[p])
      /\ Processed(p) /\ job.verify /\ ~stale =>
            /\ ContentOf(prepared[p]) = ContentOf(evidence[p])
            /\ prepared[p] = Missing <=> evidence[p] = Missing

SafetyInv == TypeOK /\ GateInv /\ OverlayInv /\ PreparedInv

-----------------------------------------------------------------------------
(* Freshness, where a FileVersion never comes back (~VersionsRecur). *)

\* As Quiet, but a directory's modification may still be undelivered: it
\* announces only files that came or went, whose version tells.
SoftQuiet(p) ==
    /\ p \notin unannounced
    /\ \A n \in notices : n.path # p /\ n.kind # "rescan"

SameVersion(p, entry) == VersionOf(entry) = VersionOf(disk[p])
SameContent(p, entry) == ContentOf(entry) = ContentOf(disk[p])

VersionAt(p) ==
    /\ disk[p] # Missing => disk[p].version # NoVersion
    /\ prepared[p] # Missing => VersionOf(prepared[p]) # NoVersion
    /\ VersionOf(disk[p]) <= clock
    /\ VersionOf(evidence[p]) <= clock
    /\ VersionOf(prepared[p]) <= clock
    /\ walked[p] <= clock

\* A strict pass leaves the work it copied where a failure will find it.
KeptInv ==
    Refreshing /\ ~StaleReads =>
      /\ job.full => full
      /\ \A p \in job.hints : full \/ p \in hints

\* While nothing was ever read of a path that queries see, a full pass is
\* owed or under way.
UnreadAt(p) ==
    VersionOf(evidence[p]) = NoVersion /\ Visible(p) # NoContent =>
      full \/ (Refreshing /\ job.full)

\* A filter can only drop a notice whose file the recorded version describes.
FilterAt(p) ==
    Filtered /\ p \notin unannounced /\ disk[p] # Missing =>
      /\ SameVersion(p, evidence[p]) => SameContent(p, evidence[p])
      /\ SameVersion(p, prepared[p]) => SameContent(p, prepared[p])

\* A change after the walk passed by is undelivered, or has moved the epoch.
WalkAt(p) ==
    stage = "walk" /\ p \notin todo /\ walked[p] # VersionOf(disk[p]) =>
      /\ Quiet(p) => epoch # job.epoch \/ Exhausted
      /\ disk[p] # Missing => ~SameVersion(p, evidence[p])

\* So is a change after the path was read or reused; when its notice was
\* delivered and the version does not tell, it is queued beside the pass.
ReadAt(p) ==
    Processed(p) =>
      /\ SoftQuiet(p) /\ ~SameContent(p, prepared[p]) =>
           \/ ~SameVersion(p, prepared[p])
           \/ (full \/ p \in hints) /\ epoch # job.epoch
           \/ Exhausted
      /\ Quiet(p) /\ ~(SameContent(p, prepared[p]) /\ SameVersion(p, prepared[p])) =>
           epoch # job.epoch \/ Exhausted
      /\ disk[p] # Missing /\ ~SameVersion(p, prepared[p]) =>
           ~SameVersion(p, evidence[p])

ExaminedAt(p) ==
    p \in examined =>
      \/ stage = "walk" /\ p \notin todo /\ walked[p] = NoVersion /\ disk[p] = Missing
      \/ Processed(p) /\ prepared[p] = disk[p]

\* A path that queries see wrongly closes the gate and is to be read again,
\* unless the news of its change is still to come.
OwedAt(p) ==
    ~Reflected(p) =>
      /\ SoftQuiet(p) => ToBeRead(p) \/ Exhausted
      /\ Quiet(p) => ~ready

FreshInv ==
    /\ SafetyInv
    /\ KeptInv
    /\ \A p \in Paths :
         /\ VersionAt(p) /\ UnreadAt(p) /\ FilterAt(p)
         /\ WalkAt(p) /\ ReadAt(p) /\ ExaminedAt(p)
         /\ OwedAt(p)
=============================================================================
