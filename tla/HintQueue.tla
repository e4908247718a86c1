------------------------------ MODULE HintQueue ------------------------------
(***************************************************************************)
(* The bounded queue of paths to read again, inside a WorktreeView's       *)
(* Control (tgrep-core/src/worktrees.rs, queue_hint and is_hinted).        *)
(*                                                                         *)
(* A hint is a directory or file; it stands for everything below it.  When *)
(* there are too many, the deepest ones are replaced by their parents,     *)
(* level by level; when that is not enough, the whole checkout is owed.    *)
(* A pass takes the queue, reads what it covers, and puts it back when it  *)
(* fails.  Each turn of the coarsening loop is a step, all of them under   *)
(* the control mutex: nothing else moves while Locked.                     *)
(***************************************************************************)
EXTENDS Integers, Sequences, FiniteSets

CONSTANTS
    Names,        \* path components
    Wide,         \* the components that are not ASCII
    Lower,        \* to_ascii_lowercase, on components
    Files,        \* the checkout's files, as sequences of components
    Reports,      \* the paths a watcher or a client may name
    Capacity,     \* WorktreeOptions::hint_capacity
    StaleReads    \* WorktreeOptions::stale_reads

Path == Seq(Names) \ {<<>>}

ASSUME FilesAssumption == Files \subseteq Path
ASSUME ReportsAssumption == Reports \subseteq Path
ASSUME LowerAssumption ==
    /\ Lower \in [Names -> Names]
    /\ \A n \in Names : /\ Lower[Lower[n]] = Lower[n]
                        /\ Lower[n] \in Wide <=> n \in Wide
ASSUME CapacityAssumption == Capacity \in Nat
ASSUME StaleReadsAssumption == StaleReads \in BOOLEAN

VARIABLES
    full, hints,   \* Control::full, Control::hints
    coarsening,    \* inside queue_hint's loop
    stage,         \* the pass: "idle", "running", "restoring"
    taken,         \* what the pass took: TakenHints
    moved,         \* the epoch moved since the pass took it
    \* observers: files changed since the last pass took the queue, and before
    owed, due

vars == <<full, hints, coarsening, stage, taken, moved, owed, due>>

Queue == [full : BOOLEAN, hints : SUBSET Path]
Nothing == [full |-> FALSE, hints |-> {}]

LowerPath(p) == [i \in 1..Len(p) |-> Lower[p[i]]]
Parent(p) == SubSeq(p, 1, Len(p) - 1)
Covers(h, p) == Len(h) <= Len(p) /\ \A i \in 1..Len(h) : h[i] = p[i]

\* is_hinted: the path, folded, or one of its ancestors is queued.
Hinted(p, queue) == \E h \in queue : Covers(h, LowerPath(p))

\* Broken_ definitions are what a plausible slip would make of the definition
\* they precede; the specification never uses them.
Broken_AsciiLength(p) == Len(p)

\* The components before the first that is not ASCII, whose case the file
\* system may fold in ways the queue does not.
AsciiLength(p) ==
    CHOOSE n \in 0..Len(p) :
        /\ \A i \in 1..n : p[i] \notin Wide
        /\ n < Len(p) => p[n + 1] \in Wide
AsciiPrefix(p) == SubSeq(p, 1, AsciiLength(p))

\* A report is about the file it spells, in any case, and those beneath.
SameName(n, m) == Lower[n] = Lower[m] \/ (n \in Wide /\ m \in Wide)
About(report, file) ==
    /\ Len(report) <= Len(file)
    /\ \A i \in 1..Len(report) : SameName(report[i], file[i])

Init ==
    /\ full = TRUE /\ hints = {}
    /\ coarsening = FALSE
    /\ stage = "idle" /\ taken = Nothing /\ moved = FALSE
    /\ owed = Files /\ due = {}

Locked == coarsening \/ stage = "restoring"

-----------------------------------------------------------------------------
(* queue_hint. *)

\* The part before the loop: a path already covered changes nothing.
QueueHint(p) ==
    IF Hinted(p, hints) THEN UNCHANGED <<full, hints, coarsening>>
    ELSE /\ hints' = hints \cup {p}
         /\ coarsening' = (Cardinality(hints') > Capacity)
         /\ UNCHANGED full

Half == Capacity \div 2
Target == IF Half > 0 THEN Half ELSE IF Capacity = 0 THEN 0 ELSE 1

Broken_Deepest == {h \in hints : \A g \in hints : Len(g) < Len(h)}
Deepest == {h \in hints : \A g \in hints : Len(g) <= Len(h)}
Shallow == \A h \in hints : Len(h) <= 1

Coarsened == {IF h \in Deepest THEN Parent(h) ELSE h : h \in hints}

\* A turn of the loop: the deepest level moves up, and hints below another
\* hint go.
CoarsenLevel ==
    /\ coarsening
    /\ Cardinality(hints) > Target
    /\ ~Shallow
    /\ hints' = {h \in Coarsened : ~Hinted(Parent(h), Coarsened)}
    /\ UNCHANGED <<full, coarsening, stage, taken, moved, owed, due>>

Broken_CoarsenDone ==
    /\ coarsening
    /\ Cardinality(hints) <= Target \/ Shallow
    /\ coarsening' = FALSE
    /\ UNCHANGED <<full, hints, stage, taken, moved, owed, due>>

\* The loop ends below its target, or at the top-level names: still too many
\* of those make the caller ask for a full pass.
CoarsenDone ==
    /\ coarsening
    /\ Cardinality(hints) <= Target \/ Shallow
    /\ coarsening' = FALSE
    /\ IF Cardinality(hints) > Capacity THEN full' = TRUE /\ hints' = {}
       ELSE UNCHANGED <<full, hints>>
    /\ UNCHANGED <<stage, taken, moved, owed, due>>

-----------------------------------------------------------------------------
(* Invalidations. *)

Announce(files) == owed' = owed \cup files /\ moved' = TRUE

QueueAll == full' = TRUE /\ hints' = {} /\ UNCHANGED coarsening

\* Queues the empty path of a report without an ASCII prefix.
Broken_InvalidatePath(report) ==
    /\ ~Locked
    /\ Announce({f \in Files : About(report, f)})
    /\ IF full THEN UNCHANGED <<full, hints, coarsening>>
       ELSE QueueHint(AsciiPrefix(LowerPath(report)))
    /\ UNCHANGED <<stage, taken, due>>

\* invalidate_path: the folded ASCII prefix of the report; without one, or
\* for a path that cannot be relative, a full pass.
InvalidatePath(report) ==
    /\ ~Locked
    /\ Announce({f \in Files : About(report, f)})
    /\ LET p == AsciiPrefix(LowerPath(report)) IN
       IF full THEN UNCHANGED <<full, hints, coarsening>>
       ELSE IF p = <<>> THEN QueueAll ELSE QueueHint(p)
    /\ UNCHANGED <<stage, taken, due>>

\* invalidate_all, and invalidate_path's rejection of its argument.
InvalidateAll ==
    /\ ~Locked
    /\ Announce(Files)
    /\ QueueAll
    /\ UNCHANGED <<stage, taken, due>>

-----------------------------------------------------------------------------
(* A pass of refresh_controlled_inner. *)

\* Empties a strict view's queue as well.
Broken_Take ==
    /\ ~Locked /\ stage = "idle"
    /\ stage' = "running" /\ moved' = FALSE
    /\ \E wantsFull \in {full, TRUE} :
         taken' = [full |-> wantsFull, hints |-> hints]
    /\ full' = FALSE /\ hints' = {}
    /\ due' = due \cup owed /\ owed' = {}
    /\ UNCHANGED coarsening

\* The pass is full when that is owed, asked for (reread), or nothing else
\* is queued.  An eventual view empties the queue, a strict one copies it.
Take ==
    /\ ~Locked /\ stage = "idle"
    /\ stage' = "running" /\ moved' = FALSE
    /\ \E wantsFull \in {full, TRUE} :
         /\ taken' = [full |-> wantsFull, hints |-> hints]
         /\ IF StaleReads THEN full' = FALSE /\ hints' = {}
            ELSE full' = wantsFull /\ UNCHANGED hints
    /\ due' = due \cup owed /\ owed' = {}
    /\ UNCHANGED coarsening

\* prepare's choice of what to read whatever the metadata says.
Reads(f) == taken.full \/ Hinted(f, taken.hints)

\* publish_prepared: a current pass clears the queue, an eventual one that
\* was overtaken leaves the newer hints; a strict one cannot publish then.
Publish ==
    /\ ~Locked /\ stage = "running"
    /\ moved => StaleReads
    /\ IF moved THEN UNCHANGED <<full, hints>> ELSE full' = FALSE /\ hints' = {}
    /\ due' = {f \in due : ~Reads(f)}
    /\ stage' = "idle" /\ taken' = Nothing
    /\ UNCHANGED <<coarsening, moved, owed>>

\* TakenHints::drop begins: an eventual pass puts back what it took.  A strict
\* one left it queued, beside whatever came since.
Fail ==
    /\ ~Locked /\ stage = "running"
    /\ IF StaleReads
          THEN /\ stage' = "restoring"
               /\ full' = (full \/ taken.full)
               /\ UNCHANGED <<taken, owed, due>>
          ELSE /\ stage' = "idle" /\ taken' = Nothing
               /\ owed' = owed \cup due /\ due' = {}
               /\ UNCHANGED full
    /\ UNCHANGED <<hints, coarsening, moved>>

\* Puts a hint back only into a queue that has room left.
Broken_RestoreHint(h) ==
    /\ stage = "restoring" /\ ~coarsening
    /\ h \in taken.hints
    /\ taken' = [taken EXCEPT !.hints = @ \ {h}]
    /\ IF Cardinality(hints) < Capacity THEN QueueHint(h)
       ELSE UNCHANGED <<full, hints, coarsening>>
    /\ UNCHANGED <<stage, moved, owed, due>>

RestoreHint(h) ==
    /\ stage = "restoring" /\ ~coarsening
    /\ h \in taken.hints
    /\ taken' = [taken EXCEPT !.hints = @ \ {h}]
    /\ IF full THEN UNCHANGED <<full, hints, coarsening>> ELSE QueueHint(h)
    /\ UNCHANGED <<stage, moved, owed, due>>

RestoreEnd ==
    /\ stage = "restoring" /\ ~coarsening
    /\ taken.hints = {}
    /\ hints' = IF full THEN {} ELSE hints
    /\ stage' = "idle" /\ taken' = Nothing
    /\ owed' = owed \cup due /\ due' = {}
    /\ UNCHANGED <<full, coarsening, moved>>

-----------------------------------------------------------------------------
Critical ==
    \/ CoarsenLevel \/ CoarsenDone
    \/ \E h \in taken.hints : RestoreHint(h)
    \/ RestoreEnd

Next ==
    \/ \E report \in Reports : InvalidatePath(report)
    \/ InvalidateAll
    \/ Take \/ Publish \/ Fail
    \/ Critical

Spec == Init /\ [][Next]_vars

\* A thread inside the mutex runs until it leaves it.
FairSpec == Spec /\ WF_vars(Critical)

-----------------------------------------------------------------------------
TypeOK ==
    /\ full \in BOOLEAN /\ coarsening \in BOOLEAN /\ moved \in BOOLEAN
    /\ hints \subseteq Path
    /\ stage \in {"idle", "running", "restoring"}
    /\ taken \in Queue
    /\ owed \subseteq Files /\ due \subseteq Files

\* However a change was spelled, and however the queue was coarsened since, a
\* changed file is one the next pass reads, at every step.
OwedIsQueued == \A f \in owed : full \/ Hinted(f, hints)

\* The pass that took the queue reads every file owed when it began, and its
\* failure loses none of them.
PassReadsDue ==
    \A f \in due : Reads(f) \/ (stage = "restoring" /\ (full \/ Hinted(f, hints)))

\* Outside the mutex the queue is within its budget, and a full pass leaves
\* nothing in it to pay for.
WithinCapacity ==
    ~Locked => /\ Cardinality(hints) <= Capacity
               /\ (full /\ StaleReads => hints = {})

\* Coarsening ends: no set of hints keeps the mutex for ever.
LoopEnds == Locked ~> ~Locked

-----------------------------------------------------------------------------
(* The inductive invariant behind OwedIsQueued and PassReadsDue. *)

Safe(f) == full \/ Hinted(f, hints)

\* What else must hold between the steps of a pass: a strict pass leaves what
\* it took queued, an overtaken one knows it, a restoring one has put its full
\* flag back first.
CoverInv ==
    /\ OwedIsQueued
    /\ PassReadsDue
    /\ stage = "idle" => due = {}
    /\ stage = "running" /\ ~StaleReads => \A f \in due : Safe(f)
    /\ stage = "running" /\ ~moved => owed = {}
    /\ stage = "restoring" => StaleReads /\ (taken.full => full)
=============================================================================
