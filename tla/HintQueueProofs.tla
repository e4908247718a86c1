--------------------------- MODULE HintQueueProofs ---------------------------
(***************************************************************************)
(* Theorems about HintQueue, for every set of names, files and reports,    *)
(* every capacity and both kinds of view.  The heart is CoarsenCovers: a   *)
(* turn of the coarsening loop covers whatever was covered before it.      *)
(***************************************************************************)
EXTENDS HintQueue, SequenceTheorems, FunctionTheorems, FiniteSetTheorems,
        WellFoundedInduction, TLAPS

-----------------------------------------------------------------------------
(* Covering. *)

LEMMA LeastNat ==
  ASSUME NEW T, T \subseteq Nat, T # {}
  PROVE  \E n \in T : \A m \in T : n <= m
<1> DEFINE Less == OpToRel(<, Nat)
<1>1. IsWellFoundedOn(Less, Nat)
  BY NatLessThanWellFounded
<1>2. \A m, n \in Nat : m < n => <<m, n>> \in Less
  BY DEF OpToRel
<1> HIDE DEF Less
<1>3. \E n \in T : \A m \in T : ~ (<<m, n>> \in Less)
  BY <1>1, WFMin, Zenon
<1>4. PICK n \in T : \A m \in T : ~ (<<m, n>> \in Less)
  BY <1>3
<1>5. ASSUME NEW m \in T PROVE n <= m
  <2>1. ~ (m < n)
    BY <1>2, <1>4
  <2> QED
    BY <2>1
<1> QED
  BY <1>4, <1>5

LEMMA PathLength == \A p \in Path : Len(p) \in Nat \ {0}
<1>1. \A p \in Seq(Names) : p # <<>> => Len(p) \in Nat \ {0}
  BY EmptySeq, Zenon
<1> QED
  BY <1>1 DEF Path

LEMMA CoversTrans ==
  ASSUME NEW g \in Path, NEW h \in Path, NEW p \in Path, Covers(g, h), Covers(h, p)
  PROVE  Covers(g, p)
  BY DEF Covers, Path

LEMMA LowerPathType ==
  ASSUME NEW p \in Path
  PROVE  LowerPath(p) \in Path /\ Len(LowerPath(p)) = Len(p)
         /\ LowerPath(LowerPath(p)) = LowerPath(p)
<1>1. LowerPath(p) \in Seq(Names) /\ Len(LowerPath(p)) = Len(p)
  BY LowerAssumption DEF LowerPath, Path
<1>2. LowerPath(p) # <<>>
  BY <1>1 DEF Path
<1>3. LowerPath(LowerPath(p)) = LowerPath(p)
  BY <1>1, LowerAssumption DEF LowerPath, Path
<1> QED
  BY <1>1, <1>2, <1>3 DEF Path

\* Folded hints, which is what invalidate_path queues.
Folded(queue) == \A h \in queue : LowerPath(h) = h

LEMMA ParentType ==
  ASSUME NEW h \in Path, Len(h) > 1
  PROVE  /\ Parent(h) \in Path /\ Len(Parent(h)) = Len(h) - 1
         /\ Covers(Parent(h), h)
         /\ LowerPath(h) = h => LowerPath(Parent(h)) = Parent(h)
<1>1. /\ Parent(h) \in Seq(Names) /\ Len(Parent(h)) = Len(h) - 1
      /\ \A i \in 1..Len(h) - 1 : Parent(h)[i] = h[i]
  BY DEF Parent, Path
<1>2. Parent(h) # <<>> /\ Covers(Parent(h), h)
  BY <1>1 DEF Covers, Path
<1>3. ASSUME LowerPath(h) = h PROVE LowerPath(Parent(h)) = Parent(h)
  <2>1. \A i \in 1..Len(h) : Lower[h[i]] = h[i]
    BY <1>3 DEF LowerPath, Path
  <2>2. \A i \in 1..Len(Parent(h)) : Lower[Parent(h)[i]] = Parent(h)[i]
    BY <1>1, <2>1 DEF Path
  <2> QED
    BY <1>1, <2>2 DEF LowerPath
<1> QED
  BY <1>1, <1>2, <1>3 DEF Path

-----------------------------------------------------------------------------
(* The coarsening loop. *)

LEMMA CoarsenedType ==
  ASSUME hints \subseteq Path, Folded(hints), ~Shallow
  PROVE  Coarsened \subseteq Path /\ Folded(Coarsened)
<1>1. ASSUME NEW h \in Deepest PROVE h \in hints /\ Len(h) > 1
  BY <1>1 DEF Shallow, Deepest, Path
<1> SUFFICES ASSUME NEW c \in Coarsened PROVE c \in Path /\ LowerPath(c) = c
  BY DEF Folded
<1>2. PICK h \in hints : c = IF h \in Deepest THEN Parent(h) ELSE h
  BY DEF Coarsened
<1>3. CASE h \in Deepest
  BY <1>1, <1>2, <1>3, ParentType DEF Folded
<1>4. CASE h \notin Deepest
  BY <1>2, <1>4 DEF Folded
<1> QED
  BY <1>3, <1>4

\* Of the hints that cover p in a queue, the shortest is under no other.
LEMMA ShortestStays ==
  ASSUME NEW queue, queue \subseteq Path, Folded(queue),
         NEW p \in Path, NEW h \in queue, Covers(h, p)
  PROVE  \E c \in queue : Covers(c, p) /\ ~Hinted(Parent(c), queue)
<1> DEFINE T == {n \in Nat : \E c \in queue : Covers(c, p) /\ Len(c) = n}
<1>1. Len(h) \in T
  BY DEF Path
<1>2. PICK n \in T : \A m \in T : n <= m
  BY <1>1, LeastNat
<1>3. PICK c \in queue : Covers(c, p) /\ Len(c) = n
  BY <1>2
<1>4. ASSUME Hinted(Parent(c), queue) PROVE FALSE
  <2>1. PICK g \in queue : Covers(g, LowerPath(Parent(c)))
    BY <1>4 DEF Hinted
  <2>2. CASE Len(c) > 1
    <3>1. Covers(g, Parent(c))
      BY <2>1, <2>2, ParentType DEF Folded
    <3>2. Parent(c) \in Path /\ Len(Parent(c)) = Len(c) - 1 /\ Covers(Parent(c), c)
      BY <2>2, ParentType
    <3>3. Covers(g, p)
      BY <1>3, <2>1, <3>1, <3>2, CoversTrans
    <3>4. Len(g) <= Len(c) - 1 /\ Len(c) \in Nat
      BY <3>1, <3>2 DEF Covers, Path
    <3>5. Len(g) \in T
      BY <2>1, <3>3 DEF Path
    <3> QED
      BY <1>2, <1>3, <3>4, <3>5
  <2>3. CASE Len(c) <= 1
    <3>0. Len(c) \in Nat \ {0}
      BY PathLength
    <3>1. Len(c) = 1
      <4> DEFINE k == Len(c)
      <4>1. k \in Nat \ {0} /\ k <= 1
        BY <2>3, <3>0
      <4> HIDE DEF k
      <4>2. k = 1
        BY <4>1
      <4> QED
        BY <4>2 DEF k
    <3>2. Len(LowerPath(Parent(c))) = 0
      BY <3>1 DEF Parent, LowerPath, Path
    <3> QED
      BY <2>1, <3>2 DEF Covers, Path
  <2> QED
    BY <2>2, <2>3 DEF Path
<1> QED
  BY <1>3, <1>4

LEMMA CoarsenCovers ==
  ASSUME hints \subseteq Path, Folded(hints), CoarsenLevel
  PROVE  /\ hints' \subseteq Path /\ Folded(hints')
         /\ \A f \in Path : Hinted(f, hints) => Hinted(f, hints')
<1>0. ~Shallow /\ hints' = {h \in Coarsened : ~Hinted(Parent(h), Coarsened)}
  BY DEF CoarsenLevel
<1>1. Coarsened \subseteq Path /\ Folded(Coarsened)
  BY <1>0, CoarsenedType
<1>2. hints' \subseteq Path /\ Folded(hints')
  BY <1>0, <1>1 DEF Folded
<1>3. ASSUME NEW f \in Path, NEW h \in hints, Covers(h, LowerPath(f))
      PROVE  Hinted(f, hints')
  <2> DEFINE p == LowerPath(f)
  <2>1. p \in Path
    BY LowerPathType
  <2>2. \E c \in Coarsened : Covers(c, p)
    <3>1. CASE h \in Deepest
      <4>1. Len(h) > 1
        BY <1>0, <3>1 DEF Shallow, Deepest, Path
      <4>2. Parent(h) \in Coarsened
        BY <3>1 DEF Coarsened
      <4>3. Covers(Parent(h), p)
        BY <1>3, <2>1, <4>1, ParentType, CoversTrans
      <4> QED
        BY <4>2, <4>3
    <3>2. CASE h \notin Deepest
      BY <1>3, <3>2 DEF Coarsened
    <3> QED
      BY <3>1, <3>2
  <2>3. \E c \in Coarsened : Covers(c, p) /\ ~Hinted(Parent(c), Coarsened)
    BY <1>1, <2>1, <2>2, ShortestStays
  <2> QED
    BY <1>0, <2>3 DEF Hinted
<1> QED
  BY <1>2, <1>3 DEF Hinted

-----------------------------------------------------------------------------
(* Types. *)

DataOK == TypeOK /\ Folded(hints) /\ Folded(taken.hints)

LEMMA AsciiPrefixType ==
  ASSUME NEW p \in Path
  PROVE  /\ AsciiLength(p) \in 0..Len(p)
         /\ \A i \in 1..AsciiLength(p) : p[i] \notin Wide
<1> DEFINE Good(n) == /\ \A i \in 1..n : p[i] \notin Wide
                      /\ n < Len(p) => p[n + 1] \in Wide
           T == {i \in 1..Len(p) : p[i] \in Wide}
<1>0. Len(p) \in Nat \ {0}
  BY PathLength
<1>1. \E n \in 0..Len(p) : Good(n)
  <2>1. CASE T = {}
    <3>1. Good(Len(p))
      BY <1>0, <2>1
    <3> QED
      BY <1>0, <3>1
  <2>2. CASE T # {}
    <3>1. T \subseteq Nat
      BY <1>0
    <3>2. PICK i \in T : \A j \in T : i <= j
      BY <2>2, <3>1, LeastNat
    <3>3. i - 1 \in 0..Len(p) /\ Good(i - 1)
      BY <1>0, <3>2
    <3> QED
      BY <3>3
  <2> QED
    BY <2>1, <2>2
<1> QED
  BY <1>1 DEF AsciiLength

\* A report's hint: folded, and an ancestor of every file the report is about.
LEMMA ReportHint ==
  ASSUME NEW report \in Path, NEW p, p = AsciiPrefix(LowerPath(report)), p # <<>>
  PROVE  /\ p \in Path /\ LowerPath(p) = p
         /\ \A f \in Path : About(report, f) => Covers(p, LowerPath(f))
<1> DEFINE q == LowerPath(report)
           n == AsciiLength(q)
<1>1. q \in Path /\ Len(q) = Len(report) /\ LowerPath(q) = q
  BY LowerPathType
<1>2. n \in 0..Len(q) /\ \A i \in 1..n : q[i] \notin Wide
  BY <1>1, AsciiPrefixType
<1>3. Len(q) \in Nat
  BY <1>1, PathLength
<1> HIDE DEF n
<1>4. p = SubSeq(q, 1, n)
  BY DEF AsciiPrefix, n
<1>5. p \in Seq(Names) /\ Len(p) = n /\ \A i \in 1..n : p[i] = q[i]
  BY <1>1, <1>2, <1>3, <1>4 DEF Path
<1>6. \A i \in 1..n : p[i] = Lower[report[i]] /\ report[i] \in Names
  BY <1>1, <1>2, <1>5 DEF LowerPath, Path
<1>7. LowerPath(p) = p
  BY <1>5, <1>6, LowerAssumption DEF LowerPath
<1>8. ASSUME NEW f \in Path, About(report, f) PROVE Covers(p, LowerPath(f))
  <2>1. Len(f) \in Nat /\ Len(report) <= Len(f) /\ Len(LowerPath(f)) = Len(f)
    BY <1>8, PathLength, LowerPathType DEF About
  <2>2. ASSUME NEW i \in 1..n PROVE p[i] = LowerPath(f)[i]
    <3>1. i \in 1..Len(report) /\ i \in 1..Len(f)
      BY <1>1, <1>2, <2>1
    <3>2. SameName(report[i], f[i]) /\ report[i] \in Names
      BY <1>6, <1>8, <3>1 DEF About
    <3>3. report[i] \notin Wide
      BY <1>2, <1>5, <1>6, <3>2, LowerAssumption
    <3> QED
      BY <1>6, <3>1, <3>2, <3>3 DEF SameName, LowerPath
  <2> QED
    BY <1>1, <1>2, <1>3, <1>5, <2>1, <2>2 DEF Covers
<1> QED
  BY <1>5, <1>7, <1>8 DEF Path

\* What queue_hint does before its loop.
LEMMA QueueHintCovers ==
  ASSUME NEW p \in Path, LowerPath(p) = p, hints \subseteq Path, Folded(hints),
         QueueHint(p)
  PROVE  /\ hints' \subseteq Path /\ Folded(hints') /\ hints \subseteq hints'
         /\ full' = full
         /\ \A f \in Path : Covers(p, LowerPath(f)) => Hinted(f, hints')
<1>1. CASE Hinted(p, hints)
  <2>1. UNCHANGED <<full, hints, coarsening>>
    BY <1>1, Zenon DEF QueueHint
  <2>2. PICK h \in hints : Covers(h, p)
    BY <1>1 DEF Hinted
  <2>3. ASSUME NEW f \in Path, Covers(p, LowerPath(f)) PROVE Hinted(f, hints')
    BY <2>1, <2>2, <2>3, LowerPathType, CoversTrans DEF Hinted
  <2> QED
    BY <2>1, <2>3, Zenon
<1>2. CASE ~Hinted(p, hints)
  <2>1. hints' = hints \cup {p} /\ full' = full
    BY <1>2, Zenon DEF QueueHint
  <2> QED
    BY <2>1 DEF Folded, Hinted
<1> QED
  BY <1>1, <1>2

LEMMA QueueHintFlags ==
  ASSUME NEW p, coarsening \in BOOLEAN, QueueHint(p)
  PROVE  coarsening' \in BOOLEAN
<1>1. CASE Hinted(p, hints)
  BY <1>1, Zenon DEF QueueHint
<1>2. CASE ~Hinted(p, hints)
  <2>1. coarsening' = (Cardinality(hints') > Capacity)
    BY <1>2, Zenon DEF QueueHint
  <2> QED
    BY <2>1, SMT
<1> QED
  BY <1>1, <1>2

LEMMA FlagsStep ==
  ASSUME TypeOK, [Next]_vars
  PROVE  full' \in BOOLEAN /\ coarsening' \in BOOLEAN /\ moved' \in BOOLEAN
<1> USE DEF TypeOK, Queue
<1>1. CASE UNCHANGED vars
  BY <1>1, Zenon DEF vars
<1>2. CASE CoarsenLevel \/ CoarsenDone
  BY <1>2, Zenon DEF CoarsenLevel, CoarsenDone
<1>3. ASSUME NEW report \in Reports, InvalidatePath(report)
      PROVE  full' \in BOOLEAN /\ coarsening' \in BOOLEAN /\ moved' \in BOOLEAN
  <2>1. full' \in BOOLEAN /\ moved' \in BOOLEAN
    BY <1>3, Zenon DEF InvalidatePath, Announce, QueueAll, QueueHint
  <2>2. coarsening' = coarsening \/ \E p : QueueHint(p)
    BY <1>3, Zenon DEF InvalidatePath, QueueAll
  <2>3. ASSUME NEW p, QueueHint(p) PROVE coarsening' \in BOOLEAN
    <3>1. coarsening \in BOOLEAN
      OBVIOUS
    <3> QED
      BY <2>3, <3>1, QueueHintFlags
  <2>4. coarsening' = coarsening => coarsening' \in BOOLEAN
    BY Zenon
  <2> QED
    BY <2>1, <2>2, <2>3, <2>4, Zenon
<1>4. CASE InvalidateAll
  BY <1>4, Zenon DEF InvalidateAll, Announce, QueueAll
<1>5. CASE Take
  BY <1>5, Zenon DEF Take
<1>6. CASE Publish
  BY <1>6, Zenon DEF Publish
<1>7. CASE Fail
  BY <1>7, Zenon DEF Fail
<1>8. ASSUME NEW h \in taken.hints, RestoreHint(h)
      PROVE  full' \in BOOLEAN /\ coarsening' \in BOOLEAN /\ moved' \in BOOLEAN
  <2>1. full' \in BOOLEAN /\ moved' \in BOOLEAN
    BY <1>8, Zenon DEF RestoreHint, QueueHint
  <2>2. coarsening' = coarsening \/ \E p : QueueHint(p)
    BY <1>8, Zenon DEF RestoreHint
  <2>3. ASSUME NEW p, QueueHint(p) PROVE coarsening' \in BOOLEAN
    <3>1. coarsening \in BOOLEAN
      OBVIOUS
    <3> QED
      BY <2>3, <3>1, QueueHintFlags
  <2>4. coarsening' = coarsening => coarsening' \in BOOLEAN
    BY Zenon
  <2> QED
    BY <2>1, <2>2, <2>3, <2>4, Zenon
<1>9. CASE RestoreEnd
  BY <1>9, Zenon DEF RestoreEnd
<1> QED
  BY <1>1, <1>2, <1>3, <1>4, <1>5, <1>6, <1>7, <1>8, <1>9, Zenon DEF Next, Critical
-----------------------------------------------------------------------------

LEMMA DataInit == Init => DataOK
<1> SUFFICES ASSUME Init PROVE DataOK
  OBVIOUS
<1>1. full \in BOOLEAN /\ coarsening \in BOOLEAN /\ moved \in BOOLEAN
  BY Zenon DEF Init
<1>2. /\ hints \subseteq Path /\ stage \in {"idle", "running", "restoring"}
      /\ owed \subseteq Files /\ due \subseteq Files
      /\ Folded(hints) /\ Folded(taken.hints)
  BY DEF Init, Nothing, Folded
<1>3. taken \in Queue
  BY DEF Init, Nothing, Queue
<1> QED
  BY <1>1, <1>2, <1>3, Zenon DEF DataOK, TypeOK

LEMMA DataStep ==
  ASSUME DataOK, [Next]_vars
  PROVE  DataOK'
<1> USE FilesAssumption DEF DataOK, TypeOK, Queue
<1>1. full' \in BOOLEAN /\ coarsening' \in BOOLEAN /\ moved' \in BOOLEAN
  BY FlagsStep
<1> DEFINE Rest == /\ hints \subseteq Path /\ Folded(hints)
                   /\ stage \in {"idle", "running", "restoring"}
                   /\ taken \in Queue /\ Folded(taken.hints)
                   /\ owed \subseteq Files /\ due \subseteq Files
<1>2. Rest
  BY Zenon
<1>3. CASE UNCHANGED vars
  BY <1>3, SMT DEF vars, Folded
<1>4. CASE CoarsenLevel
  <2>1. hints' \subseteq Path /\ Folded(hints')
    BY <1>4, CoarsenCovers
  <2>2. UNCHANGED <<stage, taken, owed, due>>
    BY <1>4, Zenon DEF CoarsenLevel
  <2> QED
    BY <1>1, <2>1, <2>2, SMT DEF Folded
<1>5. CASE CoarsenDone
  <2>1. hints' \in {hints, {}} /\ UNCHANGED <<stage, taken, owed, due>>
    BY <1>5, Zenon DEF CoarsenDone
  <2> QED
    BY <1>1, <2>1, SMT DEF Folded
<1>6. ASSUME NEW report \in Reports, InvalidatePath(report) PROVE Rest'
  <2> DEFINE p == AsciiPrefix(LowerPath(report))
  <2>1. UNCHANGED <<stage, taken, due>> /\ owed' \subseteq Files
    BY <1>6, SMT DEF InvalidatePath, Announce
  <2>2. \/ hints' = hints \/ hints' = {}
        \/ p # <<>> /\ QueueHint(p)
    BY <1>6, Zenon DEF InvalidatePath, QueueAll
  <2>3. CASE p # <<>> /\ QueueHint(p)
    <3>1. report \in Path
      BY ReportsAssumption
    <3>2. p \in Path /\ LowerPath(p) = p
      BY <2>3, <3>1, ReportHint
    <3> HIDE DEF p
    <3>3. hints' \subseteq Path /\ Folded(hints')
      BY <2>3, <3>2, QueueHintCovers
    <3> QED
      BY <2>1, <3>3, SMT DEF Folded
  <2>4. CASE hints' = hints \/ hints' = {}
    BY <2>1, <2>4, SMT DEF Folded
  <2> QED
    BY <2>2, <2>3, <2>4, Zenon
<1>7. CASE InvalidateAll
  BY <1>1, <1>7, SMT DEF InvalidateAll, Announce, QueueAll, Folded
<1>8. CASE Take
  <2>1. PICK wantsFull \in {full, TRUE} : taken' = [full |-> wantsFull, hints |-> hints]
    BY <1>8, Zenon DEF Take
  <2>2. hints' \in {hints, {}} /\ stage' = "running" /\ due' = due \cup owed /\ owed' = {}
    BY <1>8, Zenon DEF Take
  <2>3. wantsFull \in BOOLEAN
    BY <2>1, Zenon
  <2> QED
    BY <1>1, <2>1, <2>2, <2>3, SMT DEF Folded
<1>9. CASE Publish
  <2>1. hints' \in {hints, {}} /\ stage' = "idle" /\ taken' = Nothing /\ owed' = owed
        /\ due' \subseteq due
    BY <1>9, Zenon DEF Publish
  <2> QED
    BY <1>1, <2>1, SMT DEF Folded, Nothing
<1>10. CASE Fail
  <2>1. /\ hints' = hints /\ taken' \in {taken, Nothing} /\ stage' \in {"restoring", "idle"}
        /\ owed' \in {owed, owed \cup due} /\ due' \in {due, {}}
    BY <1>10, Zenon DEF Fail
  <2>2. taken' \in Queue /\ Folded(taken'.hints)
    <3>1. Nothing \in Queue /\ Folded(Nothing.hints)
      BY DEF Nothing, Folded
    <3> QED
      BY <2>1, <3>1
  <2>3. owed' \subseteq Files /\ due' \subseteq Files
    BY <2>1
  <2> QED
    BY <1>1, <2>1, <2>2, <2>3 DEF Folded
<1>11. ASSUME NEW h \in taken.hints, RestoreHint(h) PROVE Rest'
  <2>1. h \in Path /\ LowerPath(h) = h
    BY DEF Folded
  <2>2. UNCHANGED <<stage, owed, due>> /\ taken' = [taken EXCEPT !.hints = @ \ {h}]
    BY <1>11, Zenon DEF RestoreHint
  <2>3. hints' = hints \/ QueueHint(h)
    BY <1>11, Zenon DEF RestoreHint
  <2>4. hints' \subseteq Path /\ Folded(hints')
    BY <2>1, <2>3, QueueHintCovers DEF Folded
  <2> QED
    BY <2>2, <2>4, SMT DEF Folded
<1>12. CASE RestoreEnd
  <2>1. hints' \in {hints, {}} /\ stage' = "idle" /\ taken' = Nothing
        /\ owed' = owed \cup due /\ due' = {}
    BY <1>12, Zenon DEF RestoreEnd
  <2> QED
    BY <1>1, <2>1, SMT DEF Folded, Nothing
<1>13. ASSUME Rest' PROVE DataOK'
  BY <1>1, <1>13
<1> QED
  BY <1>3, <1>4, <1>5, <1>6, <1>7, <1>8, <1>9, <1>10, <1>11, <1>12, <1>13, Zenon
     DEF Next, Critical

\* Every variable keeps its type: hints, whatever coarsening made of them, are
\* nonempty paths, and the observers hold files of the checkout.
THEOREM TypeCorrect == Spec => []TypeOK
<1>1. DataOK /\ [Next]_vars => DataOK'
  BY DataStep
<1>2. DataOK => TypeOK
  BY DEF DataOK
<1> QED
  BY DataInit, <1>1, <1>2, PTL DEF Spec
-----------------------------------------------------------------------------

-----------------------------------------------------------------------------
(* Coverage. *)

\* No step but a pass taking the queue, or publishing, uncovers a path.
LEMMA SafeKept ==
  ASSUME DataOK, NEW f \in Path, Safe(f),
         \/ CoarsenLevel \/ CoarsenDone \/ InvalidateAll
         \/ \E report \in Reports : InvalidatePath(report)
         \/ Fail \/ RestoreEnd
         \/ \E h \in taken.hints : RestoreHint(h)
  PROVE  Safe(f)'
<1> USE DEF DataOK, TypeOK, Queue
<1>1. CASE CoarsenLevel
  <2>1. full' = full
    BY <1>1, Zenon DEF CoarsenLevel
  <2>2. Hinted(f, hints) => Hinted(f, hints')
    BY <1>1, CoarsenCovers
  <2>3. Hinted(f, hints)' <=> Hinted(f, hints')
    BY Zenon DEF Hinted
  <2> QED
    BY <2>1, <2>2, <2>3, Zenon DEF Safe
<1>2. CASE CoarsenDone
  BY <1>2, Zenon DEF CoarsenDone, Safe, Hinted
<1>3. CASE InvalidateAll
  BY <1>3, Zenon DEF InvalidateAll, QueueAll, Safe
<1>4. ASSUME NEW h \in Path, LowerPath(h) = h, QueueHint(h) PROVE Safe(f)'
  <2>1. full' = full /\ hints \subseteq hints'
    BY <1>4, QueueHintCovers
  <2>2. Hinted(f, hints) => Hinted(f, hints)'
    BY <2>1 DEF Hinted
  <2> QED
    BY <2>1, <2>2, Zenon DEF Safe
<1>5. CASE UNCHANGED <<full, hints>> \/ full' = TRUE
  BY <1>5, Zenon DEF Safe, Hinted
<1>6. ASSUME NEW report \in Reports, InvalidatePath(report) PROVE Safe(f)'
  <2> DEFINE p == AsciiPrefix(LowerPath(report))
  <2>1. UNCHANGED <<full, hints>> \/ full' = TRUE \/ (p # <<>> /\ QueueHint(p))
    BY <1>6, Zenon DEF InvalidatePath, QueueAll
  <2>2. ASSUME p # <<>>, QueueHint(p) PROVE Safe(f)'
    <3>1. p \in Path /\ LowerPath(p) = p
      BY <2>2, ReportHint, ReportsAssumption
    <3> QED
      BY <1>4, <2>2, <3>1
  <2> QED
    BY <1>5, <2>1, <2>2, Zenon
<1>7. CASE Fail
  BY <1>7, Zenon DEF Fail, Safe, Hinted
<1>8. ASSUME NEW h \in taken.hints, RestoreHint(h) PROVE Safe(f)'
  <2>1. h \in Path /\ LowerPath(h) = h
    BY DEF Folded
  <2>2. UNCHANGED <<full, hints>> \/ QueueHint(h)
    BY <1>8, Zenon DEF RestoreHint
  <2> QED
    BY <1>4, <1>5, <2>1, <2>2
<1>9. CASE RestoreEnd
  BY <1>9, Zenon DEF RestoreEnd, Safe, Hinted
<1> QED
  BY <1>1, <1>2, <1>3, <1>6, <1>7, <1>8, <1>9, Zenon

\* What a report is about is covered at once.
LEMMA ReportCovered ==
  ASSUME DataOK, NEW report \in Reports, InvalidatePath(report),
         NEW f \in Path, About(report, f)
  PROVE  Safe(f)'
<1> DEFINE p == AsciiPrefix(LowerPath(report))
<1>1. CASE full
  <2>1. full' = full
    BY <1>1, Zenon DEF InvalidatePath
  <2> QED
    BY <1>1, <2>1, Zenon DEF Safe
<1>2. CASE ~full /\ p = <<>>
  BY <1>2, Zenon DEF InvalidatePath, QueueAll, Safe
<1>3. CASE ~full /\ p # <<>>
  <2>1. QueueHint(p)
    BY <1>3, Zenon DEF InvalidatePath
  <2>2. p \in Path /\ LowerPath(p) = p /\ Covers(p, LowerPath(f))
    BY <1>3, ReportHint, ReportsAssumption
  <2> HIDE DEF p
  <2>3. Hinted(f, hints')
    BY <2>1, <2>2, QueueHintCovers DEF DataOK, TypeOK
  <2> QED
    BY <2>3, Zenon DEF Safe, Hinted
<1> QED
  BY <1>1, <1>2, <1>3

\* A hint put back covers what it covered when it was taken.
LEMMA RestoredCovered ==
  ASSUME DataOK, NEW h \in taken.hints, RestoreHint(h),
         NEW f \in Path, Covers(h, LowerPath(f))
  PROVE  Safe(f)'
<1>1. CASE full
  <2>1. full' = full
    BY <1>1, Zenon DEF RestoreHint
  <2> QED
    BY <1>1, <2>1, Zenon DEF Safe
<1>2. CASE ~full
  <2>1. QueueHint(h)
    BY <1>2, Zenon DEF RestoreHint
  <2>2. h \in Path /\ LowerPath(h) = h
    BY DEF DataOK, TypeOK, Queue, Folded
  <2>3. Hinted(f, hints')
    BY <2>1, <2>2, QueueHintCovers DEF DataOK, TypeOK
  <2> QED
    BY <2>3, Zenon DEF Safe, Hinted
<1> QED
  BY <1>1, <1>2
-----------------------------------------------------------------------------

LEMMA CoverInit == Init => CoverInv
  BY Zenon DEF Init, CoverInv, OwedIsQueued, PassReadsDue, Safe, Reads

LEMMA CoverStep ==
  ASSUME DataOK, CoverInv, [Next]_vars
  PROVE  CoverInv'
<1> USE FilesAssumption DEF CoverInv
<1>0. owed \subseteq Path /\ due \subseteq Path
  BY DEF DataOK, TypeOK
<1>1. OwedIsQueued <=> \A f \in owed : Safe(f)
  BY Zenon DEF OwedIsQueued, Safe
<1>2. OwedIsQueued' <=> \A f \in owed' : Safe(f)'
  BY Zenon DEF OwedIsQueued, Safe
<1>3. PassReadsDue <=> \A f \in due : Reads(f) \/ (stage = "restoring" /\ Safe(f))
  BY Zenon DEF PassReadsDue, Safe
<1>4. PassReadsDue' <=> \A f \in due' : Reads(f)' \/ (stage' = "restoring" /\ Safe(f)')
  BY Zenon DEF PassReadsDue, Safe
\* Steps that only add to the queue, and to what is owed.
<1>5. ASSUME UNCHANGED <<stage, taken, due>>,
             \A f \in Path : Safe(f) => Safe(f)',
             \A f \in owed' : f \in owed \/ Safe(f)',
             moved' \/ (moved' = moved /\ owed' = owed), full => full'
      PROVE  CoverInv'
  <2>1. \A f \in owed' : Safe(f)'
    BY <1>0, <1>1, <1>5, Zenon
  <2>2. \A f \in due' : Reads(f)' \/ (stage' = "restoring" /\ Safe(f)')
    BY <1>0, <1>3, <1>5, Zenon DEF Reads
  <2>3. stage' = stage /\ due' = due /\ taken' = taken
    BY <1>5, Zenon
  <2>4. stage' = "idle" => due' = {}
    BY <2>3, Zenon
  <2>5. stage' = "running" /\ ~StaleReads => \A f \in due' : Safe(f)'
    BY <1>0, <1>5, <2>3, Zenon
  <2>6. ASSUME stage' = "running", ~moved' PROVE owed' = {}
    <3>1. moved' = moved /\ owed' = owed
      BY <1>5, <2>6, Zenon
    <3>2. moved \in BOOLEAN
      BY Zenon DEF DataOK, TypeOK
    <3>3. ~moved
      BY <2>6, <3>1, <3>2, SMT
    <3>4. stage = "running"
      BY <2>3, <2>6
    <3> QED
      BY <3>1, <3>3, <3>4
  <2>7. stage' = "restoring" => StaleReads /\ (taken'.full => full')
    BY <1>5, <2>3, Zenon
  <2> QED
    BY <1>2, <1>4, <2>1, <2>2, <2>4, <2>5, <2>6, <2>7, Zenon
<1>6. CASE UNCHANGED vars
  <2>1. UNCHANGED <<stage, taken, due, owed, moved, full, hints>>
    BY <1>6, Zenon DEF vars
  <2> QED
    BY <1>5, <2>1, Zenon DEF Safe, Hinted
<1>7. CASE CoarsenLevel \/ CoarsenDone
  <2>1. UNCHANGED <<stage, taken, due, owed, moved>> /\ (full => full')
    BY <1>7, Zenon DEF CoarsenLevel, CoarsenDone
  <2>2. \A f \in Path : Safe(f) => Safe(f)'
    BY <1>7, SafeKept
  <2>3. \A f \in owed' : f \in owed \/ Safe(f)'
    BY <2>1, Zenon
  <2> QED
    BY <1>5, <2>1, <2>2, <2>3, Zenon
<1>8. ASSUME NEW report \in Reports, InvalidatePath(report) PROVE CoverInv'
  <2>1. /\ UNCHANGED <<stage, taken, due>> /\ moved' = TRUE
        /\ owed' = owed \cup {f \in Files : About(report, f)}
        /\ full => full'
    BY <1>8, Zenon DEF InvalidatePath, Announce, QueueAll, QueueHint
  <2>2. \A f \in Path : Safe(f) => Safe(f)'
    BY <1>8, SafeKept
  <2>3. \A f \in owed' : f \in owed \/ Safe(f)'
    BY <1>8, <2>1, ReportCovered
  <2> QED
    BY <1>5, <2>1, <2>2, <2>3, Zenon
<1>9. CASE InvalidateAll
  <2>1. UNCHANGED <<stage, taken, due>> /\ moved' = TRUE /\ full' = TRUE
    BY <1>9, Zenon DEF InvalidateAll, Announce, QueueAll
  <2> QED
    BY <1>5, <2>1, Zenon DEF Safe
<1>10. CASE Take
  <2>1. PICK wantsFull \in {full, TRUE} :
          /\ taken' = [full |-> wantsFull, hints |-> hints]
          /\ IF StaleReads THEN full' = FALSE /\ hints' = {}
             ELSE full' = wantsFull /\ UNCHANGED hints
    BY <1>10, Zenon DEF Take
  <2>2. stage = "idle" /\ stage' = "running" /\ due' = due \cup owed /\ owed' = {}
    BY <1>10, Zenon DEF Take
  <2>3. due' = owed
    BY <2>2
  <2>4. taken'.full = wantsFull /\ taken'.hints = hints
    BY <2>1
  <2>5. full => wantsFull = TRUE
    BY <2>1, Zenon
  <2>6. \A f \in owed : Reads(f)'
    BY <1>1, <2>4, <2>5, Zenon DEF Reads, Safe, Hinted
  <2>7. ~StaleReads => \A f \in owed : Safe(f)'
    BY <1>1, <2>1, <2>5, Zenon DEF Safe, Hinted
  <2>8. stage' # "restoring" /\ stage' # "idle"
    BY <2>2
  <2>9. \A f \in owed' : Safe(f)'
    BY <2>2
  <2> QED
    BY <1>2, <1>4, <2>2, <2>3, <2>6, <2>7, <2>8, <2>9, Zenon
<1>11. CASE Publish
  <2>1. /\ stage = "running" /\ stage' = "idle" /\ owed' = owed
        /\ due' = {f \in due : ~Reads(f)}
        /\ moved => UNCHANGED <<full, hints>>
    BY <1>11, Zenon DEF Publish
  <2>2. due' = {}
    BY <1>3, <2>1
  <2>3. \A f \in owed' : Safe(f)'
    BY <1>1, <2>1, Zenon DEF Safe, Hinted
  <2>4. stage' # "restoring" /\ stage' # "running"
    BY <2>1
  <2> QED
    BY <1>2, <1>4, <2>2, <2>3, <2>4, Zenon
<1>12. CASE Fail
  <2>1. \A f \in Path : Safe(f) => Safe(f)'
    BY <1>12, SafeKept
  <2>2. CASE StaleReads
    <3>1. /\ stage' = "restoring" /\ UNCHANGED <<taken, owed, due>>
          /\ full' = (full \/ taken.full) /\ stage = "running"
      BY <1>12, <2>2, Zenon DEF Fail
    <3>2. stage # "restoring" /\ stage' # "running" /\ stage' # "idle"
      BY <3>1
    <3>3. \A f \in due' : Reads(f)'
      BY <1>3, <3>1, <3>2, Zenon DEF Reads
    <3>4. \A f \in owed' : Safe(f)'
      BY <1>0, <1>1, <2>1, <3>1, Zenon
    <3>5. taken'.full => full'
      BY <3>1, Zenon
    <3> QED
      BY <1>2, <1>4, <2>2, <3>2, <3>3, <3>4, <3>5, Zenon
  <2>3. CASE ~StaleReads
    <3>1. /\ stage = "running" /\ stage' = "idle"
          /\ owed' = owed \cup due /\ due' = {}
      BY <1>12, <2>3, Zenon DEF Fail
    <3>2. \A f \in owed' : Safe(f)'
      BY <1>0, <1>1, <2>1, <2>3, <3>1
    <3>3. stage' # "restoring" /\ stage' # "running"
      BY <3>1
    <3> QED
      BY <1>2, <1>4, <3>1, <3>2, <3>3, Zenon
  <2> QED
    BY <2>2, <2>3
<1>13. ASSUME NEW h \in taken.hints, RestoreHint(h) PROVE CoverInv'
  <2>1. /\ UNCHANGED <<stage, moved, owed, due>> /\ stage = "restoring"
        /\ taken' = [taken EXCEPT !.hints = @ \ {h}]
        /\ full' = full
    BY <1>13, Zenon DEF RestoreHint, QueueHint
  <2>2. taken'.full = taken.full /\ taken'.hints = taken.hints \ {h}
    BY <2>1 DEF DataOK, TypeOK, Queue
  <2>3. \A f \in Path : Safe(f) => Safe(f)'
    BY <1>13, SafeKept
  <2>4. ASSUME NEW f \in due PROVE Reads(f)' \/ Safe(f)'
    <3>1. f \in Path
      BY <1>0
    <3>2. CASE Safe(f)
      BY <2>3, <3>1, <3>2
    <3>3. CASE taken.full
      BY <2>2, <3>3, Zenon DEF Reads
    <3>4. CASE Hinted(f, taken.hints)
      <4>1. PICK g \in taken.hints : Covers(g, LowerPath(f))
        BY <3>4 DEF Hinted
      <4>2. CASE g = h
        BY <1>13, <3>1, <4>1, <4>2, RestoredCovered
      <4>3. CASE g # h
        <5>1. g \in taken'.hints
          BY <2>2, <4>3
        <5> QED
          BY <4>1, <5>1, Zenon DEF Reads, Hinted
      <4> QED
        BY <4>2, <4>3
    <3> QED
      BY <1>3, <3>2, <3>3, <3>4, Zenon DEF Reads
  <2>5. \A f \in owed' : Safe(f)'
    BY <1>0, <1>1, <2>1, <2>3, Zenon
  <2>6. stage' = "restoring" /\ stage' # "idle" /\ stage' # "running"
    BY <2>1
  <2>7. StaleReads /\ (taken'.full => full')
    BY <2>1, <2>2, Zenon
  <2> QED
    BY <1>2, <1>4, <2>1, <2>4, <2>5, <2>6, <2>7, Zenon
<1>14. CASE RestoreEnd
  <2>1. /\ stage = "restoring" /\ stage' = "idle" /\ taken.hints = {}
        /\ owed' = owed \cup due /\ due' = {}
    BY <1>14, Zenon DEF RestoreEnd
  <2>2. \A f \in Path : Safe(f) => Safe(f)'
    BY <1>14, SafeKept
  <2>3. \A f \in due : Safe(f)
    <3>1. taken.full => full
      BY <2>1, Zenon
    <3>2. \A f \in due : ~Hinted(f, taken.hints)
      BY <2>1 DEF Hinted
    <3> QED
      BY <1>3, <3>1, <3>2, Zenon DEF Reads, Safe
  <2>4. \A f \in owed' : Safe(f)'
    BY <1>0, <1>1, <2>1, <2>2, <2>3
  <2>5. stage' # "restoring" /\ stage' # "running"
    BY <2>1
  <2> QED
    BY <1>2, <1>4, <2>1, <2>4, <2>5, Zenon
<1> QED
  BY <1>6, <1>7, <1>8, <1>9, <1>10, <1>11, <1>12, <1>13, <1>14, Zenon DEF Next, Critical

LEMMA CoverInvariant == Spec => [](DataOK /\ CoverInv)
<1>1. DataOK /\ CoverInv /\ [Next]_vars => (DataOK /\ CoverInv)'
  BY DataStep, CoverStep
<1> QED
  BY DataInit, CoverInit, <1>1, PTL DEF Spec

\* However a change is spelled and however the queue is coarsened, put back or
\* overtaken, a changed file stays covered by what the next pass takes.
THEOREM OwedQueued == Spec => []OwedIsQueued
<1>1. CoverInv => OwedIsQueued
  BY DEF CoverInv
<1> QED
  BY CoverInvariant, <1>1, PTL

\* The pass that took the queue reads every file it was taken for, and its
\* failure returns them all.
THEOREM PassReads == Spec => []PassReadsDue
<1>1. CoverInv => PassReadsDue
  BY DEF CoverInv
<1> QED
  BY CoverInvariant, <1>1, PTL
-----------------------------------------------------------------------------

-----------------------------------------------------------------------------
(* Capacity. *)

\* The hints are finitely many, and too many only inside queue_hint's loop.
SizeInv ==
    /\ IsFiniteSet(hints)
    /\ ~coarsening => Cardinality(hints) <= Capacity
    /\ full /\ StaleReads /\ stage # "restoring" => hints = {}
    /\ coarsening => ~full

LEMMA CoarsenedFinite ==
  ASSUME IsFiniteSet(hints)
  PROVE  IsFiniteSet(Coarsened)
<1> DEFINE F == [h \in hints |-> IF h \in Deepest THEN Parent(h) ELSE h]
<1>1. F \in Surjection(hints, Coarsened)
  BY DEF Surjection, Coarsened
<1> QED
  BY <1>1, FS_Surjection, Zenon

LEMMA EmptyFits == IsFiniteSet({}) /\ Cardinality({}) <= Capacity
  BY FS_EmptySet, CapacityAssumption

LEMMA QueueHintFits ==
  ASSUME NEW p, IsFiniteSet(hints), coarsening \in BOOLEAN,
         ~coarsening => Cardinality(hints) <= Capacity, QueueHint(p)
  PROVE  /\ IsFiniteSet(hints') /\ full' = full
         /\ ~coarsening' => Cardinality(hints') <= Capacity
<1>1. CASE Hinted(p, hints)
  <2>1. UNCHANGED <<full, hints, coarsening>>
    BY <1>1, Zenon DEF QueueHint
  <2>2. ~coarsening' => ~coarsening
    BY <2>1, SMT
  <2> QED
    BY <2>1, <2>2, Zenon
<1>2. CASE ~Hinted(p, hints)
  <2>1. hints' = hints \cup {p} /\ full' = full
        /\ coarsening' = (Cardinality(hints') > Capacity)
    BY <1>2, Zenon DEF QueueHint
  <2>2. IsFiniteSet(hints')
    BY <2>1, FS_AddElement
  <2>3. Cardinality(hints') \in Nat
    BY <2>2, FS_CardinalityType
  <2>4. ASSUME ~coarsening' PROVE Cardinality(hints') <= Capacity
    <3>1. ~(Cardinality(hints') > Capacity)
      BY <2>1, <2>4, Zenon
    <3> QED
      BY <2>3, <3>1, CapacityAssumption
  <2> QED
    BY <2>1, <2>2, <2>4, Zenon
<1> QED
  BY <1>1, <1>2

LEMMA SizeInit == Init => SizeInv
<1> SUFFICES ASSUME Init PROVE SizeInv
  OBVIOUS
<1>1. hints = {} /\ coarsening = FALSE
  BY Zenon DEF Init
<1> QED
  BY <1>1, EmptyFits, Zenon DEF SizeInv

LEMMA SizeStep ==
  ASSUME TypeOK, SizeInv, [Next]_vars
  PROVE  SizeInv'
<1> USE DEF SizeInv
<1>0. full \in BOOLEAN /\ coarsening \in BOOLEAN
  BY Zenon DEF TypeOK
<1>1. CASE UNCHANGED vars
  BY <1>1, Zenon DEF vars
<1>2. CASE CoarsenLevel
  <2>1. coarsening /\ coarsening' = coarsening /\ full' = full
        /\ hints' \subseteq Coarsened
    BY <1>2, Zenon DEF CoarsenLevel
  <2>2. IsFiniteSet(hints')
    BY <2>1, CoarsenedFinite, FS_Subset
  <2>3. coarsening' /\ ~full'
    BY <1>0, <2>1, SMT
  <2> QED
    BY <2>2, <2>3, Zenon
<1>3. CASE CoarsenDone
  <2>1. coarsening' = FALSE
    BY <1>3, Zenon DEF CoarsenDone
  <2>2. CASE Cardinality(hints) > Capacity
    <3>1. hints' = {}
      BY <1>3, <2>2, Zenon DEF CoarsenDone
    <3> QED
      BY <2>1, <3>1, EmptyFits, Zenon
  <2>3. CASE ~(Cardinality(hints) > Capacity)
    <3>1. UNCHANGED <<full, hints>> /\ ~full
      BY <1>3, <2>3, Zenon DEF CoarsenDone
    <3>2. Cardinality(hints) <= Capacity
      BY <2>3, FS_CardinalityType, CapacityAssumption
    <3>3. ~full'
      BY <1>0, <3>1, SMT
    <3> QED
      BY <2>1, <3>1, <3>2, <3>3, Zenon
  <2> QED
    BY <2>2, <2>3
\* Steps that leave the queue alone, empty it, or hint one more path.
<1>4. ASSUME ~coarsening, stage' # "restoring" => stage # "restoring",
             UNCHANGED <<full, hints, coarsening>>
      PROVE  SizeInv'
  <2>1. ~coarsening'
    BY <1>0, <1>4, SMT
  <2>2. full' => full
    BY <1>0, <1>4, SMT
  <2> QED
    BY <1>4, <2>1, <2>2, Zenon
<1>5. ASSUME ~coarsening, UNCHANGED coarsening, hints' = {} PROVE SizeInv'
  <2>1. ~coarsening'
    BY <1>0, <1>5, SMT
  <2> QED
    BY <1>5, <2>1, EmptyFits, Zenon
<1>6. ASSUME ~coarsening, ~full, NEW p, QueueHint(p) PROVE SizeInv'
  <2>1. /\ IsFiniteSet(hints') /\ full' = full
        /\ ~coarsening' => Cardinality(hints') <= Capacity
    BY <1>0, <1>6, QueueHintFits
  <2>2. ~full'
    BY <1>0, <1>6, <2>1, SMT
  <2> QED
    BY <2>1, <2>2, Zenon
<1>7. ASSUME NEW report \in Reports, InvalidatePath(report) PROVE SizeInv'
  <2>1. ~coarsening /\ stage' = stage
    BY <1>7, Zenon DEF InvalidatePath, Locked
  <2>2. \/ UNCHANGED <<full, hints, coarsening>>
        \/ UNCHANGED coarsening /\ hints' = {}
        \/ ~full /\ QueueHint(AsciiPrefix(LowerPath(report)))
    BY <1>7, Zenon DEF InvalidatePath, QueueAll
  <2>3. stage' # "restoring" => stage # "restoring"
    BY <2>1
  <2> QED
    BY <1>4, <1>5, <1>6, <2>1, <2>2, <2>3
<1>8. CASE InvalidateAll
  <2>1. ~coarsening /\ UNCHANGED coarsening /\ hints' = {}
    BY <1>8, Zenon DEF InvalidateAll, QueueAll, Locked
  <2> QED
    BY <1>5, <2>1
<1>9. CASE Take /\ StaleReads
  <2>1. ~coarsening /\ UNCHANGED coarsening /\ hints' = {}
    BY <1>9, Zenon DEF Take, Locked
  <2> QED
    BY <1>5, <2>1
<1>10. CASE (Take \/ Fail) /\ ~StaleReads
  <2>1. ~coarsening /\ UNCHANGED <<hints, coarsening>>
    BY <1>10, Zenon DEF Take, Fail, Locked
  <2>2. ~coarsening'
    BY <1>0, <2>1, SMT
  <2> QED
    BY <1>10, <2>1, <2>2, Zenon
<1>11. CASE Fail /\ StaleReads
  <2>1. ~coarsening /\ UNCHANGED <<hints, coarsening>> /\ stage' = "restoring"
    BY <1>11, Zenon DEF Fail, Locked
  <2>2. ~coarsening'
    BY <1>0, <2>1, SMT
  <2> QED
    BY <2>1, <2>2, Zenon
<1>12. CASE Publish
  <2>1. /\ ~coarsening /\ UNCHANGED coarsening /\ stage = "running"
        /\ UNCHANGED <<full, hints>> \/ hints' = {}
    BY <1>12, Zenon DEF Publish, Locked
  <2>2. stage # "restoring"
    BY <2>1
  <2> QED
    BY <1>4, <1>5, <2>1, <2>2
<1>13. ASSUME NEW h \in taken.hints, RestoreHint(h) PROVE SizeInv'
  <2>1. /\ ~coarsening /\ stage' = "restoring"
        /\ UNCHANGED <<full, hints, coarsening>> \/ (~full /\ QueueHint(h))
    BY <1>13, Zenon DEF RestoreHint
  <2> QED
    BY <1>4, <1>6, <2>1
<1>14. CASE RestoreEnd
  <2>1. /\ ~coarsening /\ UNCHANGED <<full, coarsening>>
        /\ hints' = IF full THEN {} ELSE hints
    BY <1>14, Zenon DEF RestoreEnd
  <2>2. CASE full
    BY <1>5, <2>1, <2>2
  <2>3. CASE ~full
    <3>1. ~full' /\ ~coarsening' /\ hints' = hints
      BY <1>0, <2>1, <2>3, SMT
    <3> QED
      BY <2>1, <3>1, Zenon
  <2> QED
    BY <2>2, <2>3
<1> QED
  BY <1>1, <1>2, <1>3, <1>7, <1>8, <1>9, <1>10, <1>11, <1>12, <1>13, <1>14, Zenon
     DEF Next, Critical

\* Outside the mutex the queue never exceeds its capacity, and an eventual view
\* that owes a full pass keeps no hints.
THEOREM Capacious == Spec => []WithinCapacity
<1>1. DataOK /\ SizeInv /\ [Next]_vars => (DataOK /\ SizeInv)'
  BY DataStep, SizeStep DEF DataOK
<1>2. SizeInv => WithinCapacity
  BY Zenon DEF SizeInv, WithinCapacity, Locked
<1> QED
  BY DataInit, SizeInit, <1>1, <1>2, PTL DEF Spec
=============================================================================
