-------------------------- MODULE CollectionProofs --------------------------
(***************************************************************************)
(* Proofs about Collection: CollectionInv is inductive, and what it        *)
(* implies holds in every namespace, whatever the number of objects,       *)
(* members, readers and faults.                                            *)
(***************************************************************************)
EXTENDS Collection, FiniteSetTheorems, TLAPS

\* What is said of one object.
Exact(o) == RowInv(o) /\ ObjectIsExact(o)

-----------------------------------------------------------------------------
\* Frames: what a step leaves as it was.

\* Nothing that Exact(o) speaks of changes.
LEMMA ExactFrame ==
  ASSUME NEW o \in Ids, Exact(o), row'[o] = row[o], disk'[o] = disk[o],
         row[o].state = "absent" => shared'[o] = {}
  PROVE  Exact(o)'
  BY SMT DEF Exact, RowInv, ObjectIsExact

\* The directory and the guard of a withdrawn object are no part of it.
LEMMA ExactPending ==
  ASSUME NEW o \in Ids, Exact(o), row'[o] = row[o], row[o].state = "pending",
         disk'[o].file = disk[o].file
  PROVE  Exact(o)'
  BY SMT DEF Exact, RowInv, ObjectIsExact

\* An update replaces one row.
LEMMA UpdateFrame ==
  ASSUME NEW o \in Ids, NEW r \in Row, row \in [Ids -> Row], Update(o, r)
  PROVE  /\ row' \in [Ids -> Row]
         /\ row'[o] = r
         /\ \A p \in Ids \ {o} : row'[p] = row[p]
  BY SMT DEF Update

\* A change to the files of one object.
LEMMA StoreFrame ==
  ASSUME NEW o \in Ids, NEW d \in Disk, disk \in [Ids -> Disk], Store(o, d)
  PROVE  /\ disk' \in [Ids -> Disk]
         /\ disk'[o] = d
         /\ \A p \in Ids \ {o} : disk'[p] = disk[p]
  BY SMT DEF Store

LEMMA EmptyRowType == EmptyRow \in Row
<1>1. [m \in Members |-> 0] \in [Members -> Nat]
  BY SMT
<1>2. [m \in Members |-> None] \in [Members -> Nat \cup {None}]
  BY SMT
<1>3. "absent" \in States /\ 0 \in 0 .. MaxObjects /\ 0 \in 0 .. 2 /\ 0 \in Int
  BY ObjectsAssumption, SMT DEF States
<1> QED BY <1>1, <1>2, <1>3, Zenon DEF EmptyRow, Row

Passes == [pc : Pc, obj : 0 .. MaxObjects, excl : BOOLEAN, member : Members]

LEMMA IdleType == Idle \in Passes
  BY MembersAssumption, ObjectsAssumption, SMT DEF Idle, Passes, Pc

LEMMA PassType ==
  ASSUME c \in Passes
  PROVE  /\ \A q \in Pc : [c EXCEPT !.pc = q] \in Passes
         /\ \A q \in Pc, e \in BOOLEAN : [c EXCEPT !.pc = q, !.excl = e] \in Passes
         /\ \A q \in Pc, m \in Members : [c EXCEPT !.pc = q, !.member = m] \in Passes
  BY Zenon DEF Passes

LEMMA StoreType ==
  ASSUME NEW d \in Disk
  PROVE  /\ \A b \in BOOLEAN : [d EXCEPT !.container = b] \in Disk
         /\ \A b \in BOOLEAN : [d EXCEPT !.guard = b] \in Disk
         /\ \A m \in Members, n \in Nat :
              [d EXCEPT !.file = [@ EXCEPT ![m] = n]] \in Disk
<1>1. \A m \in Members, n \in Nat : [d EXCEPT !.file = [@ EXCEPT ![m] = n]] \in Disk
  BY SMT DEF Disk
<1> QED BY <1>1, Zenon DEF Disk

\* No object becomes published or ceases to be, and no protection is added.
LEMMA ProtectionFrame ==
  ASSUME TypeOK, ProtectionInv, refs' = refs,
         \A p \in Ids : shared'[p] \ {p} \subseteq shared[p] \ {p},
         \A p \in Ids :
           \/ /\ row'[p].state = row[p].state
              /\ row'[p].kind = row[p].kind
              /\ row'[p].base = row[p].base
           \/ row[p].state # "published" /\ row'[p].state # "published"
  PROVE  ProtectionInv'
<1>1. \A p \in Ids : shared'[p] \ {p} # {} => row'[p].state = "published"
  BY SMT DEF ProtectionInv
<1>2. \A r \in refs' : row'[r.target].state = "published"
  BY SMT DEF ProtectionInv, TypeOK, Ref
<1>3. \A p \in Ids : row'[p].kind = "checkpoint" /\ row'[p].state = "published"
       => [by |-> "checkpoint", source |-> p, target |-> row'[p].base] \in refs'
  BY SMT DEF ProtectionInv
<1> QED BY <1>1, <1>2, <1>3 DEF ProtectionInv

\* A published object is whole.
LEMMA PublishedIsWhole ==
  ASSUME TypeOK, NEW o \in Ids, Exact(o), row[o].state = "published"
  PROVE  Whole(o)
<1>1. row[o].kept = Members /\ row[o].seal = 2 /\ disk[o].container /\ disk[o].guard
  BY SMT DEF Exact, RowInv
<1>2. disk[o] \in Disk
  BY SMT DEF TypeOK
<1>3. disk[o].file \in [Members -> Nat]
  BY <1>2, SMT DEF Disk
<1>4. ASSUME NEW m \in Members PROVE disk[o].file[m] = Size[m]
  BY <1>1, <1>3, MembersAssumption, SMT DEF Exact, RowInv, ObjectIsExact, None
<1>5. disk[o].file = Size
  BY <1>3, <1>4, MembersAssumption, SMT
<1> QED BY <1>1, <1>5 DEF Whole

-----------------------------------------------------------------------------
\* One lemma for each action.

LEMMA PinStep ==
  ASSUME CollectionInv, NEW r \in Readers, NEW o \in Ids, Pin(r, o)
  PROVE  CollectionInv'
<1>u. UNCHANGED <<row, refs, disk, c, faults>>
  BY DEF Pin, Excluded
<1>y. TypeOK /\ PassInv /\ ProtectionInv /\ \A p \in Ids : Exact(p)
  BY DEF CollectionInv, Exact
<1>t. TypeOK'
 <2>shared. shared' \in [Ids -> SUBSET Holders]
   BY <1>u, <1>y, MembersAssumption, FaultsAssumption, SMT DEF Pin, Excluded, TypeOK, Holders, Readers
 <2> QED BY <1>u, <2>shared, <1>y, SMT DEF TypeOK
<1>x. \A p \in Ids : Exact(p)'
 BY <1>u, <1>y, ExactFrame, SMT DEF Pin, Excluded, Exact, RowInv, TypeOK
<1>p. PassInv'
  BY <1>u, <1>y, SMT DEF Pin, Excluded, TypeOK, PassInv, Idle
<1>i. ProtectionInv'
  BY <1>u, <1>y, SMT DEF Pin, Excluded, ProtectionInv, TypeOK
<1> QED BY <1>t, <1>x, <1>p, <1>i DEF CollectionInv, Exact

LEMMA CloseStep ==
  ASSUME CollectionInv, NEW r \in Readers, NEW o \in Ids, Close(r, o)
  PROVE  CollectionInv'
<1>u. UNCHANGED <<row, refs, disk, c, faults>>
  BY DEF Close
<1>y. TypeOK /\ PassInv /\ ProtectionInv /\ \A p \in Ids : Exact(p)
  BY DEF CollectionInv, Exact
<1>t. TypeOK'
 <2>shared. shared' \in [Ids -> SUBSET Holders]
   BY <1>u, <1>y, MembersAssumption, FaultsAssumption, SMT DEF Close, TypeOK, Holders, Readers
 <2> QED BY <1>u, <2>shared, <1>y, SMT DEF TypeOK
<1>x. \A p \in Ids : Exact(p)'
 BY <1>u, <1>y, ExactFrame, SMT DEF Close, Exact, RowInv, TypeOK
<1>p. PassInv'
  BY <1>u, <1>y, SMT DEF Close, TypeOK, PassInv, Idle
<1>i. ProtectionInv'
  BY <1>u, <1>y, SMT DEF Close, ProtectionInv, TypeOK
<1> QED BY <1>t, <1>x, <1>p, <1>i DEF CollectionInv, Exact

LEMMA PublishViewStep ==
  ASSUME CollectionInv, NEW o \in Ids, PublishView(o)
  PROVE  CollectionInv'
<1>u. UNCHANGED <<row, disk, shared, c, faults>>
  BY DEF PublishView
<1>y. TypeOK /\ PassInv /\ ProtectionInv /\ \A p \in Ids : Exact(p)
  BY DEF CollectionInv, Exact
<1>t. TypeOK'
 <2>refs. refs' \subseteq Ref
   <3>1. row[o].base \in Ids
      BY <1>y, SMT DEF PublishView, Exact, RowInv
    <3>2. \A t \in Ids : [by |-> "view", source |-> 0, target |-> t] \in Ref
      BY ObjectsAssumption, SMT DEF Ref
    <3> QED BY <1>y, <3>1, <3>2, SMT DEF PublishView, TypeOK
 <2> QED BY <1>u, <2>refs, <1>y, SMT DEF TypeOK
<1>x. \A p \in Ids : Exact(p)'
 BY <1>u, <1>y, ExactFrame, SMT DEF PublishView, Exact, RowInv, TypeOK
<1>p. PassInv'
  BY <1>u, <1>y, SMT DEF PublishView, TypeOK, PassInv, Idle
<1>i. ProtectionInv'
  BY <1>u, <1>y, SMT DEF PublishView, ProtectionInv, TypeOK
<1> QED BY <1>t, <1>x, <1>p, <1>i DEF CollectionInv, Exact

LEMMA RetainStep ==
  ASSUME CollectionInv, NEW o \in Ids, Retain(o)
  PROVE  CollectionInv'
<1>u. UNCHANGED <<row, disk, shared, c, faults>>
  BY DEF Retain
<1>y. TypeOK /\ PassInv /\ ProtectionInv /\ \A p \in Ids : Exact(p)
  BY DEF CollectionInv, Exact
<1>t. TypeOK'
 <2>refs. refs' \subseteq Ref
   <3>1. [by |-> "persistent", source |-> 0, target |-> o] \in Ref
      BY ObjectsAssumption, SMT DEF Ref
    <3> QED BY <1>y, <3>1, SMT DEF Retain, TypeOK
 <2> QED BY <1>u, <2>refs, <1>y, SMT DEF TypeOK
<1>x. \A p \in Ids : Exact(p)'
 BY <1>u, <1>y, ExactFrame, SMT DEF Retain, Exact, RowInv, TypeOK
<1>p. PassInv'
  BY <1>u, <1>y, SMT DEF Retain, TypeOK, PassInv, Idle
<1>i. ProtectionInv'
  BY <1>u, <1>y, SMT DEF Retain, ProtectionInv, TypeOK
<1> QED BY <1>t, <1>x, <1>p, <1>i DEF CollectionInv, Exact

LEMMA ReleaseStep ==
  ASSUME CollectionInv, NEW o \in Ids, Release(o)
  PROVE  CollectionInv'
<1>u. UNCHANGED <<row, disk, shared, c, faults>>
  BY DEF Release
<1>y. TypeOK /\ PassInv /\ ProtectionInv /\ \A p \in Ids : Exact(p)
  BY DEF CollectionInv, Exact
<1>t. TypeOK'
 <2>refs. refs' \subseteq Ref
   BY <1>u, <1>y, MembersAssumption, FaultsAssumption, SMT DEF Release, TypeOK, Ref, Row
 <2> QED BY <1>u, <2>refs, <1>y, SMT DEF TypeOK
<1>x. \A p \in Ids : Exact(p)'
 BY <1>u, <1>y, ExactFrame, SMT DEF Release, Exact, RowInv, TypeOK
<1>p. PassInv'
  BY <1>u, <1>y, SMT DEF Release, TypeOK, PassInv, Idle
<1>i. ProtectionInv'
  BY <1>u, <1>y, SMT DEF Release, ProtectionInv, TypeOK
<1> QED BY <1>t, <1>x, <1>p, <1>i DEF CollectionInv, Exact

LEMMA RetireViewStep ==
  ASSUME CollectionInv, RetireView
  PROVE  CollectionInv'
<1>u. UNCHANGED <<row, disk, shared, c, faults>>
  BY DEF RetireView
<1>y. TypeOK /\ PassInv /\ ProtectionInv /\ \A p \in Ids : Exact(p)
  BY DEF CollectionInv, Exact
<1>t. TypeOK'
 <2>refs. refs' \subseteq Ref
   BY <1>u, <1>y, MembersAssumption, FaultsAssumption, SMT DEF RetireView, TypeOK, Ref, Row
 <2> QED BY <1>u, <2>refs, <1>y, SMT DEF TypeOK
<1>x. \A p \in Ids : Exact(p)'
 BY <1>u, <1>y, ExactFrame, SMT DEF RetireView, Exact, RowInv, TypeOK
<1>p. PassInv'
  BY <1>u, <1>y, SMT DEF RetireView, TypeOK, PassInv, Idle
<1>i. ProtectionInv'
  BY <1>u, <1>y, SMT DEF RetireView, ProtectionInv, TypeOK
<1> QED BY <1>t, <1>x, <1>p, <1>i DEF CollectionInv, Exact

LEMMA LockStep ==
  ASSUME CollectionInv, NEW o \in Ids, Lock(o)
  PROVE  CollectionInv'
<1>u. UNCHANGED <<row, refs, disk, shared, faults>>
  BY DEF Lock
<1>y. TypeOK /\ PassInv /\ ProtectionInv /\ \A p \in Ids : Exact(p)
  BY DEF CollectionInv, Exact
<1>t. TypeOK'
 <2>c. c' \in [pc : Pc, obj : 0 .. MaxObjects, excl : BOOLEAN, member : Members]
   BY <1>u, <1>y, MembersAssumption, FaultsAssumption, SMT DEF Lock, TypeOK, Pc, Idle, Ids
 <2> QED BY <1>u, <2>c, <1>y, SMT DEF TypeOK
<1>x. \A p \in Ids : Exact(p)'
 BY <1>u, <1>y, ExactFrame, SMT DEF Lock, Exact, RowInv, TypeOK
<1>p. PassInv'
  BY <1>u, <1>y, SMT DEF Lock, TypeOK, PassInv, Idle
<1>i. ProtectionInv'
  BY <1>u, <1>y, SMT DEF Lock, ProtectionInv, TypeOK
<1> QED BY <1>t, <1>x, <1>p, <1>i DEF CollectionInv, Exact

LEMMA JudgeStep ==
  ASSUME CollectionInv, Judge
  PROVE  CollectionInv'
<1>u. UNCHANGED <<row, refs, disk, shared, faults>>
  BY DEF Judge, Eligible
<1>y. TypeOK /\ PassInv /\ ProtectionInv /\ \A p \in Ids : Exact(p)
  BY DEF CollectionInv, Exact
<1>t. TypeOK'
 <2>c. c' \in [pc : Pc, obj : 0 .. MaxObjects, excl : BOOLEAN, member : Members]
  <3>1. c \in Passes
    BY <1>y DEF TypeOK, Passes
  <3>2. {"pend", "members", "retire"} \subseteq Pc
    BY DEF Pc
  <3>3. c' = Idle \/ \E q \in {"pend", "members", "retire"} : c' = [c EXCEPT !.pc = q]
    BY SMT DEF Judge, Eligible
  <3> QED BY <3>1, <3>2, <3>3, IdleType, PassType, Zenon DEF Passes
 <2> QED BY <1>u, <2>c, <1>y, SMT DEF TypeOK
<1>x. \A p \in Ids : Exact(p)'
 BY <1>u, <1>y, ExactFrame, SMT DEF Judge, Eligible, Exact, RowInv, TypeOK
<1>p. PassInv'
  BY <1>u, <1>y, SMT DEF Judge, Eligible, TypeOK, PassInv, Idle
<1>i. ProtectionInv'
  BY <1>u, <1>y, SMT DEF Judge, Eligible, ProtectionInv, TypeOK
<1> QED BY <1>t, <1>x, <1>p, <1>i DEF CollectionInv, Exact

LEMMA ResumeStep ==
  ASSUME CollectionInv, NEW m \in Members, Resume(m)
  PROVE  CollectionInv'
<1>u. UNCHANGED <<row, refs, disk, shared, faults>>
  BY DEF Resume, Recovered, NextMember
<1>y. TypeOK /\ PassInv /\ ProtectionInv /\ \A p \in Ids : Exact(p)
  BY DEF CollectionInv, Exact
<1>q. /\ row[c.obj].pending[m] # None /\ m \in row[c.obj].kept
      /\ disk[c.obj].file[m] = row[c.obj].pending[m]
      /\ row[c.obj].pending[m] \in 0 .. row[c.obj].logical[m] - 1
  BY <1>y, SMT DEF Resume, Recovered, NextMember, TypeOK, PassInv, Row, Disk
<1>t. TypeOK'
 <2>c. c' \in [pc : Pc, obj : 0 .. MaxObjects, excl : BOOLEAN, member : Members]
  <3>1. c \in Passes
    BY <1>y DEF TypeOK, Passes
  <3>2. {"credit"} \subseteq Pc
    BY DEF Pc
  <3>3. c' = Idle \/ c' = [c EXCEPT !.pc = "credit", !.member = m]
    BY SMT DEF Resume, Recovered, NextMember
  <3> QED BY <3>1, <3>2, <3>3, IdleType, PassType, ZenonT(30) DEF Passes
 <2> QED BY <1>u, <2>c, <1>y, SMT DEF TypeOK
<1>x. \A p \in Ids : Exact(p)'
 BY <1>u, <1>y, ExactFrame, SMT DEF Resume, Recovered, NextMember, Exact, RowInv, TypeOK
<1>p. PassInv'
  BY <1>u, <1>q, <1>y, SMT DEF Resume, Recovered, NextMember, TypeOK, PassInv, Idle
<1>i. ProtectionInv'
  BY <1>u, <1>q, <1>y, SMT DEF Resume, Recovered, NextMember, ProtectionInv, TypeOK
<1> QED BY <1>t, <1>x, <1>p, <1>i DEF CollectionInv, Exact

LEMMA MembersGoneStep ==
  ASSUME CollectionInv, MembersGone
  PROVE  CollectionInv'
<1>u. UNCHANGED <<row, refs, disk, shared, faults>>
  BY DEF MembersGone
<1>y. TypeOK /\ PassInv /\ ProtectionInv /\ \A p \in Ids : Exact(p)
  BY DEF CollectionInv, Exact
<1>t. TypeOK'
 <2>c. c' \in [pc : Pc, obj : 0 .. MaxObjects, excl : BOOLEAN, member : Members]
  <3>1. c \in Passes
    BY <1>y DEF TypeOK, Passes
  <3>2. {"rmdir"} \subseteq Pc
    BY DEF Pc
  <3>3. c' = Idle \/ \E q \in {"rmdir"} : c' = [c EXCEPT !.pc = q]
    BY SMT DEF MembersGone
  <3> QED BY <3>1, <3>2, <3>3, IdleType, PassType, Zenon DEF Passes
 <2> QED BY <1>u, <2>c, <1>y, SMT DEF TypeOK
<1>x. \A p \in Ids : Exact(p)'
 BY <1>u, <1>y, ExactFrame, SMT DEF MembersGone, Exact, RowInv, TypeOK
<1>p. PassInv'
  BY <1>u, <1>y, SMT DEF MembersGone, TypeOK, PassInv, Idle
<1>i. ProtectionInv'
  BY <1>u, <1>y, SMT DEF MembersGone, ProtectionInv, TypeOK
<1> QED BY <1>t, <1>x, <1>p, <1>i DEF CollectionInv, Exact

LEMMA FinishMissingStep ==
  ASSUME CollectionInv, NEW o \in Ids, FinishMissing(o)
  PROVE  CollectionInv'
<1>u. UNCHANGED <<row, refs, disk, shared, faults>>
  BY DEF FinishMissing, RowInv, Exact
<1>y. TypeOK /\ PassInv /\ ProtectionInv /\ \A p \in Ids : Exact(p)
  BY DEF CollectionInv, Exact
<1>t. TypeOK'
 <2>c. c' \in [pc : Pc, obj : 0 .. MaxObjects, excl : BOOLEAN, member : Members]
   BY <1>u, <1>y, MembersAssumption, FaultsAssumption, SMT DEF FinishMissing, RowInv, Exact, TypeOK, Pc, Idle, Ids
 <2> QED BY <1>u, <2>c, <1>y, SMT DEF TypeOK
<1>x. \A p \in Ids : Exact(p)'
 BY <1>u, <1>y, ExactFrame, SMT DEF FinishMissing, RowInv, Exact, Exact, RowInv, TypeOK
<1>p. PassInv'
  BY <1>u, <1>y, SMT DEF FinishMissing, RowInv, Exact, TypeOK, PassInv, Idle
<1>i. ProtectionInv'
  BY <1>u, <1>y, SMT DEF FinishMissing, RowInv, Exact, ProtectionInv, TypeOK
<1> QED BY <1>t, <1>x, <1>p, <1>i DEF CollectionInv, Exact

LEMMA InterruptStep ==
  ASSUME CollectionInv, Interrupt
  PROVE  CollectionInv'
<1>u. UNCHANGED <<row, refs, disk, shared>>
  BY DEF Interrupt
<1>y. TypeOK /\ PassInv /\ ProtectionInv /\ \A p \in Ids : Exact(p)
  BY DEF CollectionInv, Exact
<1>t. TypeOK'
 <2>c. c' \in [pc : Pc, obj : 0 .. MaxObjects, excl : BOOLEAN, member : Members]
  <3>1. c \in Passes
    BY <1>y DEF TypeOK, Passes
  <3>2. {"idle"} \subseteq Pc
    BY DEF Pc
  <3>3. c' = Idle \/ \E q \in {"idle"} : c' = [c EXCEPT !.pc = q]
    BY SMT DEF Interrupt
  <3> QED BY <3>1, <3>2, <3>3, IdleType, PassType, Zenon DEF Passes
 <2>faults. faults' \in 0 .. MaxFaults
   BY <1>u, <1>y, MembersAssumption, FaultsAssumption, SMT DEF Interrupt, TypeOK, Ids
 <2> QED BY <1>u, <2>c, <2>faults, <1>y, SMT DEF TypeOK
<1>x. \A p \in Ids : Exact(p)'
 BY <1>u, <1>y, ExactFrame, SMT DEF Interrupt, Exact, RowInv, TypeOK
<1>p. PassInv'
  BY <1>u, <1>y, SMT DEF Interrupt, TypeOK, PassInv, Idle
<1>i. ProtectionInv'
  BY <1>u, <1>y, SMT DEF Interrupt, ProtectionInv, TypeOK
<1> QED BY <1>t, <1>x, <1>p, <1>i DEF CollectionInv, Exact

LEMMA IoStep ==
  ASSUME CollectionInv, Io
  PROVE  CollectionInv'
<1>u. UNCHANGED <<row, refs, shared, faults>>
  BY DEF Io
<1>y. TypeOK /\ PassInv /\ ProtectionInv /\ \A p \in Ids : Exact(p)
  BY DEF CollectionInv, Exact
<1>q. /\ c.obj \in Ids /\ row[c.obj].state = "pending" /\ c.member \in row[c.obj].kept
      /\ row[c.obj].pending[c.member] \in Nat
  BY <1>y, SMT DEF Io, PassInv, TypeOK, Row
<1> DEFINE d == [disk[c.obj] EXCEPT
                   !.file = [@ EXCEPT ![c.member] = row[c.obj].pending[c.member]]]
<1>o. c.obj \in Ids
  BY <1>y, SMT DEF Io, PassInv
<1>f. d \in Disk
 <2>1. disk[c.obj] \in Disk
   BY <1>o, <1>y, SMT DEF TypeOK
 <2>2. c.member \in Members /\ row[c.obj].pending[c.member] \in Nat
   BY <1>y, SMT DEF Io, TypeOK, PassInv, Row
  <2> QED BY <2>1, <2>2, StoreType, Zenon
<1>g. Store(c.obj, d)
  BY <1>o, SMT DEF Io
<1>h. /\ disk' \in [Ids -> Disk]
      /\ disk'[c.obj] = d
      /\ \A p \in Ids \ {c.obj} : disk'[p] = disk[p]
  BY <1>o, <1>f, <1>g, <1>y, StoreFrame DEF TypeOK
<1>j. /\ disk'[c.obj].container = disk[c.obj].container /\ disk'[c.obj].guard = disk[c.obj].guard
      /\ disk'[c.obj].file = [disk[c.obj].file EXCEPT ![c.member] = row[c.obj].pending[c.member]]
  BY <1>o, <1>h, <1>y, SMT DEF TypeOK, Disk
<1> HIDE DEF d
<1>t. TypeOK'
 <2>disk. disk' \in [Ids -> Disk]
   BY <1>h
 <2>c. c' \in [pc : Pc, obj : 0 .. MaxObjects, excl : BOOLEAN, member : Members]
  <3>1. c \in Passes
    BY <1>y DEF TypeOK, Passes
  <3>2. {"credit"} \subseteq Pc
    BY DEF Pc
  <3>3. c' = Idle \/ \E q \in {"credit"} : c' = [c EXCEPT !.pc = q]
    BY SMT DEF Io
  <3> QED BY <3>1, <3>2, <3>3, IdleType, PassType, Zenon DEF Passes
 <2> QED BY <1>u, <2>disk, <2>c, <1>y, SMT DEF TypeOK
<1>x. \A p \in Ids : Exact(p)'
 <2>1. ASSUME NEW p \in Ids, p # c.obj PROVE Exact(p)'
   BY <2>1, <1>u, <1>q, <1>o, <1>h, <1>j, <1>y, ExactFrame, SMT DEF Io, TypeOK, Exact, RowInv
 <2>2. ASSUME NEW p \in Ids, p = c.obj PROVE Exact(p)'
   <3>1. /\ row'[p] = row[p] /\ row[p].state = "pending" /\ row[p] \in Row
         /\ c.member \in row[p].kept /\ disk[p].file \in [Members -> Nat]
         /\ disk'[p].file = [disk[p].file EXCEPT ![c.member] = row[p].pending[c.member]]
     BY <2>2, <1>u, <1>j, <1>y, <1>q, SMT DEF TypeOK, Disk
   <3>2. \A m \in Members :
           \/ disk'[p].file[m] = disk[p].file[m]
           \/ (m \in row[p].kept /\ disk'[p].file[m] = row[p].pending[m])
     <4>1. c.member \in Members
       BY <3>1, SMT DEF Row
     <4> QED BY <3>1, <4>1, Zenon
   <3> QED BY <3>1, <3>2, <1>y, SMT DEF Exact, RowInv, ObjectIsExact
 <2> QED BY <2>1, <2>2
<1>p. PassInv'
  <2>1. disk[c.obj].file \in [Members -> Nat] /\ c.member \in Members
    BY <1>q, <1>y, SMT DEF TypeOK, Disk
  <2>2. disk'[c.obj].file[c.member] = row[c.obj].pending[c.member]
    BY <1>j, <2>1, SMT
  <2>3. c' = [c EXCEPT !.pc = "credit"] /\ c.pc = "io"
    BY DEF Io
  <2>4. c'.pc = "credit" /\ c'.obj = c.obj /\ c'.excl = c.excl /\ c'.member = c.member
    BY <2>3, <1>y, SMT DEF TypeOK
  <2> QED BY <2>2, <2>3, <2>4, <1>u, <1>q, <1>y, SMT DEF PassInv
<1>i. ProtectionInv'
  BY <1>u, <1>q, <1>o, <1>h, <1>j, <1>y, SMT DEF Io, ProtectionInv, TypeOK
<1> QED BY <1>t, <1>x, <1>p, <1>i DEF CollectionInv, Exact

LEMMA RemoveContainerStep ==
  ASSUME CollectionInv, RemoveContainer
  PROVE  CollectionInv'
<1>u. UNCHANGED <<row, refs, shared, faults>>
  BY DEF RemoveContainer
<1>y. TypeOK /\ PassInv /\ ProtectionInv /\ \A p \in Ids : Exact(p)
  BY DEF CollectionInv, Exact
<1> DEFINE d == [disk[c.obj] EXCEPT !.container = FALSE]
<1>o. c.obj \in Ids
  BY <1>y, SMT DEF RemoveContainer, PassInv
<1>f. d \in Disk
 <2>1. disk[c.obj] \in Disk
   BY <1>o, <1>y, SMT DEF TypeOK
  <2> QED BY <2>1, StoreType, Zenon
<1>g. Store(c.obj, d)
  BY <1>o, SMT DEF RemoveContainer
<1>h. /\ disk' \in [Ids -> Disk]
      /\ disk'[c.obj] = d
      /\ \A p \in Ids \ {c.obj} : disk'[p] = disk[p]
  BY <1>o, <1>f, <1>g, <1>y, StoreFrame DEF TypeOK
<1>j. disk'[c.obj].file = disk[c.obj].file
  BY <1>o, <1>h, <1>y, SMT DEF TypeOK, Disk
<1> HIDE DEF d
<1>t. TypeOK'
 <2>disk. disk' \in [Ids -> Disk]
   BY <1>h
 <2>c. c' \in [pc : Pc, obj : 0 .. MaxObjects, excl : BOOLEAN, member : Members]
  <3>1. c \in Passes
    BY <1>y DEF TypeOK, Passes
  <3>2. {"unguard"} \subseteq Pc
    BY DEF Pc
  <3>3. c' = Idle \/ \E q \in {"unguard"} : c' = [c EXCEPT !.pc = q]
    BY SMT DEF RemoveContainer
  <3> QED BY <3>1, <3>2, <3>3, IdleType, PassType, Zenon DEF Passes
 <2> QED BY <1>u, <2>disk, <2>c, <1>y, SMT DEF TypeOK
<1>x. \A p \in Ids : Exact(p)'
 <2>1. ASSUME NEW p \in Ids, p # c.obj PROVE Exact(p)'
   BY <2>1, <1>u, <1>o, <1>h, <1>j, <1>y, ExactFrame, SMT DEF RemoveContainer, TypeOK, Exact, RowInv
 <2>2. ASSUME NEW p \in Ids, p = c.obj PROVE Exact(p)'
   BY <2>2, <1>u, <1>o, <1>h, <1>j, <1>y, ExactPending, SMT DEF RemoveContainer, PassInv, TypeOK
 <2> QED BY <2>1, <2>2
<1>p. PassInv'
  BY <1>u, <1>o, <1>h, <1>j, <1>y, SMT DEF RemoveContainer, TypeOK, PassInv, Idle
<1>i. ProtectionInv'
  BY <1>u, <1>o, <1>h, <1>j, <1>y, SMT DEF RemoveContainer, ProtectionInv, TypeOK
<1> QED BY <1>t, <1>x, <1>p, <1>i DEF CollectionInv, Exact

LEMMA RemoveGuardStep ==
  ASSUME CollectionInv, RemoveGuard
  PROVE  CollectionInv'
<1>u. UNCHANGED <<row, refs, shared, faults>>
  BY DEF RemoveGuard
<1>y. TypeOK /\ PassInv /\ ProtectionInv /\ \A p \in Ids : Exact(p)
  BY DEF CollectionInv, Exact
<1> DEFINE d == [disk[c.obj] EXCEPT !.guard = FALSE]
<1>o. c.obj \in Ids
  BY <1>y, SMT DEF RemoveGuard, PassInv
<1>f. d \in Disk
 <2>1. disk[c.obj] \in Disk
   BY <1>o, <1>y, SMT DEF TypeOK
  <2> QED BY <2>1, StoreType, Zenon
<1>g. Store(c.obj, d)
  BY <1>o, SMT DEF RemoveGuard
<1>h. /\ disk' \in [Ids -> Disk]
      /\ disk'[c.obj] = d
      /\ \A p \in Ids \ {c.obj} : disk'[p] = disk[p]
  BY <1>o, <1>f, <1>g, <1>y, StoreFrame DEF TypeOK
<1>j. disk'[c.obj].file = disk[c.obj].file
  BY <1>o, <1>h, <1>y, SMT DEF TypeOK, Disk
<1> HIDE DEF d
<1>t. TypeOK'
 <2>disk. disk' \in [Ids -> Disk]
   BY <1>h
 <2>c. c' \in [pc : Pc, obj : 0 .. MaxObjects, excl : BOOLEAN, member : Members]
  <3>1. c \in Passes
    BY <1>y DEF TypeOK, Passes
  <3>2. {"removed"} \subseteq Pc
    BY DEF Pc
  <3>3. c' = Idle \/ c' = [c EXCEPT !.pc = "removed", !.excl = FALSE]
    BY SMT DEF RemoveGuard
  <3> QED BY <3>1, <3>2, <3>3, IdleType, PassType, Zenon DEF Passes
 <2> QED BY <1>u, <2>disk, <2>c, <1>y, SMT DEF TypeOK
<1>x. \A p \in Ids : Exact(p)'
 <2>1. ASSUME NEW p \in Ids, p # c.obj PROVE Exact(p)'
   BY <2>1, <1>u, <1>o, <1>h, <1>j, <1>y, ExactFrame, SMT DEF RemoveGuard, TypeOK, Exact, RowInv
 <2>2. ASSUME NEW p \in Ids, p = c.obj PROVE Exact(p)'
   BY <2>2, <1>u, <1>o, <1>h, <1>j, <1>y, ExactPending, SMT DEF RemoveGuard, PassInv, TypeOK
 <2> QED BY <2>1, <2>2
<1>p. PassInv'
  BY <1>u, <1>o, <1>h, <1>j, <1>y, SMT DEF RemoveGuard, TypeOK, PassInv, Idle
<1>i. ProtectionInv'
  BY <1>u, <1>o, <1>h, <1>j, <1>y, SMT DEF RemoveGuard, ProtectionInv, TypeOK
<1> QED BY <1>t, <1>x, <1>p, <1>i DEF CollectionInv, Exact

LEMMA CreateGenerationStep ==
  ASSUME CollectionInv, NEW o \in Ids, CreateGeneration(o)
  PROVE  CollectionInv'
<1>u. UNCHANGED <<refs, disk, shared, c, faults>>
  BY DEF CreateGeneration, Create
<1>y. TypeOK /\ PassInv /\ ProtectionInv /\ \A p \in Ids : Exact(p)
  BY DEF CollectionInv, Exact
<1> DEFINE r == [EmptyRow EXCEPT !.state = "preparing",
                   !.kind = "generation",
                   !.base = 0,
                   !.resv = "live"]
<1>o. o \in Ids
  OBVIOUS
<1>c. EmptyRow \in Row
  BY EmptyRowType
<1>a. r \in Row
 <2>1. "preparing" \in States
   BY <1>y, MembersAssumption, ObjectsAssumption, SMT DEF States, Ids, CreateGeneration, Create
 <2>2. "generation" \in {"generation", "checkpoint"}
   BY <1>y, MembersAssumption, ObjectsAssumption, SMT DEF States, Ids, CreateGeneration, Create
 <2>3. 0 \in 0 .. MaxObjects
   BY <1>y, MembersAssumption, ObjectsAssumption, SMT DEF States, Ids, CreateGeneration, Create
 <2>4. "live" \in {"none", "live", "ended"}
   BY <1>y, MembersAssumption, ObjectsAssumption, SMT DEF States, Ids, CreateGeneration, Create
 <2> QED BY <1>c, <2>1, <2>2, <2>3, <2>4, Zenon DEF Row
<1>b. Update(o, r)
  BY <1>o, SMT DEF CreateGeneration, Create, SetState, Producing
<1>d. /\ row' \in [Ids -> Row]
      /\ row'[o] = r
      /\ \A p \in Ids \ {o} : row'[p] = row[p]
  BY <1>o, <1>a, <1>b, <1>y, UpdateFrame DEF TypeOK
<1>e. /\ r.state = "preparing"
      /\ r.kind = "generation"
      /\ r.base = 0
      /\ r.seal = EmptyRow.seal
      /\ r.open = EmptyRow.open
      /\ r.resv = "live"
      /\ r.bytes = EmptyRow.bytes
      /\ r.kept = EmptyRow.kept
      /\ r.logical = EmptyRow.logical
      /\ r.pending = EmptyRow.pending
      /\ r.credited = EmptyRow.credited
  BY <1>c, SMT DEF Row
<1>s. row[o].state = "absent"
  BY DEF CreateGeneration, Create
<1> HIDE DEF r
<1>t. TypeOK'
 <2>row. row' \in [Ids -> Row]
   BY <1>d
 <2> QED BY <1>u, <2>row, <1>y, SMT DEF TypeOK
<1>x. \A p \in Ids : Exact(p)'
 <2>1. ASSUME NEW p \in Ids, p # o PROVE Exact(p)'
   BY <2>1, <1>u, <1>o, <1>d, <1>e, <1>y, ExactFrame, SMT DEF CreateGeneration, Create, TypeOK, Exact, RowInv
 <2>2. ASSUME NEW p \in Ids, p = o PROVE Exact(p)'
   <3>1. \A m \in Members : disk[p].file[m] = 0
     BY <2>2, <1>s, <1>y, SMT DEF Exact, RowInv
   <3>2. \A m \in Members : /\ row'[p].pending[m] = None /\ row'[p].credited[m] = 0
                           /\ row'[p].logical[m] = 0
     BY <2>2, <1>d, <1>e, SMT DEF EmptyRow
   <3>3. row'[p].kept = {} /\ row'[p].seal = 0 /\ ~ row'[p].open /\ row'[p].state = "preparing" /\ disk' = disk /\ row'[p].kind = "generation"
     BY <2>2, <1>u, <1>d, <1>e, SMT DEF EmptyRow
   <3> QED BY <2>2, <3>1, <3>2, <3>3, <1>u, SMT DEF Exact, RowInv, ObjectIsExact
 <2> QED BY <2>1, <2>2
<1>p. PassInv'
  <2>1. c.pc # "idle" => c.obj \in Ids /\ c.obj # o
    BY <1>s, <1>y, SMT DEF PassInv, Exact, RowInv
  <2> QED BY <2>1, <1>u, <1>o, <1>d, <1>y, SMT DEF CreateGeneration, PassInv, TypeOK
<1>i. ProtectionInv'
  BY <1>u, <1>o, <1>d, <1>e, <1>y, ProtectionFrame, SMT DEF CreateGeneration, Create
<1> QED BY <1>t, <1>x, <1>p, <1>i DEF CollectionInv, Exact

LEMMA CreateCheckpointStep ==
  ASSUME CollectionInv, NEW o \in Ids, NEW g \in Ids, CreateCheckpoint(o, g)
  PROVE  CollectionInv'
<1>u. UNCHANGED <<refs, disk, c, faults>>
  BY DEF CreateCheckpoint, Create
<1>y. TypeOK /\ PassInv /\ ProtectionInv /\ \A p \in Ids : Exact(p)
  BY DEF CollectionInv, Exact
<1> DEFINE r == [EmptyRow EXCEPT !.state = "preparing",
                   !.kind = "checkpoint",
                   !.base = g,
                   !.resv = "live"]
<1>o. o \in Ids
  OBVIOUS
<1>c. EmptyRow \in Row
  BY EmptyRowType
<1>a. r \in Row
 <2>1. "preparing" \in States
   BY <1>y, MembersAssumption, ObjectsAssumption, SMT DEF States, Ids, CreateCheckpoint, Create
 <2>2. "checkpoint" \in {"generation", "checkpoint"}
   BY <1>y, MembersAssumption, ObjectsAssumption, SMT DEF States, Ids, CreateCheckpoint, Create
 <2>3. g \in 0 .. MaxObjects
   BY <1>y, MembersAssumption, ObjectsAssumption, SMT DEF States, Ids, CreateCheckpoint, Create
 <2>4. "live" \in {"none", "live", "ended"}
   BY <1>y, MembersAssumption, ObjectsAssumption, SMT DEF States, Ids, CreateCheckpoint, Create
 <2> QED BY <1>c, <2>1, <2>2, <2>3, <2>4, Zenon DEF Row
<1>b. Update(o, r)
  BY <1>o, SMT DEF CreateCheckpoint, Create, SetState, Producing
<1>d. /\ row' \in [Ids -> Row]
      /\ row'[o] = r
      /\ \A p \in Ids \ {o} : row'[p] = row[p]
  BY <1>o, <1>a, <1>b, <1>y, UpdateFrame DEF TypeOK
<1>e. /\ r.state = "preparing"
      /\ r.kind = "checkpoint"
      /\ r.base = g
      /\ r.seal = EmptyRow.seal
      /\ r.open = EmptyRow.open
      /\ r.resv = "live"
      /\ r.bytes = EmptyRow.bytes
      /\ r.kept = EmptyRow.kept
      /\ r.logical = EmptyRow.logical
      /\ r.pending = EmptyRow.pending
      /\ r.credited = EmptyRow.credited
  BY <1>c, SMT DEF Row
<1>s. row[o].state = "absent"
  BY DEF CreateCheckpoint, Create
<1> HIDE DEF r
<1>t. TypeOK'
 <2>row. row' \in [Ids -> Row]
   BY <1>d
 <2>shared. shared' \in [Ids -> SUBSET Holders]
   BY <1>u, <1>o, <1>d, <1>e, <1>y, MembersAssumption, FaultsAssumption, SMT DEF CreateCheckpoint, Create, TypeOK, Holders, Readers
 <2> QED BY <1>u, <2>row, <2>shared, <1>y, SMT DEF TypeOK
<1>x. \A p \in Ids : Exact(p)'
 <2>1. ASSUME NEW p \in Ids, p # o PROVE Exact(p)'
   BY <2>1, <1>u, <1>o, <1>d, <1>e, <1>y, ExactFrame, SMT DEF CreateCheckpoint, Create, TypeOK, Exact, RowInv
 <2>2. ASSUME NEW p \in Ids, p = o PROVE Exact(p)'
   <3>1. \A m \in Members : disk[p].file[m] = 0
     BY <2>2, <1>s, <1>y, SMT DEF Exact, RowInv
   <3>2. \A m \in Members : /\ row'[p].pending[m] = None /\ row'[p].credited[m] = 0
                           /\ row'[p].logical[m] = 0
     BY <2>2, <1>d, <1>e, SMT DEF EmptyRow
   <3>3. row'[p].kept = {} /\ row'[p].seal = 0 /\ ~ row'[p].open /\ row'[p].state = "preparing" /\ disk' = disk /\ (row'[p].kind = "checkpoint" => row'[p].base \in Ids)
     BY <2>2, <1>u, <1>d, <1>e, SMT DEF EmptyRow
   <3> QED BY <2>2, <3>1, <3>2, <3>3, <1>u, SMT DEF Exact, RowInv, ObjectIsExact
 <2> QED BY <2>1, <2>2
<1>p. PassInv'
  <2>1. c.pc # "idle" => c.obj \in Ids /\ c.obj # o
    BY <1>s, <1>y, SMT DEF PassInv, Exact, RowInv
  <2> QED BY <2>1, <1>u, <1>o, <1>d, <1>y, SMT DEF CreateCheckpoint, PassInv, TypeOK
<1>i. ProtectionInv'
  <2>1. row[g].state = "published" /\ g # o
    BY <1>s, <1>y, ReadersAssumption, SMT DEF CreateCheckpoint, ProtectionInv, TypeOK, Ids
  <2>2. \A p \in Ids : shared'[p] \ {p} # {} => row'[p].state = "published"
    BY <2>1, <1>s, <1>o, <1>d, <1>e, <1>y, SMT DEF ProtectionInv, CreateCheckpoint, TypeOK
  <2>3. \A r1 \in refs' : row'[r1.target].state = "published"
    BY <1>s, <1>u, <1>o, <1>d, <1>e, <1>y, SMT DEF ProtectionInv, TypeOK, Ref
  <2>4. \A p \in Ids : row'[p].kind = "checkpoint" /\ row'[p].state = "published"
         => [by |-> "checkpoint", source |-> p, target |-> row'[p].base] \in refs'
    BY <1>u, <1>o, <1>d, <1>e, <1>y, SMT DEF ProtectionInv
  <2> QED BY <2>2, <2>3, <2>4 DEF ProtectionInv
<1> QED BY <1>t, <1>x, <1>p, <1>i DEF CollectionInv, Exact

LEMMA BeginMemberStep ==
  ASSUME CollectionInv, NEW o \in Ids, BeginMember(o)
  PROVE  CollectionInv'
<1>u. UNCHANGED <<refs, disk, shared, c, faults>>
  BY DEF BeginMember, Producing
<1>y. TypeOK /\ PassInv /\ ProtectionInv /\ \A p \in Ids : Exact(p)
  BY DEF CollectionInv, Exact
<1> DEFINE r == [row[o] EXCEPT !.open = TRUE]
<1>o. o \in Ids
  OBVIOUS
<1>c. row[o] \in Row
  BY <1>o, <1>y, SMT DEF TypeOK
<1>a. r \in Row
 <2>1. TRUE \in BOOLEAN
   BY <1>y, MembersAssumption, ObjectsAssumption, SMT DEF States, Ids, BeginMember, Producing
 <2> QED BY <1>c, <2>1, Zenon DEF Row
<1>b. Update(o, r)
  BY <1>o, SMT DEF BeginMember, Producing, SetState, Producing
<1>d. /\ row' \in [Ids -> Row]
      /\ row'[o] = r
      /\ \A p \in Ids \ {o} : row'[p] = row[p]
  BY <1>o, <1>a, <1>b, <1>y, UpdateFrame DEF TypeOK
<1>e. /\ r.state = row[o].state
      /\ r.kind = row[o].kind
      /\ r.base = row[o].base
      /\ r.seal = row[o].seal
      /\ r.open = TRUE
      /\ r.resv = row[o].resv
      /\ r.bytes = row[o].bytes
      /\ r.kept = row[o].kept
      /\ r.logical = row[o].logical
      /\ r.pending = row[o].pending
      /\ r.credited = row[o].credited
  BY <1>c, SMT DEF Row
<1> HIDE DEF r
<1>t. TypeOK'
 <2>row. row' \in [Ids -> Row]
   BY <1>d
 <2> QED BY <1>u, <2>row, <1>y, SMT DEF TypeOK
<1>x. \A p \in Ids : Exact(p)'
 <2>1. ASSUME NEW p \in Ids, p # o PROVE Exact(p)'
   BY <2>1, <1>u, <1>o, <1>d, <1>e, <1>y, ExactFrame, SMT DEF BeginMember, Producing, TypeOK, Exact, RowInv
 <2>2. ASSUME NEW p \in Ids, p = o PROVE Exact(p)'
   BY <2>2, <1>u, <1>o, <1>d, <1>e, <1>y, MembersAssumption, SMT DEF BeginMember, Producing, TypeOK, Row, Disk, Exact, RowInv, ObjectIsExact, None
 <2> QED BY <2>1, <2>2
<1>p. PassInv'
  BY <1>u, <1>o, <1>d, <1>e, <1>y, SMT DEF BeginMember, Producing, TypeOK, PassInv, Idle
<1>i. ProtectionInv'
  BY <1>u, <1>o, <1>d, <1>e, <1>y, ProtectionFrame, SMT DEF BeginMember, Producing
<1> QED BY <1>t, <1>x, <1>p, <1>i DEF CollectionInv, Exact

LEMMA FailStep ==
  ASSUME CollectionInv, NEW o \in Ids, Fail(o)
  PROVE  CollectionInv'
<1>u. UNCHANGED <<refs, disk, shared, c, faults>>
  BY DEF Fail, Producing
<1>y. TypeOK /\ PassInv /\ ProtectionInv /\ \A p \in Ids : Exact(p)
  BY DEF CollectionInv, Exact
<1>q. PICK s \in {"retired", "quarantined"} : SetState(o, s) /\ (s = "retired" => row[o].seal = 2)
  BY SMT DEF Fail
<1> DEFINE r == [row[o] EXCEPT !.state = s]
<1>o. o \in Ids
  OBVIOUS
<1>c. row[o] \in Row
  BY <1>o, <1>y, SMT DEF TypeOK
<1>a. r \in Row
 <2>1. s \in States
   BY <1>q, SMT DEF States
 <2> QED BY <1>c, <2>1, Zenon DEF Row
<1>b. Update(o, r)
  BY <1>o, <1>q, SMT DEF Fail, Producing, SetState, Producing
<1>d. /\ row' \in [Ids -> Row]
      /\ row'[o] = r
      /\ \A p \in Ids \ {o} : row'[p] = row[p]
  BY <1>o, <1>a, <1>b, <1>y, UpdateFrame DEF TypeOK
<1>e. /\ r.state = s
      /\ r.kind = row[o].kind
      /\ r.base = row[o].base
      /\ r.seal = row[o].seal
      /\ r.open = row[o].open
      /\ r.resv = row[o].resv
      /\ r.bytes = row[o].bytes
      /\ r.kept = row[o].kept
      /\ r.logical = row[o].logical
      /\ r.pending = row[o].pending
      /\ r.credited = row[o].credited
  BY <1>c, SMT DEF Row
<1> HIDE DEF r
<1>t. TypeOK'
 <2>row. row' \in [Ids -> Row]
   BY <1>d
 <2> QED BY <1>u, <2>row, <1>y, SMT DEF TypeOK
<1>x. \A p \in Ids : Exact(p)'
 <2>1. ASSUME NEW p \in Ids, p # o PROVE Exact(p)'
   BY <2>1, <1>u, <1>q, <1>o, <1>d, <1>e, <1>y, ExactFrame, SMT DEF Fail, Producing, TypeOK, Exact, RowInv
 <2>2. ASSUME NEW p \in Ids, p = o PROVE Exact(p)'
   BY <2>2, <1>u, <1>q, <1>o, <1>d, <1>e, <1>y, MembersAssumption, SMT DEF Fail, Producing, TypeOK, Row, Disk, Exact, RowInv, ObjectIsExact, None
 <2> QED BY <2>1, <2>2
<1>p. PassInv'
  BY <1>u, <1>q, <1>o, <1>d, <1>e, <1>y, SMT DEF Fail, Producing, TypeOK, PassInv, Idle
<1>i. ProtectionInv'
  BY <1>u, <1>q, <1>o, <1>d, <1>e, <1>y, ProtectionFrame, SMT DEF Fail, Producing
<1> QED BY <1>t, <1>x, <1>p, <1>i DEF CollectionInv, Exact

LEMMA PublishStep ==
  ASSUME CollectionInv, NEW o \in Ids, Publish(o)
  PROVE  CollectionInv'
<1>u. UNCHANGED <<disk, shared, c, faults>>
  BY DEF Publish, Producing
<1>y. TypeOK /\ PassInv /\ ProtectionInv /\ \A p \in Ids : Exact(p)
  BY DEF CollectionInv, Exact
<1>q. \/ row[o].kind = "generation" /\ refs' = refs
      \/ /\ row[o].kind = "checkpoint" /\ row[o].base \in Ids /\ row[row[o].base].state = "published"
         /\ refs' = refs \cup {[by |-> "checkpoint", source |-> o, target |-> row[o].base]}
         /\ [by |-> "checkpoint", source |-> o, target |-> row[o].base] \in Ref
  <2>1. row[o].kind \in {"generation", "checkpoint"} /\ (row[o].kind = "checkpoint" => row[o].base \in Ids)
    BY <1>y, SMT DEF Publish, Producing, TypeOK, Row, Exact, RowInv
  <2>2. ASSUME NEW b \in Ids PROVE [by |-> "checkpoint", source |-> o, target |-> b] \in Ref
    BY ObjectsAssumption, SMT DEF Ref, Ids
  <2> QED BY <2>1, <2>2, Zenon DEF Publish
<1> DEFINE r == [row[o] EXCEPT !.state = "published"]
<1>o. o \in Ids
  OBVIOUS
<1>c. row[o] \in Row
  BY <1>o, <1>y, SMT DEF TypeOK
<1>a. r \in Row
 <2>1. "published" \in States
   BY <1>y, MembersAssumption, ObjectsAssumption, SMT DEF States, Ids, Publish, Producing
 <2> QED BY <1>c, <2>1, Zenon DEF Row
<1>b. Update(o, r)
  BY <1>o, SMT DEF Publish, Producing, SetState, Producing
<1>d. /\ row' \in [Ids -> Row]
      /\ row'[o] = r
      /\ \A p \in Ids \ {o} : row'[p] = row[p]
  BY <1>o, <1>a, <1>b, <1>y, UpdateFrame DEF TypeOK
<1>e. /\ r.state = "published"
      /\ r.kind = row[o].kind
      /\ r.base = row[o].base
      /\ r.seal = row[o].seal
      /\ r.open = row[o].open
      /\ r.resv = row[o].resv
      /\ r.bytes = row[o].bytes
      /\ r.kept = row[o].kept
      /\ r.logical = row[o].logical
      /\ r.pending = row[o].pending
      /\ r.credited = row[o].credited
  BY <1>c, SMT DEF Row
<1> HIDE DEF r
<1>t. TypeOK'
 <2>row. row' \in [Ids -> Row]
   BY <1>d
 <2>refs. refs' \subseteq Ref
   BY <1>q, <1>y, SMT DEF TypeOK
 <2> QED BY <1>u, <2>row, <2>refs, <1>y, SMT DEF TypeOK
<1>x. \A p \in Ids : Exact(p)'
 <2>1. ASSUME NEW p \in Ids, p # o PROVE Exact(p)'
   BY <2>1, <1>u, <1>q, <1>o, <1>d, <1>e, <1>y, ExactFrame, SMT DEF Publish, Producing, TypeOK, Exact, RowInv
 <2>2. ASSUME NEW p \in Ids, p = o PROVE Exact(p)'
   <3>1. row[o].seal = 2
     BY <1>y, MembersAssumption, SMT DEF Publish, Producing, Exact, RowInv
   <3> QED BY <2>2, <3>1, <1>u, <1>d, <1>e, <1>y, SMT DEF Publish, Producing, Exact, RowInv, ObjectIsExact
 <2> QED BY <2>1, <2>2
<1>p. PassInv'
  BY <1>u, <1>q, <1>o, <1>d, <1>e, <1>y, SMT DEF Publish, Producing, TypeOK, PassInv, Idle
<1>i. ProtectionInv'
  <2>1. \A p \in Ids : shared'[p] \ {p} # {} => row'[p].state = "published"
    BY <1>u, <1>o, <1>d, <1>e, <1>y, SMT DEF ProtectionInv
  <2>2. \A r1 \in refs' : row'[r1.target].state = "published"
    BY <1>q, <1>o, <1>d, <1>e, <1>y, SMT DEF ProtectionInv, TypeOK, Ref
  <2>3. \A p \in Ids : row'[p].kind = "checkpoint" /\ row'[p].state = "published"
         => [by |-> "checkpoint", source |-> p, target |-> row'[p].base] \in refs'
    BY <1>q, <1>o, <1>d, <1>e, <1>y, SMT DEF ProtectionInv
  <2> QED BY <2>1, <2>2, <2>3 DEF ProtectionInv
<1> QED BY <1>t, <1>x, <1>p, <1>i DEF CollectionInv, Exact

LEMMA MarkPendingStep ==
  ASSUME CollectionInv, MarkPending
  PROVE  CollectionInv'
<1>u. UNCHANGED <<refs, disk, shared, faults>>
  BY DEF MarkPending
<1>y. TypeOK /\ PassInv /\ ProtectionInv /\ \A p \in Ids : Exact(p)
  BY DEF CollectionInv, Exact
<1>q. row[c.obj].state = "retired"
  BY <1>y, SMT DEF MarkPending, PassInv
<1> DEFINE r == [row[c.obj] EXCEPT !.state = "pending"]
<1>o. c.obj \in Ids
  BY <1>y, SMT DEF MarkPending, PassInv
<1>c. row[c.obj] \in Row
  BY <1>o, <1>y, SMT DEF TypeOK
<1>a. r \in Row
 <2>1. "pending" \in States
   BY <1>y, MembersAssumption, ObjectsAssumption, SMT DEF States, Ids, MarkPending
 <2> QED BY <1>c, <2>1, Zenon DEF Row
<1>b. Update(c.obj, r)
  BY <1>o, SMT DEF MarkPending, SetState, Producing
<1>d. /\ row' \in [Ids -> Row]
      /\ row'[c.obj] = r
      /\ \A p \in Ids \ {c.obj} : row'[p] = row[p]
  BY <1>o, <1>a, <1>b, <1>y, UpdateFrame DEF TypeOK
<1>e. /\ r.state = "pending"
      /\ r.kind = row[c.obj].kind
      /\ r.base = row[c.obj].base
      /\ r.seal = row[c.obj].seal
      /\ r.open = row[c.obj].open
      /\ r.resv = row[c.obj].resv
      /\ r.bytes = row[c.obj].bytes
      /\ r.kept = row[c.obj].kept
      /\ r.logical = row[c.obj].logical
      /\ r.pending = row[c.obj].pending
      /\ r.credited = row[c.obj].credited
  BY <1>c, SMT DEF Row
<1> HIDE DEF r
<1>t. TypeOK'
 <2>row. row' \in [Ids -> Row]
   BY <1>d
 <2>c. c' \in [pc : Pc, obj : 0 .. MaxObjects, excl : BOOLEAN, member : Members]
  <3>1. c \in Passes
    BY <1>y DEF TypeOK, Passes
  <3>2. {"members"} \subseteq Pc
    BY DEF Pc
  <3>3. c' = Idle \/ \E q \in {"members"} : c' = [c EXCEPT !.pc = q]
    BY SMT DEF MarkPending
  <3> QED BY <3>1, <3>2, <3>3, IdleType, PassType, Zenon DEF Passes
 <2> QED BY <1>u, <2>row, <2>c, <1>y, SMT DEF TypeOK
<1>x. \A p \in Ids : Exact(p)'
 <2>1. ASSUME NEW p \in Ids, p # c.obj PROVE Exact(p)'
   BY <2>1, <1>u, <1>q, <1>o, <1>d, <1>e, <1>y, ExactFrame, SMT DEF MarkPending, TypeOK, Exact, RowInv
 <2>2. ASSUME NEW p \in Ids, p = c.obj PROVE Exact(p)'
   BY <2>2, <1>q, <1>u, <1>d, <1>e, <1>y, SMT DEF Exact, RowInv, ObjectIsExact
 <2> QED BY <2>1, <2>2
<1>p. PassInv'
  BY <1>u, <1>q, <1>o, <1>d, <1>e, <1>y, SMT DEF MarkPending, TypeOK, PassInv, Idle
<1>i. ProtectionInv'
  BY <1>u, <1>q, <1>o, <1>d, <1>e, <1>y, ProtectionFrame, SMT DEF MarkPending, PassInv
<1> QED BY <1>t, <1>x, <1>p, <1>i DEF CollectionInv, Exact

LEMMA RecoverUnsealedStep ==
  ASSUME CollectionInv, NEW o \in Ids, RecoverUnsealed(o)
  PROVE  CollectionInv'
<1>u. UNCHANGED <<refs, disk, shared, c, faults>>
  BY DEF RecoverUnsealed
<1>y. TypeOK /\ PassInv /\ ProtectionInv /\ \A p \in Ids : Exact(p)
  BY DEF CollectionInv, Exact
<1> DEFINE r == [row[o] EXCEPT !.state = "quarantined",
                   !.resv = "none"]
<1>o. o \in Ids
  OBVIOUS
<1>c. row[o] \in Row
  BY <1>o, <1>y, SMT DEF TypeOK
<1>a. r \in Row
 <2>1. "quarantined" \in States
   BY <1>y, MembersAssumption, ObjectsAssumption, SMT DEF States, Ids, RecoverUnsealed
 <2>2. "none" \in {"none", "live", "ended"}
   BY <1>y, MembersAssumption, ObjectsAssumption, SMT DEF States, Ids, RecoverUnsealed
 <2> QED BY <1>c, <2>1, <2>2, Zenon DEF Row
<1>b. Update(o, r)
  BY <1>o, SMT DEF RecoverUnsealed, SetState, Producing
<1>d. /\ row' \in [Ids -> Row]
      /\ row'[o] = r
      /\ \A p \in Ids \ {o} : row'[p] = row[p]
  BY <1>o, <1>a, <1>b, <1>y, UpdateFrame DEF TypeOK
<1>e. /\ r.state = "quarantined"
      /\ r.kind = row[o].kind
      /\ r.base = row[o].base
      /\ r.seal = row[o].seal
      /\ r.open = row[o].open
      /\ r.resv = "none"
      /\ r.bytes = row[o].bytes
      /\ r.kept = row[o].kept
      /\ r.logical = row[o].logical
      /\ r.pending = row[o].pending
      /\ r.credited = row[o].credited
  BY <1>c, SMT DEF Row
<1> HIDE DEF r
<1>t. TypeOK'
 <2>row. row' \in [Ids -> Row]
   BY <1>d
 <2> QED BY <1>u, <2>row, <1>y, SMT DEF TypeOK
<1>x. \A p \in Ids : Exact(p)'
 <2>1. ASSUME NEW p \in Ids, p # o PROVE Exact(p)'
   BY <2>1, <1>u, <1>o, <1>d, <1>e, <1>y, ExactFrame, SMT DEF RecoverUnsealed, TypeOK, Exact, RowInv
 <2>2. ASSUME NEW p \in Ids, p = o PROVE Exact(p)'
   BY <2>2, <1>u, <1>o, <1>d, <1>e, <1>y, MembersAssumption, SMT DEF RecoverUnsealed, TypeOK, Row, Disk, Exact, RowInv, ObjectIsExact, None
 <2> QED BY <2>1, <2>2
<1>p. PassInv'
  BY <1>u, <1>o, <1>d, <1>e, <1>y, SMT DEF RecoverUnsealed, TypeOK, PassInv, Idle
<1>i. ProtectionInv'
  BY <1>u, <1>o, <1>d, <1>e, <1>y, ProtectionFrame, SMT DEF RecoverUnsealed, Exact, RowInv
<1> QED BY <1>t, <1>x, <1>p, <1>i DEF CollectionInv, Exact

LEMMA ReleaseReservationStep ==
  ASSUME CollectionInv, NEW o \in Ids, ReleaseReservation(o)
  PROVE  CollectionInv'
<1>u. UNCHANGED <<refs, disk, shared, c, faults>>
  BY DEF ReleaseReservation
<1>y. TypeOK /\ PassInv /\ ProtectionInv /\ \A p \in Ids : Exact(p)
  BY DEF CollectionInv, Exact
<1> DEFINE r == [row[o] EXCEPT !.resv = "none"]
<1>o. o \in Ids
  OBVIOUS
<1>c. row[o] \in Row
  BY <1>o, <1>y, SMT DEF TypeOK
<1>a. r \in Row
 <2>1. "none" \in {"none", "live", "ended"}
   BY <1>y, MembersAssumption, ObjectsAssumption, SMT DEF States, Ids, ReleaseReservation
 <2> QED BY <1>c, <2>1, Zenon DEF Row
<1>b. Update(o, r)
  BY <1>o, SMT DEF ReleaseReservation, SetState, Producing
<1>d. /\ row' \in [Ids -> Row]
      /\ row'[o] = r
      /\ \A p \in Ids \ {o} : row'[p] = row[p]
  BY <1>o, <1>a, <1>b, <1>y, UpdateFrame DEF TypeOK
<1>e. /\ r.state = row[o].state
      /\ r.kind = row[o].kind
      /\ r.base = row[o].base
      /\ r.seal = row[o].seal
      /\ r.open = row[o].open
      /\ r.resv = "none"
      /\ r.bytes = row[o].bytes
      /\ r.kept = row[o].kept
      /\ r.logical = row[o].logical
      /\ r.pending = row[o].pending
      /\ r.credited = row[o].credited
  BY <1>c, SMT DEF Row
<1> HIDE DEF r
<1>t. TypeOK'
 <2>row. row' \in [Ids -> Row]
   BY <1>d
 <2> QED BY <1>u, <2>row, <1>y, SMT DEF TypeOK
<1>x. \A p \in Ids : Exact(p)'
 <2>1. ASSUME NEW p \in Ids, p # o PROVE Exact(p)'
   BY <2>1, <1>u, <1>o, <1>d, <1>e, <1>y, ExactFrame, SMT DEF ReleaseReservation, TypeOK, Exact, RowInv
 <2>2. ASSUME NEW p \in Ids, p = o PROVE Exact(p)'
   BY <2>2, <1>u, <1>o, <1>d, <1>e, <1>y, MembersAssumption, SMT DEF ReleaseReservation, TypeOK, Row, Disk, Exact, RowInv, ObjectIsExact, None
 <2> QED BY <2>1, <2>2
<1>p. PassInv'
  BY <1>u, <1>o, <1>d, <1>e, <1>y, SMT DEF ReleaseReservation, TypeOK, PassInv, Idle
<1>i. ProtectionInv'
  BY <1>u, <1>o, <1>d, <1>e, <1>y, ProtectionFrame, SMT DEF ReleaseReservation
<1> QED BY <1>t, <1>x, <1>p, <1>i DEF CollectionInv, Exact

LEMMA SealContainerStep ==
  ASSUME CollectionInv, NEW o \in Ids, SealContainer(o)
  PROVE  CollectionInv'
<1>u. UNCHANGED <<refs, shared, c, faults>>
  BY DEF SealContainer, Producing
<1>y. TypeOK /\ PassInv /\ ProtectionInv /\ \A p \in Ids : Exact(p)
  BY DEF CollectionInv, Exact
<1> DEFINE r == [row[o] EXCEPT !.seal = 1]
<1>o. o \in Ids
  OBVIOUS
<1>c. row[o] \in Row
  BY <1>o, <1>y, SMT DEF TypeOK
<1>a. r \in Row
 <2>1. 1 \in 0 .. 2
   BY <1>y, MembersAssumption, ObjectsAssumption, SMT DEF States, Ids, SealContainer, Producing
 <2> QED BY <1>c, <2>1, Zenon DEF Row
<1>b. Update(o, r)
  BY <1>o, SMT DEF SealContainer, Producing, SetState, Producing
<1>d. /\ row' \in [Ids -> Row]
      /\ row'[o] = r
      /\ \A p \in Ids \ {o} : row'[p] = row[p]
  BY <1>o, <1>a, <1>b, <1>y, UpdateFrame DEF TypeOK
<1>e. /\ r.state = row[o].state
      /\ r.kind = row[o].kind
      /\ r.base = row[o].base
      /\ r.seal = 1
      /\ r.open = row[o].open
      /\ r.resv = row[o].resv
      /\ r.bytes = row[o].bytes
      /\ r.kept = row[o].kept
      /\ r.logical = row[o].logical
      /\ r.pending = row[o].pending
      /\ r.credited = row[o].credited
  BY <1>c, SMT DEF Row
<1> HIDE DEF r
<1> DEFINE d == [disk[o] EXCEPT !.container = TRUE]
<1>f. d \in Disk
 <2>1. disk[o] \in Disk
   BY <1>o, <1>y, SMT DEF TypeOK
  <2> QED BY <2>1, StoreType, Zenon
<1>g. Store(o, d)
  BY <1>o, SMT DEF SealContainer, Producing
<1>h. /\ disk' \in [Ids -> Disk]
      /\ disk'[o] = d
      /\ \A p \in Ids \ {o} : disk'[p] = disk[p]
  BY <1>o, <1>f, <1>g, <1>y, StoreFrame DEF TypeOK
<1>j. /\ disk'[o].file = disk[o].file /\ disk'[o].guard = disk[o].guard /\ disk'[o].container
  BY <1>o, <1>h, <1>y, SMT DEF TypeOK, Disk
<1> HIDE DEF d
<1>t. TypeOK'
 <2>row. row' \in [Ids -> Row]
   BY <1>d
 <2>disk. disk' \in [Ids -> Disk]
   BY <1>h
 <2> QED BY <1>u, <2>row, <2>disk, <1>y, SMT DEF TypeOK
<1>x. \A p \in Ids : Exact(p)'
 <2>1. ASSUME NEW p \in Ids, p # o PROVE Exact(p)'
   BY <2>1, <1>u, <1>o, <1>d, <1>e, <1>h, <1>j, <1>y, ExactFrame, SMT DEF SealContainer, Producing, TypeOK, Exact, RowInv
 <2>2. ASSUME NEW p \in Ids, p = o PROVE Exact(p)'
   <3>1. /\ row[p].state = "preparing" /\ (row[p].seal # 2 => row[p].kept = {} /\ ~ row[p].open)
         /\ row[p].seal # 2
     BY <2>2, <1>y, SMT DEF SealContainer, Producing, Exact, RowInv
   <3> QED BY <2>2, <3>1, <1>u, <1>d, <1>e, <1>j, <1>y, SMT DEF SealContainer, Exact, RowInv, ObjectIsExact
 <2> QED BY <2>1, <2>2
<1>p. PassInv'
  BY <1>u, <1>o, <1>d, <1>e, <1>h, <1>j, <1>y, SMT DEF SealContainer, Producing, TypeOK, PassInv, Idle
<1>i. ProtectionInv'
  BY <1>u, <1>o, <1>d, <1>e, <1>h, <1>j, <1>y, ProtectionFrame, SMT DEF SealContainer, Producing
<1> QED BY <1>t, <1>x, <1>p, <1>i DEF CollectionInv, Exact

LEMMA SealGuardStep ==
  ASSUME CollectionInv, NEW o \in Ids, SealGuard(o)
  PROVE  CollectionInv'
<1>u. UNCHANGED <<refs, c, faults>>
  BY DEF SealGuard, Producing
<1>y. TypeOK /\ PassInv /\ ProtectionInv /\ \A p \in Ids : Exact(p)
  BY DEF CollectionInv, Exact
<1> DEFINE r == [row[o] EXCEPT !.seal = 2]
<1>o. o \in Ids
  OBVIOUS
<1>c. row[o] \in Row
  BY <1>o, <1>y, SMT DEF TypeOK
<1>a. r \in Row
 <2>1. 2 \in 0 .. 2
   BY <1>y, MembersAssumption, ObjectsAssumption, SMT DEF States, Ids, SealGuard, Producing
 <2> QED BY <1>c, <2>1, Zenon DEF Row
<1>b. Update(o, r)
  BY <1>o, SMT DEF SealGuard, Producing, SetState, Producing
<1>d. /\ row' \in [Ids -> Row]
      /\ row'[o] = r
      /\ \A p \in Ids \ {o} : row'[p] = row[p]
  BY <1>o, <1>a, <1>b, <1>y, UpdateFrame DEF TypeOK
<1>e. /\ r.state = row[o].state
      /\ r.kind = row[o].kind
      /\ r.base = row[o].base
      /\ r.seal = 2
      /\ r.open = row[o].open
      /\ r.resv = row[o].resv
      /\ r.bytes = row[o].bytes
      /\ r.kept = row[o].kept
      /\ r.logical = row[o].logical
      /\ r.pending = row[o].pending
      /\ r.credited = row[o].credited
  BY <1>c, SMT DEF Row
<1> HIDE DEF r
<1> DEFINE d == [disk[o] EXCEPT !.guard = TRUE]
<1>f. d \in Disk
 <2>1. disk[o] \in Disk
   BY <1>o, <1>y, SMT DEF TypeOK
  <2> QED BY <2>1, StoreType, Zenon
<1>g. Store(o, d)
  BY <1>o, SMT DEF SealGuard, Producing
<1>h. /\ disk' \in [Ids -> Disk]
      /\ disk'[o] = d
      /\ \A p \in Ids \ {o} : disk'[p] = disk[p]
  BY <1>o, <1>f, <1>g, <1>y, StoreFrame DEF TypeOK
<1>j. /\ disk'[o].file = disk[o].file /\ disk'[o].container = disk[o].container /\ disk'[o].guard
  BY <1>o, <1>h, <1>y, SMT DEF TypeOK, Disk
<1> HIDE DEF d
<1>t. TypeOK'
 <2>row. row' \in [Ids -> Row]
   BY <1>d
 <2>disk. disk' \in [Ids -> Disk]
   BY <1>h
 <2>shared. shared' \in [Ids -> SUBSET Holders]
   BY <1>u, <1>o, <1>d, <1>e, <1>h, <1>j, <1>y, MembersAssumption, FaultsAssumption, SMT DEF SealGuard, Producing, TypeOK, Holders, Readers
 <2> QED BY <1>u, <2>row, <2>disk, <2>shared, <1>y, SMT DEF TypeOK
<1>x. \A p \in Ids : Exact(p)'
 <2>1. ASSUME NEW p \in Ids, p # o PROVE Exact(p)'
   BY <2>1, <1>u, <1>o, <1>d, <1>e, <1>h, <1>j, <1>y, ExactFrame, SMT DEF SealGuard, Producing, TypeOK, Exact, RowInv
 <2>2. ASSUME NEW p \in Ids, p = o PROVE Exact(p)'
   <3>1. /\ row[p].state = "preparing" /\ (row[p].seal # 2 => row[p].kept = {} /\ ~ row[p].open)
         /\ row[p].seal # 2
     BY <2>2, <1>y, SMT DEF SealGuard, Producing, Exact, RowInv
   <3> QED BY <2>2, <3>1, <1>u, <1>d, <1>e, <1>j, <1>y, SMT DEF SealGuard, Exact, RowInv, ObjectIsExact
 <2> QED BY <2>1, <2>2
<1>p. PassInv'
  BY <1>u, <1>o, <1>d, <1>e, <1>h, <1>j, <1>y, SMT DEF SealGuard, Producing, TypeOK, PassInv, Idle
<1>i. ProtectionInv'
  BY <1>u, <1>o, <1>d, <1>e, <1>h, <1>j, <1>y, ProtectionFrame, SMT DEF SealGuard, Producing
<1> QED BY <1>t, <1>x, <1>p, <1>i DEF CollectionInv, Exact

LEMMA SealMemberStep ==
  ASSUME CollectionInv, NEW o \in Ids, NEW m \in Members, SealMember(o, m)
  PROVE  CollectionInv'
<1>u. UNCHANGED <<refs, shared, c, faults>>
  BY DEF SealMember, Producing
<1>y. TypeOK /\ PassInv /\ ProtectionInv /\ \A p \in Ids : Exact(p)
  BY DEF CollectionInv, Exact
<1> DEFINE r == [row[o] EXCEPT !.open = FALSE,
                   !.kept = row[o].kept \cup {m},
                   !.bytes = row[o].bytes + Size[m],
                   !.logical = [row[o].logical EXCEPT ![m] = Size[m]]]
<1>o. o \in Ids
  OBVIOUS
<1>c. row[o] \in Row
  BY <1>o, <1>y, SMT DEF TypeOK
<1>a. r \in Row
 <2>1. FALSE \in BOOLEAN
   BY <1>y, MembersAssumption, ObjectsAssumption, SMT DEF States, Ids, SealMember, Producing
 <2>2. row[o].kept \cup {m} \in SUBSET Members
   BY <1>c, SMT DEF Row
 <2>3. row[o].bytes + Size[m] \in Int
   BY <1>c, MembersAssumption, SMT DEF Row
 <2>4. [row[o].logical EXCEPT ![m] = Size[m]] \in [Members -> Nat]
   BY <1>c, MembersAssumption, SMT DEF Row
 <2> QED BY <1>c, <2>1, <2>2, <2>3, <2>4, Zenon DEF Row
<1>b. Update(o, r)
  BY <1>o, SMT DEF SealMember, Producing, SetState, Producing
<1>d. /\ row' \in [Ids -> Row]
      /\ row'[o] = r
      /\ \A p \in Ids \ {o} : row'[p] = row[p]
  BY <1>o, <1>a, <1>b, <1>y, UpdateFrame DEF TypeOK
<1>e. /\ r.state = row[o].state
      /\ r.kind = row[o].kind
      /\ r.base = row[o].base
      /\ r.seal = row[o].seal
      /\ r.open = FALSE
      /\ r.resv = row[o].resv
      /\ r.bytes = row[o].bytes + Size[m]
      /\ r.kept = row[o].kept \cup {m}
      /\ r.logical = [row[o].logical EXCEPT ![m] = Size[m]]
      /\ r.pending = row[o].pending
      /\ r.credited = row[o].credited
  BY <1>c, SMT DEF Row
<1> HIDE DEF r
<1> DEFINE d == [disk[o] EXCEPT !.file = [@ EXCEPT ![m] = Size[m]]]
<1>f. d \in Disk
 <2>1. disk[o] \in Disk
   BY <1>o, <1>y, SMT DEF TypeOK
 <2>2. Size[m] \in Nat
   BY MembersAssumption, SMT
  <2> QED BY <2>1, <2>2, StoreType, Zenon
<1>g. Store(o, d)
  BY <1>o, SMT DEF SealMember, Producing
<1>h. /\ disk' \in [Ids -> Disk]
      /\ disk'[o] = d
      /\ \A p \in Ids \ {o} : disk'[p] = disk[p]
  BY <1>o, <1>f, <1>g, <1>y, StoreFrame DEF TypeOK
<1>j. /\ disk'[o].container = disk[o].container /\ disk'[o].guard = disk[o].guard
      /\ disk'[o].file = [disk[o].file EXCEPT ![m] = Size[m]]
  BY <1>o, <1>h, <1>y, SMT DEF TypeOK, Disk
<1> HIDE DEF d
<1>t. TypeOK'
 <2>row. row' \in [Ids -> Row]
   BY <1>d
 <2>disk. disk' \in [Ids -> Disk]
   BY <1>h
 <2> QED BY <1>u, <2>row, <2>disk, <1>y, SMT DEF TypeOK
<1>x. \A p \in Ids : Exact(p)'
 <2>1. ASSUME NEW p \in Ids, p # o PROVE Exact(p)'
   BY <2>1, <1>u, <1>o, <1>d, <1>e, <1>h, <1>j, <1>y, ExactFrame, SMT DEF SealMember, Producing, TypeOK, Exact, RowInv
 <2>2. ASSUME NEW p \in Ids, p = o PROVE Exact(p)'
   BY <2>2, <1>u, <1>o, <1>d, <1>e, <1>h, <1>j, <1>y, MembersAssumption, SMT DEF SealMember, Producing, TypeOK, Row, Disk, Exact, RowInv, ObjectIsExact, None
 <2> QED BY <2>1, <2>2
<1>p. PassInv'
  BY <1>u, <1>o, <1>d, <1>e, <1>h, <1>j, <1>y, SMT DEF SealMember, Producing, TypeOK, PassInv, Idle
<1>i. ProtectionInv'
  BY <1>u, <1>o, <1>d, <1>e, <1>h, <1>j, <1>y, ProtectionFrame, SMT DEF SealMember, Producing
<1> QED BY <1>t, <1>x, <1>p, <1>i DEF CollectionInv, Exact

LEMMA EndWorkStep ==
  ASSUME CollectionInv, NEW o \in Ids, EndWork(o)
  PROVE  CollectionInv'
<1>u. UNCHANGED <<refs, disk, c, faults>>
  BY DEF EndWork, EndProducer
<1>y. TypeOK /\ PassInv /\ ProtectionInv /\ \A p \in Ids : Exact(p)
  BY DEF CollectionInv, Exact
<1>q. PICK s \in {"ended", "none"} : Update(o, [row[o] EXCEPT !.resv = s])
  BY SMT DEF EndWork, EndProducer
<1> DEFINE r == [row[o] EXCEPT !.resv = s]
<1>o. o \in Ids
  OBVIOUS
<1>c. row[o] \in Row
  BY <1>o, <1>y, SMT DEF TypeOK
<1>a. r \in Row
 <2>1. s \in {"none", "live", "ended"}
   BY <1>q, SMT
 <2> QED BY <1>c, <2>1, Zenon DEF Row
<1>b. Update(o, r)
  BY <1>o, <1>q, SMT DEF EndWork, EndProducer, SetState, Producing
<1>d. /\ row' \in [Ids -> Row]
      /\ row'[o] = r
      /\ \A p \in Ids \ {o} : row'[p] = row[p]
  BY <1>o, <1>a, <1>b, <1>y, UpdateFrame DEF TypeOK
<1>e. /\ r.state = row[o].state
      /\ r.kind = row[o].kind
      /\ r.base = row[o].base
      /\ r.seal = row[o].seal
      /\ r.open = row[o].open
      /\ r.resv = s
      /\ r.bytes = row[o].bytes
      /\ r.kept = row[o].kept
      /\ r.logical = row[o].logical
      /\ r.pending = row[o].pending
      /\ r.credited = row[o].credited
  BY <1>c, SMT DEF Row
<1> HIDE DEF r
<1>t. TypeOK'
 <2>row. row' \in [Ids -> Row]
   BY <1>d
 <2>shared. shared' \in [Ids -> SUBSET Holders]
   BY <1>u, <1>q, <1>o, <1>d, <1>e, <1>y, MembersAssumption, FaultsAssumption, SMT DEF EndWork, EndProducer, TypeOK, Holders, Readers
 <2> QED BY <1>u, <2>row, <2>shared, <1>y, SMT DEF TypeOK
<1>x. \A p \in Ids : Exact(p)'
 <2>1. ASSUME NEW p \in Ids, p # o PROVE Exact(p)'
   BY <2>1, <1>u, <1>q, <1>o, <1>d, <1>e, <1>y, ExactFrame, SMT DEF EndWork, EndProducer, TypeOK, Exact, RowInv
 <2>2. ASSUME NEW p \in Ids, p = o PROVE Exact(p)'
   BY <2>2, <1>u, <1>q, <1>o, <1>d, <1>e, <1>y, MembersAssumption, SMT DEF EndWork, EndProducer, TypeOK, Row, Disk, Exact, RowInv, ObjectIsExact, None
 <2> QED BY <2>1, <2>2
<1>p. PassInv'
  BY <1>u, <1>q, <1>o, <1>d, <1>e, <1>y, SMT DEF EndWork, EndProducer, TypeOK, PassInv, Idle
<1>i. ProtectionInv'
  BY <1>u, <1>q, <1>o, <1>d, <1>e, <1>y, ProtectionFrame, SMT DEF EndWork, EndProducer
<1> QED BY <1>t, <1>x, <1>p, <1>i DEF CollectionInv, Exact

LEMMA AbandonStep ==
  ASSUME CollectionInv, NEW o \in Ids, Abandon(o)
  PROVE  CollectionInv'
<1>u. UNCHANGED <<refs, disk, c>>
  BY DEF Abandon, EndProducer
<1>y. TypeOK /\ PassInv /\ ProtectionInv /\ \A p \in Ids : Exact(p)
  BY DEF CollectionInv, Exact
<1>q. PICK s \in {"ended", "none"} : Update(o, [row[o] EXCEPT !.resv = s])
  BY SMT DEF Abandon, EndProducer
<1> DEFINE r == [row[o] EXCEPT !.resv = s]
<1>o. o \in Ids
  OBVIOUS
<1>c. row[o] \in Row
  BY <1>o, <1>y, SMT DEF TypeOK
<1>a. r \in Row
 <2>1. s \in {"none", "live", "ended"}
   BY <1>q, SMT
 <2> QED BY <1>c, <2>1, Zenon DEF Row
<1>b. Update(o, r)
  BY <1>o, <1>q, SMT DEF Abandon, EndProducer, SetState, Producing
<1>d. /\ row' \in [Ids -> Row]
      /\ row'[o] = r
      /\ \A p \in Ids \ {o} : row'[p] = row[p]
  BY <1>o, <1>a, <1>b, <1>y, UpdateFrame DEF TypeOK
<1>e. /\ r.state = row[o].state
      /\ r.kind = row[o].kind
      /\ r.base = row[o].base
      /\ r.seal = row[o].seal
      /\ r.open = row[o].open
      /\ r.resv = s
      /\ r.bytes = row[o].bytes
      /\ r.kept = row[o].kept
      /\ r.logical = row[o].logical
      /\ r.pending = row[o].pending
      /\ r.credited = row[o].credited
  BY <1>c, SMT DEF Row
<1> HIDE DEF r
<1>t. TypeOK'
 <2>row. row' \in [Ids -> Row]
   BY <1>d
 <2>shared. shared' \in [Ids -> SUBSET Holders]
   BY <1>u, <1>q, <1>o, <1>d, <1>e, <1>y, MembersAssumption, FaultsAssumption, SMT DEF Abandon, EndProducer, TypeOK, Holders, Readers
 <2>faults. faults' \in 0 .. MaxFaults
   BY <1>u, <1>q, <1>o, <1>d, <1>e, <1>y, MembersAssumption, FaultsAssumption, SMT DEF Abandon, EndProducer, TypeOK, Ids
 <2> QED BY <1>u, <2>row, <2>shared, <2>faults, <1>y, SMT DEF TypeOK
<1>x. \A p \in Ids : Exact(p)'
 <2>1. ASSUME NEW p \in Ids, p # o PROVE Exact(p)'
   BY <2>1, <1>u, <1>q, <1>o, <1>d, <1>e, <1>y, ExactFrame, SMT DEF Abandon, EndProducer, TypeOK, Exact, RowInv
 <2>2. ASSUME NEW p \in Ids, p = o PROVE Exact(p)'
   BY <2>2, <1>u, <1>q, <1>o, <1>d, <1>e, <1>y, MembersAssumption, SMT DEF Abandon, EndProducer, TypeOK, Row, Disk, Exact, RowInv, ObjectIsExact, None
 <2> QED BY <2>1, <2>2
<1>p. PassInv'
  BY <1>u, <1>q, <1>o, <1>d, <1>e, <1>y, SMT DEF Abandon, EndProducer, TypeOK, PassInv, Idle
<1>i. ProtectionInv'
  BY <1>u, <1>q, <1>o, <1>d, <1>e, <1>y, ProtectionFrame, SMT DEF Abandon, EndProducer
<1> QED BY <1>t, <1>x, <1>p, <1>i DEF CollectionInv, Exact

LEMMA MarkRemovedStep ==
  ASSUME CollectionInv, MarkRemoved
  PROVE  CollectionInv'
<1>u. UNCHANGED <<refs, disk, shared, faults>>
  BY DEF MarkRemoved
<1>y. TypeOK /\ PassInv /\ ProtectionInv /\ \A p \in Ids : Exact(p)
  BY DEF CollectionInv, Exact
<1>q. row[c.obj].state = "pending" /\ row[c.obj].kept = {}
  BY <1>y, SMT DEF MarkRemoved, PassInv
<1> DEFINE r == [row[c.obj] EXCEPT !.state = "removed",
                   !.bytes = 0]
<1>o. c.obj \in Ids
  BY <1>y, SMT DEF MarkRemoved, PassInv
<1>c. row[c.obj] \in Row
  BY <1>o, <1>y, SMT DEF TypeOK
<1>a. r \in Row
 <2>1. "removed" \in States
   BY <1>y, MembersAssumption, ObjectsAssumption, SMT DEF States, Ids, MarkRemoved
 <2>2. 0 \in Int
   BY <1>y, MembersAssumption, ObjectsAssumption, SMT DEF States, Ids, MarkRemoved
 <2> QED BY <1>c, <2>1, <2>2, Zenon DEF Row
<1>b. Update(c.obj, r)
  BY <1>o, SMT DEF MarkRemoved, SetState, Producing
<1>d. /\ row' \in [Ids -> Row]
      /\ row'[c.obj] = r
      /\ \A p \in Ids \ {c.obj} : row'[p] = row[p]
  BY <1>o, <1>a, <1>b, <1>y, UpdateFrame DEF TypeOK
<1>e. /\ r.state = "removed"
      /\ r.kind = row[c.obj].kind
      /\ r.base = row[c.obj].base
      /\ r.seal = row[c.obj].seal
      /\ r.open = row[c.obj].open
      /\ r.resv = row[c.obj].resv
      /\ r.bytes = 0
      /\ r.kept = row[c.obj].kept
      /\ r.logical = row[c.obj].logical
      /\ r.pending = row[c.obj].pending
      /\ r.credited = row[c.obj].credited
  BY <1>c, SMT DEF Row
<1> HIDE DEF r
<1>t. TypeOK'
 <2>row. row' \in [Ids -> Row]
   BY <1>d
 <2>c. c' \in [pc : Pc, obj : 0 .. MaxObjects, excl : BOOLEAN, member : Members]
  <3>1. c \in Passes
    BY <1>y DEF TypeOK, Passes
  <3>2. {"idle"} \subseteq Pc
    BY DEF Pc
  <3>3. c' = Idle \/ \E q \in {"idle"} : c' = [c EXCEPT !.pc = q]
    BY SMT DEF MarkRemoved
  <3> QED BY <3>1, <3>2, <3>3, IdleType, PassType, Zenon DEF Passes
 <2> QED BY <1>u, <2>row, <2>c, <1>y, SMT DEF TypeOK
<1>x. \A p \in Ids : Exact(p)'
 <2>1. ASSUME NEW p \in Ids, p # c.obj PROVE Exact(p)'
   BY <2>1, <1>u, <1>q, <1>o, <1>d, <1>e, <1>y, ExactFrame, SMT DEF MarkRemoved, TypeOK, Exact, RowInv
 <2>2. ASSUME NEW p \in Ids, p = c.obj PROVE Exact(p)'
   BY <2>2, <1>q, <1>u, <1>d, <1>e, <1>y, SMT DEF Exact, RowInv, ObjectIsExact
 <2> QED BY <2>1, <2>2
<1>p. PassInv'
  BY <1>u, <1>q, <1>o, <1>d, <1>e, <1>y, SMT DEF MarkRemoved, TypeOK, PassInv, Idle
<1>i. ProtectionInv'
  BY <1>u, <1>q, <1>o, <1>d, <1>e, <1>y, ProtectionFrame, SMT DEF MarkRemoved, PassInv
<1> QED BY <1>t, <1>x, <1>p, <1>i DEF CollectionInv, Exact

LEMMA QuarantineStep ==
  ASSUME CollectionInv, NEW o \in Ids, Quarantine(o)
  PROVE  CollectionInv'
<1>u. UNCHANGED <<refs, disk, shared, c, faults>>
  BY DEF Quarantine, Unfinished, Excluded
<1>y. TypeOK /\ PassInv /\ ProtectionInv /\ \A p \in Ids : Exact(p)
  BY DEF CollectionInv, Exact
<1> DEFINE r == [row[o] EXCEPT !.state = "quarantined",
                   !.resv = "none"]
<1>o. o \in Ids
  OBVIOUS
<1>c. row[o] \in Row
  BY <1>o, <1>y, SMT DEF TypeOK
<1>a. r \in Row
 <2>1. "quarantined" \in States
   BY <1>y, MembersAssumption, ObjectsAssumption, SMT DEF States, Ids, Quarantine, Unfinished, Excluded
 <2>2. "none" \in {"none", "live", "ended"}
   BY <1>y, MembersAssumption, ObjectsAssumption, SMT DEF States, Ids, Quarantine, Unfinished, Excluded
 <2> QED BY <1>c, <2>1, <2>2, Zenon DEF Row
<1>b. Update(o, r)
  BY <1>o, SMT DEF Quarantine, Unfinished, Excluded, SetState, Producing
<1>d. /\ row' \in [Ids -> Row]
      /\ row'[o] = r
      /\ \A p \in Ids \ {o} : row'[p] = row[p]
  BY <1>o, <1>a, <1>b, <1>y, UpdateFrame DEF TypeOK
<1>e. /\ r.state = "quarantined"
      /\ r.kind = row[o].kind
      /\ r.base = row[o].base
      /\ r.seal = row[o].seal
      /\ r.open = row[o].open
      /\ r.resv = "none"
      /\ r.bytes = row[o].bytes
      /\ r.kept = row[o].kept
      /\ r.logical = row[o].logical
      /\ r.pending = row[o].pending
      /\ r.credited = row[o].credited
  BY <1>c, SMT DEF Row
<1> HIDE DEF r
<1>t. TypeOK'
 <2>row. row' \in [Ids -> Row]
   BY <1>d
 <2> QED BY <1>u, <2>row, <1>y, SMT DEF TypeOK
<1>x. \A p \in Ids : Exact(p)'
 <2>1. ASSUME NEW p \in Ids, p # o PROVE Exact(p)'
   BY <2>1, <1>u, <1>o, <1>d, <1>e, <1>y, ExactFrame, SMT DEF Quarantine, Unfinished, Excluded, TypeOK, Exact, RowInv
 <2>2. ASSUME NEW p \in Ids, p = o PROVE Exact(p)'
   BY <2>2, <1>u, <1>o, <1>d, <1>e, <1>y, MembersAssumption, SMT DEF Quarantine, Unfinished, Excluded, TypeOK, Row, Disk, Exact, RowInv, ObjectIsExact, None
 <2> QED BY <2>1, <2>2
<1>p. PassInv'
  BY <1>u, <1>o, <1>d, <1>e, <1>y, SMT DEF Quarantine, Unfinished, Excluded, TypeOK, PassInv, Idle
<1>i. ProtectionInv'
  BY <1>u, <1>o, <1>d, <1>e, <1>y, ProtectionFrame, SMT DEF Quarantine, Unfinished, Excluded
<1> QED BY <1>t, <1>x, <1>p, <1>i DEF CollectionInv, Exact

LEMMA WithdrawStep ==
  ASSUME CollectionInv, NEW o \in Ids, Withdraw(o)
  PROVE  CollectionInv'
<1>u. UNCHANGED <<refs, disk, shared, c, faults>>
  BY DEF Withdraw, Unfinished, Excluded
<1>y. TypeOK /\ PassInv /\ ProtectionInv /\ \A p \in Ids : Exact(p)
  BY DEF CollectionInv, Exact
<1> DEFINE r == [row[o] EXCEPT !.state = "retired",
                   !.resv = "none",
                   !.open = FALSE]
<1>o. o \in Ids
  OBVIOUS
<1>c. row[o] \in Row
  BY <1>o, <1>y, SMT DEF TypeOK
<1>a. r \in Row
 <2>1. "retired" \in States
   BY <1>y, MembersAssumption, ObjectsAssumption, SMT DEF States, Ids, Withdraw, Unfinished, Excluded
 <2>2. "none" \in {"none", "live", "ended"}
   BY <1>y, MembersAssumption, ObjectsAssumption, SMT DEF States, Ids, Withdraw, Unfinished, Excluded
 <2>3. FALSE \in BOOLEAN
   BY <1>y, MembersAssumption, ObjectsAssumption, SMT DEF States, Ids, Withdraw, Unfinished, Excluded
 <2> QED BY <1>c, <2>1, <2>2, <2>3, Zenon DEF Row
<1>b. Update(o, r)
  BY <1>o, SMT DEF Withdraw, Unfinished, Excluded, SetState, Producing
<1>d. /\ row' \in [Ids -> Row]
      /\ row'[o] = r
      /\ \A p \in Ids \ {o} : row'[p] = row[p]
  BY <1>o, <1>a, <1>b, <1>y, UpdateFrame DEF TypeOK
<1>e. /\ r.state = "retired"
      /\ r.kind = row[o].kind
      /\ r.base = row[o].base
      /\ r.seal = row[o].seal
      /\ r.open = FALSE
      /\ r.resv = "none"
      /\ r.bytes = row[o].bytes
      /\ r.kept = row[o].kept
      /\ r.logical = row[o].logical
      /\ r.pending = row[o].pending
      /\ r.credited = row[o].credited
  BY <1>c, SMT DEF Row
<1> HIDE DEF r
<1>t. TypeOK'
 <2>row. row' \in [Ids -> Row]
   BY <1>d
 <2> QED BY <1>u, <2>row, <1>y, SMT DEF TypeOK
<1>x. \A p \in Ids : Exact(p)'
 <2>1. ASSUME NEW p \in Ids, p # o PROVE Exact(p)'
   BY <2>1, <1>u, <1>o, <1>d, <1>e, <1>y, ExactFrame, SMT DEF Withdraw, Unfinished, Excluded, TypeOK, Exact, RowInv
 <2>2. ASSUME NEW p \in Ids, p = o PROVE Exact(p)'
   BY <2>2, <1>u, <1>o, <1>d, <1>e, <1>y, MembersAssumption, SMT DEF Withdraw, Unfinished, Excluded, TypeOK, Row, Disk, Exact, RowInv, ObjectIsExact, None
 <2> QED BY <2>1, <2>2
<1>p. PassInv'
  BY <1>u, <1>o, <1>d, <1>e, <1>y, SMT DEF Withdraw, Unfinished, Excluded, TypeOK, PassInv, Idle
<1>i. ProtectionInv'
  BY <1>u, <1>o, <1>d, <1>e, <1>y, ProtectionFrame, SMT DEF Withdraw, Unfinished, Excluded
<1> QED BY <1>t, <1>x, <1>p, <1>i DEF CollectionInv, Exact

LEMMA JournalStep ==
  ASSUME CollectionInv, NEW m \in Members, Journal(m)
  PROVE  CollectionInv'
<1>u. UNCHANGED <<refs, disk, shared, faults>>
  BY DEF Journal, NextMember
<1>y. TypeOK /\ PassInv /\ ProtectionInv /\ \A p \in Ids : Exact(p)
  BY DEF CollectionInv, Exact
<1>q. PICK t \in 0 .. disk[c.obj].file[m] - 1 :
        Update(c.obj, [row[c.obj] EXCEPT !.pending = [@ EXCEPT ![m] = t]])
  BY DEF Journal
<1>v. /\ c.obj \in Ids /\ m \in row[c.obj].kept /\ row[c.obj].state = "pending"
      /\ disk[c.obj].file[m] = row[c.obj].logical[m]
      /\ t \in Nat /\ t \in 0 .. row[c.obj].logical[m] - 1
  BY <1>q, <1>y, SMT DEF Journal, NextMember, PassInv
<1> DEFINE r == [row[c.obj] EXCEPT !.pending = [row[c.obj].pending EXCEPT ![m] = t]]
<1>o. c.obj \in Ids
  BY <1>y, SMT DEF Journal, PassInv
<1>c. row[c.obj] \in Row
  BY <1>o, <1>y, SMT DEF TypeOK
<1>a. r \in Row
 <2>1. [row[c.obj].pending EXCEPT ![m] = t] \in [Members -> Nat \cup {None}]
   BY <1>v, <1>c, SMT DEF Row
 <2> QED BY <1>c, <2>1, Zenon DEF Row
<1>b. Update(c.obj, r)
  BY <1>o, <1>q, SMT DEF Journal, NextMember, SetState, Producing
<1>d. /\ row' \in [Ids -> Row]
      /\ row'[c.obj] = r
      /\ \A p \in Ids \ {c.obj} : row'[p] = row[p]
  BY <1>o, <1>a, <1>b, <1>y, UpdateFrame DEF TypeOK
<1>e. /\ r.state = row[c.obj].state
      /\ r.kind = row[c.obj].kind
      /\ r.base = row[c.obj].base
      /\ r.seal = row[c.obj].seal
      /\ r.open = row[c.obj].open
      /\ r.resv = row[c.obj].resv
      /\ r.bytes = row[c.obj].bytes
      /\ r.kept = row[c.obj].kept
      /\ r.logical = row[c.obj].logical
      /\ r.pending = [row[c.obj].pending EXCEPT ![m] = t]
      /\ r.credited = row[c.obj].credited
  BY <1>c, SMT DEF Row
<1> HIDE DEF r
<1>t. TypeOK'
 <2>row. row' \in [Ids -> Row]
   BY <1>d
 <2>c. c' \in [pc : Pc, obj : 0 .. MaxObjects, excl : BOOLEAN, member : Members]
  <3>1. c \in Passes
    BY <1>y DEF TypeOK, Passes
  <3>2. {"io"} \subseteq Pc
    BY DEF Pc
  <3>3. c' = Idle \/ c' = [c EXCEPT !.pc = "io", !.member = m]
    BY SMT DEF Journal, NextMember
  <3> QED BY <3>1, <3>2, <3>3, IdleType, PassType, ZenonT(30) DEF Passes
 <2> QED BY <1>u, <2>row, <2>c, <1>y, SMT DEF TypeOK
<1>x. \A p \in Ids : Exact(p)'
 <2>1. ASSUME NEW p \in Ids, p # c.obj PROVE Exact(p)'
   BY <2>1, <1>u, <1>v, <1>o, <1>d, <1>e, <1>y, ExactFrame, SMTT(30) DEF Journal, NextMember, TypeOK, Exact, RowInv
 <2>2. ASSUME NEW p \in Ids, p = c.obj PROVE Exact(p)'
   <3>1. /\ row'[p].logical = row[p].logical /\ row'[p].kept = row[p].kept /\ row'[p].credited = row[p].credited
         /\ row'[p].state = "pending" /\ row'[p].seal = row[p].seal /\ disk' = disk
     BY <2>2, <1>u, <1>v, <1>d, <1>e, SMT
   <3>2. \A n \in Members : n # m => row'[p].pending[n] = row[p].pending[n]
     BY <2>2, <1>c, <1>d, <1>e, SMT DEF Row
   <3> QED BY <2>2, <3>1, <3>2, <1>v, <1>d, <1>e, <1>y, SMTT(30) DEF Exact, RowInv, ObjectIsExact
 <2> QED BY <2>1, <2>2
<1>p. PassInv'
  <2>1. /\ row'[c.obj].pending[m] = t /\ row'[c.obj].state = "pending"
        /\ row'[c.obj].seal = row[c.obj].seal /\ row'[c.obj].kept = row[c.obj].kept
        /\ row'[c.obj].logical = row[c.obj].logical
    BY <1>v, <1>c, <1>d, <1>e, SMT DEF Row
  <2>2. /\ c.pc = "members" /\ c' = [c EXCEPT !.pc = "io", !.member = m]
    BY DEF Journal
  <2>3. c'.pc = "io" /\ c'.obj = c.obj /\ c'.excl = c.excl /\ c'.member = m
    BY <2>2, <1>y, SMT DEF TypeOK
  <2> QED BY <2>1, <2>2, <2>3, <1>u, <1>v, <1>y, SMT DEF PassInv
<1>i. ProtectionInv'
  BY <1>u, <1>v, <1>o, <1>d, <1>e, <1>y, ProtectionFrame, SMT DEF Journal, NextMember, PassInv
<1> QED BY <1>t, <1>x, <1>p, <1>i DEF CollectionInv, Exact

LEMMA CreditStep ==
  ASSUME CollectionInv, Credit
  PROVE  CollectionInv'
<1>u. UNCHANGED <<refs, disk, shared, faults>>
  BY DEF Credit
<1>y. TypeOK /\ PassInv /\ ProtectionInv /\ \A p \in Ids : Exact(p)
  BY DEF CollectionInv, Exact
<1> DEFINE m == c.member
            after == disk[c.obj].file[m]
            freed == row[c.obj].logical[m] - after
            K == IF after = 0 THEN row[c.obj].kept \ {m} ELSE row[c.obj].kept
<1>v. /\ c.obj \in Ids /\ m \in Members /\ m \in row[c.obj].kept /\ row[c.obj].state = "pending"
      /\ after \in Nat /\ freed \in Nat /\ freed > 0
      /\ row[c.obj].logical[m] = after + freed
      /\ disk[c.obj].file[m] = after
  BY <1>y, SMT DEF Credit, PassInv, TypeOK, Row, Disk
<1>q. Update(c.obj, [row[c.obj] EXCEPT
             !.logical = [row[c.obj].logical EXCEPT ![m] = after],
             !.pending = [row[c.obj].pending EXCEPT ![m] = None],
             !.credited = [row[c.obj].credited EXCEPT ![m] = row[c.obj].credited[m] + freed],
             !.bytes = row[c.obj].bytes - freed,
             !.kept = K])
  BY DEF Credit
<1>w. /\ K \subseteq row[c.obj].kept
      /\ after = 0 => K = row[c.obj].kept \ {m}
      /\ after # 0 => K = row[c.obj].kept
  OBVIOUS
<1>z. c.pc = "credit" /\ c' = [c EXCEPT !.pc = "members"]
  BY DEF Credit
<1> HIDE DEF K, after, freed, m
<1> DEFINE r == [row[c.obj] EXCEPT !.logical = [row[c.obj].logical EXCEPT ![m] = after],
                   !.pending = [row[c.obj].pending EXCEPT ![m] = None],
                   !.credited = [row[c.obj].credited EXCEPT ![m] = row[c.obj].credited[m] + freed],
                   !.bytes = row[c.obj].bytes - freed,
                   !.kept = K]
<1>o. c.obj \in Ids
  BY <1>v
<1>c. row[c.obj] \in Row
  BY <1>o, <1>y, SMT DEF TypeOK
<1>a. r \in Row
 <2>1. [row[c.obj].logical EXCEPT ![m] = after] \in [Members -> Nat]
   BY <1>v, <1>c, SMT DEF Row
 <2>2. [row[c.obj].pending EXCEPT ![m] = None] \in [Members -> Nat \cup {None}]
   BY <1>v, <1>c, SMT DEF Row, None
 <2>3. [row[c.obj].credited EXCEPT ![m] = row[c.obj].credited[m] + freed] \in [Members -> Nat]
   BY <1>v, <1>c, SMT DEF Row
 <2>4. row[c.obj].bytes - freed \in Int
   BY <1>v, <1>c, SMT DEF Row
 <2>5. K \in SUBSET Members
   BY <1>w, <1>c, SMT DEF Row
 <2> QED BY <1>c, <2>1, <2>2, <2>3, <2>4, <2>5, Zenon DEF Row
<1>b. Update(c.obj, r)
  BY <1>q
<1>d. /\ row' \in [Ids -> Row]
      /\ row'[c.obj] = r
      /\ \A p \in Ids \ {c.obj} : row'[p] = row[p]
  BY <1>o, <1>a, <1>b, <1>y, UpdateFrame DEF TypeOK
<1>e. /\ r.state = row[c.obj].state
      /\ r.kind = row[c.obj].kind
      /\ r.base = row[c.obj].base
      /\ r.seal = row[c.obj].seal
      /\ r.open = row[c.obj].open
      /\ r.resv = row[c.obj].resv
      /\ r.bytes = row[c.obj].bytes - freed
      /\ r.kept = K
      /\ r.logical = [row[c.obj].logical EXCEPT ![m] = after]
      /\ r.pending = [row[c.obj].pending EXCEPT ![m] = None]
      /\ r.credited = [row[c.obj].credited EXCEPT ![m] = row[c.obj].credited[m] + freed]
  BY <1>c, SMT DEF Row
<1> HIDE DEF r
<1>t. TypeOK'
 <2>row. row' \in [Ids -> Row]
   BY <1>d
 <2>c. c' \in [pc : Pc, obj : 0 .. MaxObjects, excl : BOOLEAN, member : Members]
  <3>1. c \in Passes
    BY <1>y DEF TypeOK, Passes
  <3>2. {"members"} \subseteq Pc
    BY DEF Pc
  <3>3. c' = Idle \/ \E q \in {"members"} : c' = [c EXCEPT !.pc = q]
    BY SMT DEF Credit
  <3> QED BY <3>1, <3>2, <3>3, IdleType, PassType, Zenon DEF Passes
 <2> QED BY <1>u, <2>row, <2>c, <1>y, SMT DEF TypeOK
<1>x. \A p \in Ids : Exact(p)'
 <2>1. ASSUME NEW p \in Ids, p # c.obj PROVE Exact(p)'
   BY <2>1, <1>u, <1>d, <1>y, ExactFrame, SMT DEF Exact, RowInv
 <2>2. ASSUME NEW p \in Ids, p = c.obj PROVE Exact(p)'
   <3>1. /\ row'[p].state = "pending" /\ row'[p].seal = row[p].seal /\ row'[p].kept = K
         /\ row'[p].open = row[p].open /\ row'[p].kind = row[p].kind /\ row'[p].base = row[p].base /\ disk' = disk
     BY <2>2, <1>u, <1>v, <1>d, <1>e, SMT
   <3>2. /\ row'[p].pending[m] = None /\ row'[p].logical[m] = after
         /\ row'[p].credited[m] = row[p].credited[m] + freed
     BY <2>2, <1>v, <1>c, <1>d, <1>e, SMT DEF Row
   <3>3. \A n \in Members : n # m =>
           /\ row'[p].pending[n] = row[p].pending[n] /\ row'[p].logical[n] = row[p].logical[n]
           /\ row'[p].credited[n] = row[p].credited[n]
     BY <2>2, <1>c, <1>d, <1>e, SMT DEF Row
   <3>4. row[p] \in Row
     BY <1>y, SMT DEF TypeOK
   <3>5. RowInv(p)'
     BY <2>2, <3>1, <3>2, <3>3, <1>w, <1>v, <1>y, SMT DEF Exact, RowInv
   <3>6. row[p].credited[m] \in Nat /\ row[p].credited[m] + row[p].logical[m] = Size[m]
     BY <2>2, <3>4, <1>v, <1>y, SMT DEF Exact, ObjectIsExact, Row
   <3>7. \A n \in Members :
           /\ disk'[p].file[n] = row'[p].logical[n] \/ disk'[p].file[n] = row'[p].pending[n]
           /\ n \in row'[p].kept \/ row'[p].credited[n] > 0
                => row'[p].credited[n] + row'[p].logical[n] = Size[n]
     <4> TAKE n \in Members
     <4>1. CASE n = m
       BY <4>1, <2>2, <3>1, <3>2, <3>4, <3>6, <1>v, SMT DEF Row
     <4>2. CASE n # m
       BY <4>2, <2>2, <3>1, <3>3, <1>w, <1>v, <1>y, SMT DEF Exact, ObjectIsExact
     <4> QED BY <4>1, <4>2
   <3>8. ObjectIsExact(p)'
     BY <3>1, <3>7, SMT DEF ObjectIsExact
   <3> QED BY <3>5, <3>8 DEF Exact
 <2> QED BY <2>1, <2>2
<1>p. PassInv'
  <2>1. /\ row'[c.obj].state = "pending" /\ row'[c.obj].seal = row[c.obj].seal
    BY <1>v, <1>d, <1>e, SMT
  <2>2. c'.pc = "members" /\ c'.obj = c.obj /\ c'.excl = c.excl
    BY <1>z, <1>y, SMT DEF TypeOK
  <2> QED BY <2>1, <2>2, <1>z, <1>u, <1>y, SMT DEF PassInv
<1>i. ProtectionInv'
  BY <1>u, <1>v, <1>o, <1>d, <1>e, <1>y, ProtectionFrame, SMT
<1> QED BY <1>t, <1>x, <1>p, <1>i DEF CollectionInv, Exact

LEMMA RetireRefusedStep ==
  ASSUME CollectionInv, c.pc = "retire", c' = Idle, UNCHANGED <<row, refs, disk, shared, faults>>
  PROVE  CollectionInv'
<1>u. UNCHANGED <<row, refs, disk, shared, faults>>
  BY DEF Idle
<1>y. TypeOK /\ PassInv /\ ProtectionInv /\ \A p \in Ids : Exact(p)
  BY DEF CollectionInv, Exact
<1>t. TypeOK'
 <2>c. c' \in [pc : Pc, obj : 0 .. MaxObjects, excl : BOOLEAN, member : Members]
   BY IdleType DEF Passes
 <2> QED BY <1>u, <2>c, <1>y, SMT DEF TypeOK
<1>x. \A p \in Ids : Exact(p)'
 BY <1>u, <1>y, ExactFrame, SMT DEF Idle, Exact, RowInv, TypeOK
<1>p. PassInv'
  BY <1>u, <1>y, SMT DEF Idle, TypeOK, PassInv, Idle
<1>i. ProtectionInv'
  BY <1>u, <1>y, SMT DEF Idle, ProtectionInv, TypeOK
<1> QED BY <1>t, <1>x, <1>p, <1>i DEF CollectionInv, Exact

LEMMA RetireDoneStep ==
  ASSUME CollectionInv, c.pc = "retire", ~ Referenced(c.obj), SetState(c.obj, "retired"),
         refs' = {r \in refs : r.by # "checkpoint" \/ r.source # c.obj},
         c' = [c EXCEPT !.pc = "pend"], UNCHANGED <<disk, shared, faults>>
  PROVE  CollectionInv'
<1>u. UNCHANGED <<disk, shared, faults>>
  BY DEF Referenced
<1>y. TypeOK /\ PassInv /\ ProtectionInv /\ \A p \in Ids : Exact(p)
  BY DEF CollectionInv, Exact
<1>v. /\ c.obj \in Ids /\ row[c.obj].state \in {"preparing", "published"} /\ row[c.obj].seal = 2
      /\ shared[c.obj] = {} /\ c.excl
  BY <1>y, SMT DEF PassInv
<1> DEFINE r == [row[c.obj] EXCEPT !.state = "retired"]
<1>o. c.obj \in Ids
  BY <1>v
<1>c. row[c.obj] \in Row
  BY <1>o, <1>y, SMT DEF TypeOK
<1>a. r \in Row
 <2>1. "retired" \in States
   BY <1>y, MembersAssumption, ObjectsAssumption, SMT DEF States, Ids, Referenced
 <2> QED BY <1>c, <2>1, Zenon DEF Row
<1>b. Update(c.obj, r)
  BY <1>o, SMT DEF Referenced, SetState, Producing
<1>d. /\ row' \in [Ids -> Row]
      /\ row'[c.obj] = r
      /\ \A p \in Ids \ {c.obj} : row'[p] = row[p]
  BY <1>o, <1>a, <1>b, <1>y, UpdateFrame DEF TypeOK
<1>e. /\ r.state = "retired"
      /\ r.kind = row[c.obj].kind
      /\ r.base = row[c.obj].base
      /\ r.seal = row[c.obj].seal
      /\ r.open = row[c.obj].open
      /\ r.resv = row[c.obj].resv
      /\ r.bytes = row[c.obj].bytes
      /\ r.kept = row[c.obj].kept
      /\ r.logical = row[c.obj].logical
      /\ r.pending = row[c.obj].pending
      /\ r.credited = row[c.obj].credited
  BY <1>c, SMT DEF Row
<1> HIDE DEF r
<1>t. TypeOK'
 <2>row. row' \in [Ids -> Row]
   BY <1>d
 <2>refs. refs' \subseteq Ref
   BY <1>y, SMT DEF TypeOK
 <2>c. c' \in [pc : Pc, obj : 0 .. MaxObjects, excl : BOOLEAN, member : Members]
  <3>1. c \in Passes
    BY <1>y DEF TypeOK, Passes
  <3>2. {"pend"} \subseteq Pc
    BY DEF Pc
  <3>3. c' = Idle \/ \E q \in {"pend"} : c' = [c EXCEPT !.pc = q]
    BY SMT DEF Referenced
  <3> QED BY <3>1, <3>2, <3>3, IdleType, PassType, Zenon DEF Passes
 <2> QED BY <1>u, <2>row, <2>refs, <2>c, <1>y, SMT DEF TypeOK
<1>x. \A p \in Ids : Exact(p)'
 <2>1. ASSUME NEW p \in Ids, p # c.obj PROVE Exact(p)'
   BY <2>1, <1>u, <1>v, <1>o, <1>d, <1>e, <1>y, ExactFrame, SMT DEF Referenced, TypeOK, Exact, RowInv
 <2>2. ASSUME NEW p \in Ids, p = c.obj PROVE Exact(p)'
   BY <2>2, <1>u, <1>v, <1>d, <1>e, <1>y, SMT DEF Exact, RowInv, ObjectIsExact
 <2> QED BY <2>1, <2>2
<1>p. PassInv'
  BY <1>u, <1>v, <1>o, <1>d, <1>e, <1>y, SMT DEF Referenced, TypeOK, PassInv, Idle
<1>i. ProtectionInv'
  <2>1. \A p \in Ids : shared'[p] \ {p} # {} => row'[p].state = "published"
    BY <1>u, <1>v, <1>o, <1>d, <1>e, <1>y, SMT DEF ProtectionInv
  <2>2. \A r1 \in refs' : row'[r1.target].state = "published"
    BY <1>v, <1>o, <1>d, <1>e, <1>y, SMT DEF ProtectionInv, TypeOK, Ref, Referenced
  <2>3. \A p \in Ids : row'[p].kind = "checkpoint" /\ row'[p].state = "published"
         => [by |-> "checkpoint", source |-> p, target |-> row'[p].base] \in refs'
    BY <1>v, <1>o, <1>d, <1>e, <1>y, SMT DEF ProtectionInv
  <2> QED BY <2>1, <2>2, <2>3 DEF ProtectionInv
<1> QED BY <1>t, <1>x, <1>p, <1>i DEF CollectionInv, Exact

LEMMA RetireStep ==
  ASSUME CollectionInv, Retire
  PROVE  CollectionInv'
  BY RetireRefusedStep, RetireDoneStep DEF Retire

LEMMA CrashStep ==
  ASSUME CollectionInv, Crash
  PROVE  CollectionInv'
<1>u. UNCHANGED <<refs, disk>>
  BY DEF Crash
<1>y. TypeOK /\ PassInv /\ ProtectionInv /\ \A p \in Ids : Exact(p)
  BY DEF CollectionInv, Exact
<1>v. ASSUME NEW p \in Ids
      PROVE  /\ row'[p] \in Row /\ row'[p].state = row[p].state /\ row'[p].kind = row[p].kind
             /\ row'[p].base = row[p].base /\ row'[p].seal = row[p].seal /\ row'[p].open = row[p].open
             /\ row'[p].kept = row[p].kept /\ row'[p].logical = row[p].logical
             /\ row'[p].pending = row[p].pending /\ row'[p].credited = row[p].credited
             /\ row[p].resv = "none" => row'[p].resv = "none"
             /\ shared'[p] = shared[p] \cap External
  <2>1. row[p] \in Row
    BY <1>y, SMT DEF TypeOK
  <2>2. shared'[p] = shared[p] \cap External
    BY SMT DEF Crash
  <2>3. CASE row[p].resv = "live"
    <3>1. row'[p] = [row[p] EXCEPT !.resv = "ended"]
      BY <2>3, SMT DEF Crash
    <3>2. [row[p] EXCEPT !.resv = "ended"] \in Row
      BY <2>1, Zenon DEF Row
    <3> QED BY <2>1, <2>2, <2>3, <3>1, <3>2, SMT DEF Row
  <2>4. CASE row[p].resv # "live"
    <3>1. row'[p] = row[p]
      BY <2>4, SMT DEF Crash
    <3> QED BY <2>1, <2>2, <3>1
  <2> QED BY <2>3, <2>4
<1>w. DOMAIN row' = Ids /\ row' = [o \in Ids |-> row'[o]]
  BY SMT DEF Crash
<1>t. TypeOK'
 <2>row. row' \in [Ids -> Row]
   BY <1>v, <1>w, SMT
 <2>shared. shared' \in [Ids -> SUBSET Holders]
   BY <1>u, <1>v, <1>y, MembersAssumption, FaultsAssumption, SMT DEF Crash, TypeOK, Holders, Readers
 <2>c. c' \in [pc : Pc, obj : 0 .. MaxObjects, excl : BOOLEAN, member : Members]
  <3>1. c \in Passes
    BY <1>y DEF TypeOK, Passes
  <3>2. {"idle"} \subseteq Pc
    BY DEF Pc
  <3>3. c' = Idle \/ \E q \in {"idle"} : c' = [c EXCEPT !.pc = q]
    BY SMT DEF Crash
  <3> QED BY <3>1, <3>2, <3>3, IdleType, PassType, Zenon DEF Passes
 <2>faults. faults' \in 0 .. MaxFaults
   BY <1>u, <1>v, <1>y, MembersAssumption, FaultsAssumption, SMT DEF Crash, TypeOK, Ids
 <2> QED BY <1>u, <2>row, <2>shared, <2>c, <2>faults, <1>y, SMT DEF TypeOK
<1>x. \A p \in Ids : Exact(p)'
 <2> TAKE p \in Ids
 <2>1. Exact(p)
   BY <1>y
 <2> QED BY <2>1, <1>u, <1>v, SMT DEF Exact, RowInv, ObjectIsExact
<1>p. PassInv'
  BY <1>u, <1>v, <1>y, SMT DEF Crash, TypeOK, PassInv, Idle
<1>i. ProtectionInv'
  <2>1. \A p \in Ids : shared'[p] \ {p} \subseteq shared[p] \ {p}
    BY <1>v, SMT
  <2> QED BY <2>1, <1>u, <1>v, <1>y, ProtectionFrame, SMT
<1> QED BY <1>t, <1>x, <1>p, <1>i DEF CollectionInv, Exact

-----------------------------------------------------------------------------
LEMMA InitInv == Init => CollectionInv
<1> SUFFICES ASSUME Init PROVE CollectionInv
  OBVIOUS
<1> DEFINE none == [container |-> FALSE, guard |-> FALSE, file |-> [m \in Members |-> 0]]
<1>1. none \in Disk
  BY SMT DEF Disk
<1>2. row = [o \in Ids |-> EmptyRow] /\ disk = [o \in Ids |-> none] /\ refs = {}
      /\ shared = [o \in Ids |-> {}] /\ c = Idle /\ faults = 0
  BY DEF Init
<1>3. TypeOK
  <2>1. row \in [Ids -> Row]
    BY <1>2, EmptyRowType, SMT
  <2>2. disk \in [Ids -> Disk]
    BY <1>1, <1>2, SMT
  <2>3. shared \in [Ids -> SUBSET Holders]
    BY <1>2, SMT
  <2>4. c \in [pc : Pc, obj : 0 .. MaxObjects, excl : BOOLEAN, member : Members]
    BY <1>2, IdleType DEF Passes
  <2>5. refs \subseteq Ref /\ faults \in 0 .. MaxFaults
    BY <1>2, FaultsAssumption, SMT
  <2> QED BY <2>1, <2>2, <2>3, <2>4, <2>5 DEF TypeOK
<1>4. ASSUME NEW o \in Ids PROVE RowInv(o) /\ ObjectIsExact(o)
  <2>1. row[o] = EmptyRow /\ shared[o] = {} /\ \A m \in Members : disk[o].file[m] = 0
    BY <1>2, SMT
  <2>2. /\ EmptyRow.state = "absent" /\ EmptyRow.resv = "none" /\ EmptyRow.seal = 0
        /\ ~ EmptyRow.open /\ EmptyRow.kept = {}
        /\ \A m \in Members : /\ EmptyRow.pending[m] = None
                              /\ EmptyRow.credited[m] = 0
                              /\ EmptyRow.logical[m] = 0
    BY SMT DEF EmptyRow
  <2> QED BY <2>1, <2>2, SMT DEF RowInv, ObjectIsExact
<1>5. PassInv
  BY <1>2, SMT DEF PassInv, Idle
<1>6. ProtectionInv
  BY <1>2, SMT DEF ProtectionInv, EmptyRow
<1> QED BY <1>3, <1>4, <1>5, <1>6 DEF CollectionInv

LEMMA StutterStep ==
  ASSUME CollectionInv, UNCHANGED vars
  PROVE  CollectionInv'
<1>1. UNCHANGED <<row, refs, disk, shared, c, faults>>
  BY DEF vars
<1>2. TypeOK' /\ PassInv' /\ ProtectionInv'
  BY <1>1, SMT DEF CollectionInv, TypeOK, PassInv, ProtectionInv
<1>3. \A o \in Ids : RowInv(o)' /\ ObjectIsExact(o)'
  BY <1>1, SMT DEF CollectionInv, RowInv, ObjectIsExact
<1> QED BY <1>2, <1>3 DEF CollectionInv

LEMMA NextInv == CollectionInv /\ [Next]_vars => CollectionInv'
<1> SUFFICES ASSUME CollectionInv, [Next]_vars PROVE CollectionInv'
  OBVIOUS
<1>1. CASE UNCHANGED vars
  BY <1>1, StutterStep
<1>2. ASSUME NEW o \in Ids, Produce(o) PROVE CollectionInv'
  BY <1>2, CreateGenerationStep, CreateCheckpointStep, SealContainerStep, SealGuardStep,
     BeginMemberStep, SealMemberStep, PublishStep, PublishViewStep, FailStep, EndWorkStep,
     AbandonStep DEF Produce
<1>3. ASSUME NEW o \in Ids, Retain(o) \/ Release(o) \/ Recover(o) PROVE CollectionInv'
  BY <1>3, RetainStep, ReleaseStep, RecoverUnsealedStep, QuarantineStep, WithdrawStep,
     ReleaseReservationStep DEF Recover
<1>4. ASSUME NEW o \in Ids, NEW r \in Readers, Pin(r, o) \/ Close(r, o) PROVE CollectionInv'
  BY <1>4, PinStep, CloseStep
<1>5. ASSUME NEW o \in Ids, Lock(o) \/ FinishMissing(o) PROVE CollectionInv'
  BY <1>5, LockStep, FinishMissingStep
<1>6. CASE Advance
  BY <1>6, JudgeStep, RetireStep, MarkPendingStep, JournalStep, ResumeStep, IoStep, CreditStep,
     MembersGoneStep, RemoveContainerStep, RemoveGuardStep, MarkRemovedStep DEF Advance
<1>7. CASE RetireView \/ Interrupt \/ Crash
  BY <1>7, RetireViewStep, InterruptStep, CrashStep
<1> QED BY <1>1, <1>2, <1>3, <1>4, <1>5, <1>6, <1>7 DEF Next

-----------------------------------------------------------------------------
\* The results.

\* CollectionInv holds in every state a namespace can be in: the row, the files,
\* the protections of every object and the progress of the pass agree.
THEOREM CollectionSafe == Spec => []CollectionInv
<1>1. Init => CollectionInv
  BY InitInv
<1>2. CollectionInv /\ [Next]_vars => CollectionInv'
  BY NextInv
<1> QED BY <1>1, <1>2, PTL DEF Spec

\* The variables keep their types: a total stays an integer, no member is
\* credited a negative amount, the number of faults stays in its bound.
THEOREM CollectionTypes == Spec => []TypeOK
<1>1. CollectionInv => TypeOK
  BY DEF CollectionInv
<1> QED BY <1>1, CollectionSafe, PTL

LEMMA InvIsWhole ==
  ASSUME CollectionInv, NEW o \in Ids, row[o].state = "published"
  PROVE  Whole(o)
  BY PublishedIsWhole DEF CollectionInv, Exact

\* Whatever holds an object open, besides the producer of that object, keeps
\* its row published and its files complete (exclusive_guard, pin_inner).
THEOREM PinnedSafe == Spec => []PinnedIsIntact
<1>1. CollectionInv => PinnedIsIntact
  BY InvIsWhole, SMT DEF CollectionInv, ProtectionInv, PinnedIsIntact
<1> QED BY <1>1, CollectionSafe, PTL

\* Nothing that the catalog refers to, nor the generation of a published
\* checkpoint, is withdrawn or loses a file (eligibility_locked and the
\* withdrawing transaction of collect_object).
THEOREM ReferencedSafe == Spec => []ReferencedIsPublished
<1>1. CollectionInv => ReferencedIsPublished
  <2> SUFFICES ASSUME CollectionInv PROVE ReferencedIsPublished
    OBVIOUS
  <2>1. ASSUME NEW r \in refs PROVE Whole(r.target)
    <3>1. r.target \in Ids /\ row[r.target].state = "published"
      BY SMT DEF CollectionInv, ProtectionInv, TypeOK, Ref
    <3> QED BY <3>1, InvIsWhole
  <2>2. ASSUME NEW o \in Ids, row[o].kind = "checkpoint", row[o].state = "published"
        PROVE  Whole(row[o].base)
    <3> DEFINE ref == [by |-> "checkpoint", source |-> o, target |-> row[o].base]
    <3>1. ref \in refs
      BY <2>2 DEF CollectionInv, ProtectionInv
    <3>2. ref.target = row[o].base
      OBVIOUS
    <3> QED BY <2>1, <3>1, <3>2
  <2> QED BY <2>1, <2>2 DEF ReferencedIsPublished
<1> QED BY <1>1, CollectionSafe, PTL

-----------------------------------------------------------------------------
\* Counting the blocks of an object.

\* A member of n blocks counts for n.
LEMMA MemberBlocks ==
  ASSUME NEW m, NEW n \in Nat
  PROVE  IsFiniteSet({m} \X (1 .. n)) /\ Cardinality({m} \X (1 .. n)) = n
<1> DEFINE f == [k \in 1 .. n |-> <<m, k>>]
<1>1. IsFiniteSet(1 .. n) /\ Cardinality(1 .. n) = n
  BY FS_Interval, SMT
<1>2. f \in [1 .. n -> {m} \X (1 .. n)] /\ \A k \in 1 .. n : f[k] = <<m, k>>
  BY SMT
<1> HIDE DEF f
<1>4. \A a, b \in 1 .. n : f[a] = f[b] => a = b
  BY <1>2, SMT
<1>5. \A t \in {m} \X (1 .. n) : \E k \in 1 .. n : f[k] = t
  BY <1>2, SMT
<1>6. f \in Bijection(1 .. n, {m} \X (1 .. n))
  BY <1>2, <1>4, <1>5, Zenon DEF Bijection, Injection, Surjection, IsInjective
<1>3. ExistsBijection(1 .. n, {m} \X (1 .. n))
  BY <1>6, Zenon DEF ExistsBijection
<1> QED BY <1>1, <1>3, FS_Bijection, Zenon

\* The blocks of finitely many members are finitely many.
LEMMA FiniteBlocks ==
  ASSUME NEW logical \in [Members -> Nat]
  PROVE  IsFiniteSet(Blocks(logical))
<1> DEFINE B == {{m} \X (1 .. logical[m]) : m \in Members}
           f == [m \in Members |-> {m} \X (1 .. logical[m])]
<1>1. f \in Surjection(Members, B)
  BY Zenon DEF Surjection
<1>2. IsFiniteSet(B)
  BY <1>1, MembersAssumption, FS_Surjection, Zenon
<1>3. ASSUME NEW T \in B PROVE IsFiniteSet(T)
  <2>1. PICK m \in Members : T = {m} \X (1 .. logical[m])
    OBVIOUS
  <2>2. logical[m] \in Nat
    OBVIOUS
  <2> QED BY <2>1, <2>2, MemberBlocks, Zenon
<1> QED BY <1>2, <1>3, FS_UNION, Zenon DEF Blocks

\* Nothing recorded, nothing counted.
LEMMA NoBlocks ==
  ASSUME NEW logical, \A m \in Members : logical[m] = 0
  PROVE  Cardinality(Blocks(logical)) = 0
<1>1. 1 .. 0 = {}
  BY SMT
<1>2. Blocks(logical) = {}
  BY <1>1, Zenon DEF Blocks
<1> QED BY <1>2, FS_EmptySet, Zenon

\* A new length of one member changes the count by the difference.
LEMMA BlocksChange ==
  ASSUME NEW logical \in [Members -> Nat], NEW m \in Members, NEW n \in Nat
  PROVE  Cardinality(Blocks([logical EXCEPT ![m] = n]))
           = Cardinality(Blocks(logical)) - logical[m] + n
<1> DEFINE after == [logical EXCEPT ![m] = n]
           Rest == Blocks(logical) \ ({m} \X (1 .. logical[m]))
<1>1. after \in [Members -> Nat] /\ after[m] = n
      /\ \A p \in Members \ {m} : after[p] = logical[p]
  BY SMT
<1>2. ASSUME NEW l \in [Members -> Nat]
      PROVE  \A x : x \in Blocks(l)
                      <=> \E p \in Members : \E k \in 1 .. l[p] : x = <<p, k>>
  BY SMT DEF Blocks
<1>3. Blocks(logical) = Rest \cup ({m} \X (1 .. logical[m]))
  BY <1>2, SMT
<1>4. \A x : x \in Rest <=> \E p \in Members \ {m} : \E k \in 1 .. logical[p] : x = <<p, k>>
  BY <1>2, SMT
<1> HIDE DEF after
<1>5. Blocks(after) = Rest \cup ({m} \X (1 .. n))
  BY <1>1, <1>2, <1>4, SMT
<1>6. IsFiniteSet(Rest)
  BY FiniteBlocks, FS_Difference, Zenon
<1>7. Rest \cap ({m} \X (1 .. logical[m])) = {} /\ Rest \cap ({m} \X (1 .. n)) = {}
  BY <1>4, SMT
<1> HIDE DEF Rest
<1>8. ASSUME NEW k \in Nat, Rest \cap ({m} \X (1 .. k)) = {}
      PROVE  Cardinality(Rest \cup ({m} \X (1 .. k))) = Cardinality(Rest) + k
  <2>1. IsFiniteSet({m} \X (1 .. k)) /\ Cardinality({m} \X (1 .. k)) = k
    BY MemberBlocks, Zenon
  <2>2. Cardinality({}) = 0 /\ Cardinality(Rest) \in Nat
    BY <1>6, FS_EmptySet, FS_CardinalityType, Zenon
  <2>3. Cardinality(Rest \cup ({m} \X (1 .. k)))
          = Cardinality(Rest) + Cardinality({m} \X (1 .. k))
            - Cardinality(Rest \cap ({m} \X (1 .. k)))
    BY <1>6, <2>1, FS_Union, Zenon
  <2>4. Cardinality(Rest \cap ({m} \X (1 .. k))) = 0
    BY <1>8, <2>2, Zenon
  <2> QED BY <2>1, <2>2, <2>3, <2>4, SMT
<1>9. Cardinality(Blocks(logical)) = Cardinality(Rest) + logical[m]
      /\ Cardinality(Blocks(after)) = Cardinality(Rest) + n
  BY <1>3, <1>5, <1>7, <1>8, Zenon
<1>10. Cardinality(Rest) \in Nat /\ logical[m] \in Nat
  BY <1>6, FS_CardinalityType, SMT
<1> QED BY <1>9, <1>10, SMT DEF after

-----------------------------------------------------------------------------
\* The total of an object.

\* Steps that change neither a total nor a recorded length.
Stays == \A p \in Ids : row'[p].bytes = row[p].bytes /\ row'[p].logical = row[p].logical

\* What stays is as exact as before.
LEMMA TotalFrame ==
  ASSUME \A p \in Ids : TotalIsExact(p), Stays
  PROVE  \A p \in Ids : TotalIsExact(p)'
BY Zenon DEF TotalIsExact, Stays

\* An update that leaves the total and the lengths of its row.
LEMMA UpdateStays ==
  ASSUME NEW o \in Ids, NEW r, row \in [Ids -> Row], Update(o, r),
         r.bytes = row[o].bytes, r.logical = row[o].logical
  PROVE  Stays
<1>1. row'[o] = r /\ \A p \in Ids \ {o} : row'[p] = row[p]
  BY Zenon DEF Update
<1> QED BY <1>1, Zenon DEF Stays

\* A new row is exact if its own total is.
LEMMA TotalUpdate ==
  ASSUME NEW o \in Ids, NEW r, row \in [Ids -> Row], Update(o, r),
         \A p \in Ids : TotalIsExact(p), r.bytes = Cardinality(Blocks(r.logical))
  PROVE  \A p \in Ids : TotalIsExact(p)'
<1>1. row'[o] = r /\ \A p \in Ids \ {o} : row'[p] = row[p]
  BY Zenon DEF Update
<1> QED BY <1>1, Zenon DEF TotalIsExact

\* An object that is created has nothing.
LEMMA CreateTotal ==
  ASSUME CollectionInv, \A p \in Ids : TotalIsExact(p), NEW o \in Ids, NEW kind, NEW base,
         Create(o, kind, base)
  PROVE  \A p \in Ids : TotalIsExact(p)'
<1> DEFINE r == [EmptyRow EXCEPT !.state = "preparing", !.kind = kind, !.base = base,
                                 !.resv = "live"]
<1>1. Update(o, r) /\ row \in [Ids -> Row]
  BY Zenon DEF Create, CollectionInv, TypeOK
<1>2. r.bytes = 0 /\ r.logical = [m \in Members |-> 0]
  BY Zenon DEF EmptyRow
<1>3. r.bytes = Cardinality(Blocks(r.logical))
  BY <1>2, NoBlocks, Zenon
<1> QED BY <1>1, <1>3, TotalUpdate, Zenon

\* A sealed member, which had no length before, adds its own.
LEMMA SealMemberTotal ==
  ASSUME CollectionInv, \A p \in Ids : TotalIsExact(p), NEW o \in Ids, NEW m \in Members,
         SealMember(o, m)
  PROVE  \A p \in Ids : TotalIsExact(p)'
<1> DEFINE l == row[o].logical
           r == [row[o] EXCEPT !.open = FALSE, !.kept = row[o].kept \cup {m},
                               !.bytes = row[o].bytes + Size[m],
                               !.logical = [l EXCEPT ![m] = Size[m]]]
<1>1. Update(o, r) /\ row \in [Ids -> Row] /\ m \notin row[o].kept
  BY Zenon DEF SealMember, CollectionInv, TypeOK
<1>2. row[o] \in Row /\ l \in [Members -> Nat] /\ Size[m] \in Nat
  BY <1>1, MembersAssumption, SMT DEF Row
<1>3. l[m] = 0
  BY <1>1, Zenon DEF CollectionInv, RowInv
<1>4. r.bytes = row[o].bytes + Size[m] /\ r.logical = [l EXCEPT ![m] = Size[m]]
  BY <1>2, Zenon DEF Row
<1>5. row[o].bytes = Cardinality(Blocks(l)) /\ Cardinality(Blocks(l)) \in Nat
  BY <1>2, FiniteBlocks, FS_CardinalityType, Zenon DEF TotalIsExact
<1>6. Cardinality(Blocks([l EXCEPT ![m] = Size[m]])) = Cardinality(Blocks(l)) - l[m] + Size[m]
  BY <1>2, BlocksChange, Zenon
<1>7. r.bytes = Cardinality(Blocks(r.logical))
  BY <1>2, <1>3, <1>4, <1>5, <1>6, SMT
<1> QED BY <1>1, <1>7, TotalUpdate, Zenon

\* A credit takes off the total what the member's length has lost.
LEMMA CreditTotal ==
  ASSUME CollectionInv, \A p \in Ids : TotalIsExact(p), Credit
  PROVE  \A p \in Ids : TotalIsExact(p)'
<1> DEFINE o == c.obj
           m == c.member
           l == row[o].logical
           after == disk[o].file[m]
           freed == l[m] - after
           r == [row[o] EXCEPT
                   !.logical = [l EXCEPT ![m] = after],
                   !.pending = [row[o].pending EXCEPT ![m] = None],
                   !.credited = [row[o].credited EXCEPT ![m] = row[o].credited[m] + freed],
                   !.bytes = row[o].bytes - freed,
                   !.kept = IF after = 0 THEN row[o].kept \ {m} ELSE row[o].kept]
<1>1. Update(o, r) /\ row \in [Ids -> Row] /\ o \in Ids /\ m \in Members
  BY SMT DEF Credit, CollectionInv, TypeOK, PassInv
<1>2. row[o] \in Row /\ l \in [Members -> Nat] /\ after \in Nat
  BY <1>1, SMT DEF Row, CollectionInv, TypeOK, Disk
<1>3. r.bytes = row[o].bytes - freed /\ r.logical = [l EXCEPT ![m] = after]
  BY <1>2, Zenon DEF Row
<1>4. row[o].bytes = Cardinality(Blocks(l)) /\ Cardinality(Blocks(l)) \in Nat
  BY <1>1, <1>2, FiniteBlocks, FS_CardinalityType, Zenon DEF TotalIsExact
<1>5. Cardinality(Blocks([l EXCEPT ![m] = after])) = Cardinality(Blocks(l)) - l[m] + after
  BY <1>1, <1>2, BlocksChange, Zenon
<1>6. l[m] \in Nat
  BY <1>1, <1>2, Zenon
<1> HIDE DEF r, l, after, m, o
<1>7. r.bytes = Cardinality(Blocks(r.logical))
  BY <1>2, <1>3, <1>4, <1>5, <1>6, SMT DEF freed
<1> QED BY <1>1, <1>7, TotalUpdate, Zenon

\* A removed object has no member left, so that nothing is forgotten with it.
LEMMA MarkRemovedTotal ==
  ASSUME CollectionInv, \A p \in Ids : TotalIsExact(p), MarkRemoved
  PROVE  \A p \in Ids : TotalIsExact(p)'
<1> DEFINE r == [row[c.obj] EXCEPT !.state = "removed", !.bytes = 0]
<1>1. Update(c.obj, r) /\ row \in [Ids -> Row] /\ c.obj \in Ids /\ row[c.obj].kept = {}
  BY SMT DEF MarkRemoved, CollectionInv, TypeOK, PassInv
<1>2. row[c.obj] \in Row /\ \A m \in Members : row[c.obj].logical[m] = 0
  BY <1>1, Zenon DEF CollectionInv, RowInv
<1>3. r.bytes = 0 /\ r.logical = row[c.obj].logical
  BY <1>2, Zenon DEF Row
<1>4. r.bytes = Cardinality(Blocks(r.logical))
  BY <1>2, <1>3, NoBlocks, Zenon
<1> QED BY <1>1, <1>4, TotalUpdate, Zenon

\* No step that touches a row otherwise touches its account.
LEMMA OtherStays ==
  ASSUME CollectionInv, [Next]_vars,
         \A o \in Ids : /\ ~ CreateGeneration(o) /\ \A g \in Ids : ~ CreateCheckpoint(o, g)
                        /\ \A m \in Members : ~ SealMember(o, m),
         ~ Credit, ~ MarkRemoved
  PROVE  Stays
<1>0. row \in [Ids -> Row] /\ \A o \in Ids : row[o] \in Row
  BY Zenon DEF CollectionInv, TypeOK
<1>1. CASE UNCHANGED row
  BY <1>1, Zenon DEF Stays
<1>2. ASSUME NEW o \in Ids, NEW s, SetState(o, s) PROVE Stays
  <2>1. [row[o] EXCEPT !.state = s].bytes = row[o].bytes
        /\ [row[o] EXCEPT !.state = s].logical = row[o].logical
    BY <1>0, Zenon DEF Row
  <2> QED BY <1>0, <1>2, <2>1, UpdateStays, Zenon DEF SetState
<1>3. ASSUME NEW o \in Ids, Produce(o) PROVE Stays
  <2>1. CASE SealContainer(o)
    <3>1. PICK r : Update(o, r) /\ r = [row[o] EXCEPT !.seal = 1]
      BY <2>1, Zenon DEF SealContainer
    <3>2. r.bytes = row[o].bytes /\ r.logical = row[o].logical
      BY <1>0, <3>1, Zenon DEF Row
    <3> QED BY <1>0, <3>1, <3>2, UpdateStays, Zenon
  <2>2. CASE SealGuard(o)
    <3>1. PICK r : Update(o, r) /\ r = [row[o] EXCEPT !.seal = 2]
      BY <2>2, Zenon DEF SealGuard
    <3>2. r.bytes = row[o].bytes /\ r.logical = row[o].logical
      BY <1>0, <3>1, Zenon DEF Row
    <3> QED BY <1>0, <3>1, <3>2, UpdateStays, Zenon
  <2>3. CASE BeginMember(o)
    <3>1. PICK r : Update(o, r) /\ r = [row[o] EXCEPT !.open = TRUE]
      BY <2>3, Zenon DEF BeginMember
    <3>2. r.bytes = row[o].bytes /\ r.logical = row[o].logical
      BY <1>0, <3>1, Zenon DEF Row
    <3> QED BY <1>0, <3>1, <3>2, UpdateStays, Zenon
  <2>4. CASE Publish(o) \/ Fail(o)
    BY <1>2, <2>4, Zenon DEF Publish, Fail
  <2>5. CASE PublishView(o)
    BY <1>1, <2>5, Zenon DEF PublishView
  <2>6. CASE EndWork(o) \/ Abandon(o)
    <3>1. PICK r : Update(o, r)
                   /\ r = [row[o] EXCEPT !.resv = IF row[o].open THEN "ended" ELSE "none"]
      BY <2>6, Zenon DEF EndWork, Abandon, EndProducer
    <3>2. r.bytes = row[o].bytes /\ r.logical = row[o].logical
      BY <1>0, <3>1, Zenon DEF Row
    <3> QED BY <1>0, <3>1, <3>2, UpdateStays, Zenon
  <2> QED BY <1>3, <2>1, <2>2, <2>3, <2>4, <2>5, <2>6, Zenon DEF Produce
<1>4. ASSUME NEW o \in Ids, Recover(o) PROVE Stays
  <2>1. PICK r : /\ Update(o, r)
                 /\ \/ r = [row[o] EXCEPT !.state = "quarantined", !.resv = "none"]
                    \/ r = [row[o] EXCEPT !.state = "retired", !.resv = "none", !.open = FALSE]
                    \/ r = [row[o] EXCEPT !.resv = "none"]
    BY <1>4, Zenon DEF Recover, RecoverUnsealed, Quarantine, Withdraw, ReleaseReservation
  <2>2. r.bytes = row[o].bytes /\ r.logical = row[o].logical
    BY <1>0, <2>1, Zenon DEF Row
  <2> QED BY <1>0, <2>1, <2>2, UpdateStays, Zenon
<1>5. CASE Advance
  <2>1. c.pc # "idle" => c.obj \in Ids
    BY Zenon DEF CollectionInv, PassInv
  <2>2. CASE Retire \/ MarkPending
    <3>1. c.obj \in Ids
      BY <2>1, <2>2, SMT DEF Retire, MarkPending
    <3> QED BY <1>1, <1>2, <2>2, <3>1, Zenon DEF Retire, MarkPending
  <2>3. ASSUME NEW m \in Members, Journal(m) PROVE Stays
    <3>1. c.obj \in Ids
      BY <2>1, <2>3, SMT DEF Journal
    <3>2. PICK r, n : /\ Update(c.obj, r)
                      /\ r = [row[c.obj] EXCEPT !.pending = [row[c.obj].pending EXCEPT ![m] = n]]
      BY <2>3, Zenon DEF Journal
    <3>3. r.bytes = row[c.obj].bytes /\ r.logical = row[c.obj].logical
      BY <1>0, <3>1, <3>2, Zenon DEF Row
    <3> QED BY <1>0, <3>1, <3>2, <3>3, UpdateStays, Zenon
  <2>4. CASE \/ Judge \/ Io \/ MembersGone \/ RemoveContainer \/ RemoveGuard
             \/ \E m \in Members : Resume(m)
    BY <1>1, <2>4, Zenon DEF Judge, Io, MembersGone, RemoveContainer, RemoveGuard, Resume
  <2> QED BY <1>5, <2>2, <2>3, <2>4, Zenon DEF Advance
<1>6. CASE Crash
  <2>1. ASSUME NEW p \in Ids
        PROVE  row'[p].bytes = row[p].bytes /\ row'[p].logical = row[p].logical
    <3>1. row'[p] = row[p] \/ row'[p] = [row[p] EXCEPT !.resv = "ended"]
      BY <1>6, Zenon DEF Crash
    <3> QED BY <1>0, <3>1, Zenon DEF Row
  <2> QED BY <2>1, Zenon DEF Stays
<1>7. CASE \/ \E o \in Ids : Retain(o) \/ Release(o)
           \/ \E o \in Ids, r \in Readers : Pin(r, o) \/ Close(r, o)
           \/ RetireView
           \/ \E o \in Ids : Lock(o) \/ FinishMissing(o)
           \/ Interrupt \/ UNCHANGED vars
  BY <1>1, <1>7, Zenon DEF Retain, Release, Pin, Close, RetireView, Lock, FinishMissing,
     Interrupt, vars
<1> QED BY <1>3, <1>4, <1>5, <1>6, <1>7, Zenon DEF Next

\* Every step keeps the totals.
LEMMA TotalStep ==
  ASSUME CollectionInv, \A p \in Ids : TotalIsExact(p), [Next]_vars
  PROVE  \A p \in Ids : TotalIsExact(p)'
<1>1. CASE \E o \in Ids : CreateGeneration(o) \/ \E g \in Ids : CreateCheckpoint(o, g)
  BY <1>1, CreateTotal, Zenon DEF CreateGeneration, CreateCheckpoint
<1>2. CASE \E o \in Ids, m \in Members : SealMember(o, m)
  BY <1>2, SealMemberTotal, Zenon
<1>3. CASE Credit \/ MarkRemoved
  BY <1>3, CreditTotal, MarkRemovedTotal, Zenon
<1> QED BY <1>1, <1>2, <1>3, OtherStays, TotalFrame, Zenon

\* The catalog's account is exact at every interruption of a deletion, for any
\* number of members and of any sizes: member by member, and the total as well,
\* which deletion lowers by what it credits (delete_member) and the removal of
\* the object sets to zero.
THEOREM CreditSafe == Spec => []CreditIsExact
<1> DEFINE I == CollectionInv /\ \A o \in Ids : TotalIsExact(o)
<1>1. Init => I
  <2> SUFFICES ASSUME Init PROVE I
    OBVIOUS
  <2>1. \A o \in Ids : row[o] = EmptyRow
    BY Zenon DEF Init
  <2>2. EmptyRow.bytes = 0 /\ EmptyRow.logical = [m \in Members |-> 0]
    BY Zenon DEF EmptyRow
  <2>3. Cardinality(Blocks([m \in Members |-> 0])) = 0
    BY NoBlocks, Zenon
  <2>4. \A o \in Ids : TotalIsExact(o)
    BY <2>1, <2>2, <2>3, Zenon DEF TotalIsExact
  <2> QED BY <2>4, InitInv
<1>2. I /\ [Next]_vars => I'
  BY NextInv, TotalStep, Zenon
<1>3. I => CreditIsExact
  BY Zenon DEF CollectionInv, CreditIsExact
<1> HIDE DEF I
<1> QED BY <1>1, <1>2, <1>3, PTL DEF Spec

=============================================================================
