------------------------- MODULE ViewSlotInvariant -------------------------
(***************************************************************************)
(* The inductive invariant of ViewSlot.  RowInv is about the row of a      *)
(* leased view; FreshInv about what the instances know of the checkout and *)
(* about the publication that is served, unless an attachment saved a row  *)
(* that was out of date.                                                   *)
(***************************************************************************)
EXTENDS ViewSlot

-----------------------------------------------------------------------------
\* The catalog's row.

\* A view with a slot, a lease or an attachment has a row.
VersionInv ==
  slot.installed \/ Counted # {} \/ row.active \/ att.stage = "saved" => row.version # 0

\* An attachment joins the row it read as an active one.
ReadInv ==
  att.stage = "read" => att.row.version # 0 /\ (row.version # 0 => att.row.active)

\* The inactive row a job has read stays so, unless an attachment overtook.
WorkInv ==
  ~ overtaken /\ job.stage \notin {"idle", "done"} /\ ~ job.active
    => ~ row.active /\ row.version # 0

\* The row an attachment is about to save has the version of the fixed leases.
PinInv ==
  att.stage = "read" => \A l \in Counted \cap Fixed : att.row.version = leases[l].version

RowInv == VersionInv /\ ReadInv /\ WorkInv /\ PinInv /\ FixedPinKept /\ LeasedIsActive

-----------------------------------------------------------------------------
\* Who holds an instance.

\* Only an installed slot has work, queries and a view; an instance nobody
\* holds is as new.
HolderInv ==
  /\ Working \/ query # NoQuery \/ slot.current.inst # NoView \/ slot.draining
     => slot.installed
  /\ query # NoQuery => query.inst \in Instances
  /\ \A i \in Instances : i \in {slot.current.inst, job.inst, query.inst} \/ view[i] = NewView

\* A job that prepares a view has it told of invalidations.  Its slot may be
\* drained under it, but then the row is retired and it will not publish.
Preparing == job.stage \in {"input", "begin", "read", "end", "ready"}

ToldInv ==
  /\ Preparing => job.inst \in Told \/ ~ row.active
  /\ slot.draining => ~ row.active

-----------------------------------------------------------------------------
\* Numbers of passes, and input epochs.

\* A pass is later than whatever was published or read before it.
PassInv ==
  /\ {row.pass, att.row.pass, slot.current.pass, query.pass} \subseteq 0 .. passes
  /\ job.stage \in {"read", "end", "ready"} =>
       /\ job.pass \in 1 .. passes
       /\ {row.pass, att.row.pass, slot.current.pass, query.pass} \subseteq 0 .. job.pass - 1
  /\ job.stage = "ready" => view[job.inst].pass = job.pass

\* No input epoch is later than the slot's, and the row's is the latest that
\* was published.
InputInv ==
  /\ slot.installed => row.input <= slot.epoch
  /\ att.stage # "idle" => att.row.input <= row.input
  /\ att.stage = "saved" /\ ~ slot.installed => att.row.input = row.input
  /\ job.stage \in {"begin", "read", "end", "ready"} =>
       row.input <= job.input /\ job.input <= slot.epoch
  /\ slot.current.inst # NoView => slot.current.input <= slot.epoch
  /\ query # NoQuery => query.epoch <= slot.epoch

\* The publication whose gate is open is the catalog's, also once the row an
\* attachment has saved is made current.
GateInv ==
  /\ ~ eventual /\ slot.current.inst # NoView
     /\ view[slot.current.inst].pass = slot.current.pass
     /\ slot.current.input = slot.epoch
     => Authoritative
  /\ ~ eventual /\ att.stage = "saved" /\ slot.current.inst # NoView
     /\ att.row.version = slot.current.version
     /\ view[slot.current.inst].pass = att.row.pass /\ att.row.input = slot.epoch
     => att.row.version = row.version /\ att.row.pass = row.pass

-----------------------------------------------------------------------------
\* What an instance knows of the files.

Reading(i) == job.inst = i /\ job.stage \in {"read", "end"}

\* A change that was announced since the pass began will be read by another.
News(i, f) == IF eventual THEN f \in view[i].owed ELSE view[i].moved

\* What the pass will have of a file when it ends.
Gets(i, f) == IF f \notin job.take THEN view[i].content[f] >= heard[f]
              ELSE job.stage = "end" => job.seen[f] >= heard[f]

Knows(i) ==
  /\ view[i].ready => view[i].owed = {} /\ ~ Reading(i)
  /\ ~ Reading(i) => \A f \in Files : f \in view[i].owed \/ view[i].content[f] >= heard[f]
  /\ Reading(i) => \A f \in Files : News(i, f) \/ Gets(i, f)
  /\ Reading(i) => IF eventual THEN view[i].moved \/ view[i].owed = {}
                   ELSE view[i].owed = Files

KnownInv ==
  /\ \A f \in Files : heard[f] <= disk[f]
  /\ \A i \in Told : Knows(i)

QueryInv == query # NoQuery /\ ~ eventual /\ Valid => UpToDate(query.inst)

FreshInv ==
  ~ overtaken => ToldInv /\ InputInv /\ GateInv /\ KnownInv /\ QueryInv
=============================================================================
