------------------------------- MODULE IndexStore -------------------------------
(***************************************************************************)
(* What a published index promises: one build at a time, replaced at once  *)
(* by a later one, which is still there after any failure; and a server    *)
(* that answers from it.  IndexPublication implements it.                  *)
(***************************************************************************)
EXTENDS Integers

CONSTANT Nothing      \* the server has no index open

VARIABLES
    index,            \* the build in the directory
    serving           \* the build the server answers from

Init == index = 0 /\ serving = Nothing

\* Only a server that is up to date publishes, and builds only go forward.
Commit ==
    /\ serving = index
    /\ index' \in Int /\ index < index'
    /\ UNCHANGED serving

\* At the start, or after a commit.
Open == serving' = index /\ UNCHANGED index

Close == serving' = Nothing /\ UNCHANGED index

Next == Commit \/ Open \/ Close

Spec == Init /\ [][Next]_<<index, serving>>
=============================================================================
