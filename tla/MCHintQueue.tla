----------------------------- MODULE MCHintQueue -----------------------------
(***************************************************************************)
(* HintQueue on a small tree: three directories, three levels, names in    *)
(* two cases and names that are not ASCII.                                 *)
(***************************************************************************)
EXTENDS HintQueue

CONSTANTS a, A, b, c, u, v    \* A is a's other case; u and v are not ASCII

MCNames == {a, A, b, c, u, v}
MCWide == {u, v}
MCLower == [n \in MCNames |-> IF n = A THEN a ELSE n]
MCFiles == {<<a, a, b>>, <<a, A, a>>, <<a, b>>, <<b, a>>, <<b, u>>, <<c>>}
MCReports ==
    MCFiles \cup {<<a>>, <<A, a>>, <<a, a, A>>, <<b, v>>, <<u>>}
=============================================================================
