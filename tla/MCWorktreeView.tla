--------------------------- MODULE MCWorktreeView ---------------------------
(* Instances of WorktreeView for TLC. *)
EXTENDS WorktreeViewInvariant

CONSTANTS p1, p2, a, b

MCPaths == {p1, p2}
MCOnePath == {p1}
MCContents == {a, b}
MCOneContent == {a}

\* p1 is in the base, p2 is new to the checkout.
MCBase == [p \in Paths |-> IF p = p1 THEN a ELSE NoContent]
=============================================================================
