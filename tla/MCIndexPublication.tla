------------------------- MODULE MCIndexPublication -------------------------
(***************************************************************************)
(* IndexPublication over two or three publications and a few faults.       *)
(***************************************************************************)
EXTENDS IndexPublicationInvariant

Kills == {"kill"}
AllFaults == {"kill", "error", "sync"}
=============================================================================
