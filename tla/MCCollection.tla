---------------------------- MODULE MCCollection ----------------------------
(* Instances of Collection for TLC. *)
EXTENDS Collection

CONSTANTS data, header, peer, view

MCMembers == {data, header}
MCSize == [m \in MCMembers |-> IF m = data THEN 2 ELSE 1]
=============================================================================
