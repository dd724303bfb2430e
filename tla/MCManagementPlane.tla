------------------------- MODULE MCManagementPlane -------------------------
(* Small instances of ManagementPlane that TLC explores.                    *)
EXTENDS ManagementPlane, TLC

CONSTANTS host, port

HostThenPort == <<host, port>>

Symmetry == Permutations(Admins) \cup Permutations(Values)
=============================================================================
