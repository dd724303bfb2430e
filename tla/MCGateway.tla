----------------------------- MODULE MCGateway -----------------------------
(* Small instances of Gateway that TLC explores.                            *)
EXTENDS Gateway

CONSTANTS g1, g2, c1
=============================================================================
