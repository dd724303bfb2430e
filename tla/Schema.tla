------------------------------- MODULE Schema -------------------------------
(***************************************************************************)
(* What the migrator promises: the database goes through the migrations one *)
(* by one, each applied whole, once, and in the order of the file names,    *)
(* however many gateways start, fail and die.  Only `applied` is seen.      *)
(***************************************************************************)
EXTENDS Naturals, Sequences

CONSTANT Last    \* the migrations are 1..Last

VARIABLE applied

Init == applied = <<>>

ApplyNext ==
  /\ Len(applied) < Last
  /\ applied' = Append(applied, Len(applied) + 1)

Spec == Init /\ [][ApplyNext]_applied
=============================================================================
