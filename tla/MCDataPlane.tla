---------------------------- MODULE MCDataPlane ----------------------------
(* Small instances of DataPlane that TLC explores.                          *)
EXTENDS DataPlaneProperties, TLC

CONSTANTS m1, m2, coding, k1

OneKey == {k1}
TwoModels == {m1, m2}
OneAlias == {coding}

\* A key without limits, one with every limit, and a disabled one.
Unlimited ==
  [enabled |-> TRUE, denied |-> {}, allowed |-> {}, rpm |-> 0, daily |-> 0, monthly |-> 0]
Limited ==
  [enabled |-> TRUE, denied |-> {m1}, allowed |-> {"*"}, rpm |-> 1, daily |-> 2, monthly |-> 1]
Disabled == [Unlimited EXCEPT !.enabled = FALSE]

Fallback == {<<m1, m2>>}
BothModels == {<<m1, m2>>}
NoDenyList == {{}}
SomeDenyLists == {{}, {m2}}
FallbackDenied == {{m2}}
JustUnlimited == {Unlimited}
LimitedOrDisabled == {Limited, Disabled}
AskAlias == {coding}
AskAny == {coding, m2}

\* Where no property is about liveness, requests are interchangeable.
Symmetry == Permutations(Requests)
=============================================================================
