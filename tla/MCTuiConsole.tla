---------------------------- MODULE MCTuiConsole ----------------------------
(* Small instances of TuiConsole that TLC explores.                         *)
EXTENDS TuiConsole

KeysThenRouting == <<"KEYS", "ROUTING">>
OneEach == [t \in {"KEYS", "ROUTING"} |-> {1}]
JustRouting == <<"ROUTING">>
TwoRoutes == [t \in {"ROUTING"} |-> {1, 2}]
=============================================================================
