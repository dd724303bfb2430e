------------------------------- MODULE Policy -------------------------------
(***************************************************************************)
(* The decision of internal/policy/engine.go, as an operator.  A list of    *)
(* patterns is a set; names that EqualFold calls equal are one name.        *)
(***************************************************************************)

\* A pattern list covers a name if it holds the name or the wildcard.
Covers(patterns, name) == name \in patterns \/ "*" \in patterns

\* Global deny, then the key's deny list, then its allow list if it has one.
Decision(globallyDenied, denied, allowed, name) ==
  CASE Covers(globallyDenied, name)                -> "GLOBAL_DENIED"
    [] /\ ~Covers(globallyDenied, name)
       /\ Covers(denied, name)                     -> "DENIED"
    [] /\ ~Covers(globallyDenied, name)
       /\ ~Covers(denied, name)
       /\ allowed # {} /\ ~Covers(allowed, name)   -> "NOT_ALLOWED"
    [] OTHER                                       -> "ALLOWED"

\* EvaluateModel for an authenticated key.
EvaluateModel(globalDeny, key, model) ==
  Decision(globalDeny, key.denied, key.allowed, model)
=============================================================================
