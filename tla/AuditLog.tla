------------------------------ MODULE AuditLog ------------------------------
(***************************************************************************)
(* audit.MemoryStore (internal/audit/audit.go): a slice of the newest       *)
(* events, oldest first.  Log runs under the store's lock; what it redacts  *)
(* and when an event was stamped are left out.                              *)
(***************************************************************************)
EXTENDS Integers, Sequences

CONSTANT MaxEvents

ASSUME AuditAssumption == MaxEvents \in Nat \ {0}

\* Wrong on purpose: at its limit the log drops the newest event.
LoggedAtTheFront(events, e) ==
  LET all == Append(events, e)
  IN  IF Len(all) > MaxEvents THEN SubSeq(all, 1, MaxEvents) ELSE all

\* Wrong on purpose: the comparison lets one event too many stay.
LoggedOneOver(events, e) ==
  LET all == Append(events, e)
  IN  IF Len(all) > MaxEvents + 1 THEN SubSeq(all, Len(all) - MaxEvents, Len(all)) ELSE all

\* Log: appends, and drops the oldest if there are too many now.
Logged(events, e) ==
  LET all == Append(events, e)
  IN  IF Len(all) > MaxEvents THEN SubSeq(all, Len(all) - MaxEvents + 1, Len(all)) ELSE all

\* What the store promises to keep of all the events that were logged.
Newest(all) ==
  LET kept == IF Len(all) < MaxEvents THEN Len(all) ELSE MaxEvents
  IN  SubSeq(all, Len(all) - kept + 1, Len(all))
=============================================================================
