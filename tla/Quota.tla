------------------------------- MODULE Quota -------------------------------
(***************************************************************************)
(* The token counter of internal/quota/quota.go, as operators on a key's    *)
(* usage [daily, monthly].  A key without an entry has used nothing.        *)
(***************************************************************************)
EXTENDS Integers

NoUsage == [daily |-> 0, monthly |-> 0]

\* Wrong on purpose: any quota that is left is enough.
FitsAnything(limit, used, estimated) == limit > 0 => limit - used >= 0

\* A limit of 0 or less is no limit.
Fits(limit, used, estimated) == limit > 0 => limit - used >= estimated

\* Allow: a comparison; nothing is set aside for the request.
QuotaAllows(use, daily, monthly, estimated) ==
  Fits(daily, use.daily, estimated) /\ Fits(monthly, use.monthly, estimated)

\* Wrong on purpose: a request replaces the day's usage.
AfterRecordReplaces(use, tokens) ==
  [daily |-> tokens, monthly |-> use.monthly + tokens]

\* Wrong on purpose: usage counts down.
AfterRecordCountsDown(use, tokens) ==
  [daily |-> use.daily - tokens, monthly |-> use.monthly - tokens]

\* Record: both counters, neither of which is ever reset.
AfterRecord(use, tokens) ==
  [daily |-> use.daily + tokens, monthly |-> use.monthly + tokens]
=============================================================================
