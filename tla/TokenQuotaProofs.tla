-------------------------- MODULE TokenQuotaProofs --------------------------
(***************************************************************************)
(* Proofs about TokenQuota, for any number of requests and keys, estimates  *)
(* and limits of any size, and limits that change at any time.              *)
(***************************************************************************)
EXTENDS TokenQuota, FiniteSetTheorems, TLAPS

\* A key's usage is a function of the period.
LEMMA UsageByPeriod ==
  ASSUME NEW use \in [Periods -> Nat], NEW tokens \in Nat
  PROVE  /\ AfterRecord(use, tokens) \in [Periods -> Nat]
         /\ \A p \in Periods : AfterRecord(use, tokens)[p] = use[p] + tokens
<1>1. use.daily \in Nat /\ use.monthly \in Nat
  BY DEF Periods
<1> QED
  BY <1>1 DEF AfterRecord, Periods

LEMMA NothingUsed == NoUsage \in [Periods -> Nat]
BY DEF NoUsage, Periods

LEMMA TypeInit == Init => TypeOK
<1> SUFFICES ASSUME Init PROVE TypeOK
  OBVIOUS
<1>1. usage \in [Keys -> [Periods -> Nat]]
  BY NothingUsed DEF Init
<1>2. DOMAIN limits \subseteq Keys /\ limits \in [DOMAIN limits -> [Periods -> Limits]]
  BY DEF Init
<1>3. req \in [Requests -> Handlers \cup {Idle}]
  BY DEF Init
<1> QED
  BY <1>1, <1>2, <1>3 DEF TypeOK

LEMMA TypeNext == TypeOK /\ [Next]_vars => TypeOK'
<1> SUFFICES ASSUME TypeOK, [Next]_vars PROVE TypeOK'
  OBVIOUS
<1> USE DEF TypeOK
<1>1. ASSUME NEW r \in Requests, NEW k \in Keys, Authenticate(r, k) PROVE TypeOK'
  <2>1. [pc |-> "arrived", key |-> k, seen |-> limits[k]] \in Handlers
    BY <1>1 DEF Authenticate, Handlers
  <2> QED
    BY <1>1, <2>1 DEF Authenticate
<1>2. ASSUME NEW r \in Requests, NEW tokens \in Estimates, Admit(r, tokens) PROVE TypeOK'
  <2>1. req[r].key \in Keys
    BY <1>2 DEF Admit, Handlers, Idle
  <2>2. [pc |-> "admitted", key |-> req[r].key, tokens |-> tokens] \in Handlers
    BY <2>1 DEF Handlers
  <2> QED
    BY <1>2, <2>2 DEF Admit
<1>3. ASSUME NEW r \in Requests, NEW tokens \in Estimates, Refuse(r, tokens) PROVE TypeOK'
  BY <1>3 DEF Refuse
<1>4. ASSUME NEW r \in Requests, TurnAway(r) \/ GiveUp(r) PROVE TypeOK'
  BY <1>4 DEF TurnAway, GiveUp
<1>5. ASSUME NEW r \in Requests, Settle(r) PROVE TypeOK'
  <2>1. req[r].key \in Keys /\ req[r].tokens \in Nat
    BY <1>5, QuotaAssumption DEF Settle, Handlers, Idle
  <2>2. AfterRecord(usage[req[r].key], req[r].tokens) \in [Periods -> Nat]
    BY <2>1, UsageByPeriod
  <2> QED
    BY <1>5, <2>2 DEF Settle
<1>6. ASSUME NEW k \in Keys, NEW new \in [Periods -> Limits], UpdateKey(k, new) PROVE TypeOK'
  BY <1>6 DEF UpdateKey
<1>7. ASSUME NEW k \in Keys, DeleteKey(k) PROVE TypeOK'
  BY <1>7 DEF DeleteKey
<1>8. CASE UNCHANGED vars
  BY <1>8 DEF vars
<1> QED
  BY <1>1, <1>2, <1>3, <1>4, <1>5, <1>6, <1>7, <1>8 DEF Next

(***************************************************************************)
(* The store, the limits and the handlers keep their types: usage is never  *)
(* negative, whatever is recorded, in whichever order (quota.go:54).        *)
(***************************************************************************)
THEOREM TypeCorrect == Spec => []TypeOK
  BY TypeInit, TypeNext, PTL DEF Spec

-----------------------------------------------------------------------------

\* The tokens that request r may be charged, one by one.
Tokens(r) == {r} \X (1..req[r].tokens)

LEMMA TokensArePending ==
  ASSUME NEW k, NEW r \in InFlight(k)
  PROVE  Tokens(r) \subseteq Pending(k)
BY DEF Tokens, Pending

LEMMA LargestIsLargest ==
  LargestEstimate \in Nat /\ \A n \in Estimates : n <= LargestEstimate
BY QuotaAssumption DEF LargestEstimate

LEMMA TokensOfOne ==
  ASSUME NEW r, NEW n \in Nat
  PROVE  IsFiniteSet({r} \X (1..n)) /\ Cardinality({r} \X (1..n)) = n
<1>1. IsFiniteSet(1..n) /\ Cardinality(1..n) = n
  BY FS_Interval
<1>2. IsFiniteSet({r}) /\ Cardinality({r}) = 1
  BY FS_Singleton
<1> QED
  BY <1>1, <1>2, FS_Product

\* What is pending is finite: at most the largest estimate for each request in flight.
LEMMA PendingBound ==
  ASSUME TypeOK, NEW k \in Keys
  PROVE  /\ IsFiniteSet(InFlight(k)) /\ Cardinality(InFlight(k)) \in Nat
         /\ IsFiniteSet(Pending(k)) /\ Cardinality(Pending(k)) \in Nat
         /\ Cardinality(Pending(k)) <= Cardinality(InFlight(k)) * LargestEstimate
<1> DEFINE all == InFlight(k) \X (1..LargestEstimate)
<1>1. InFlight(k) \in SUBSET Requests
  BY DEF InFlight
<1>2. IsFiniteSet(InFlight(k)) /\ Cardinality(InFlight(k)) \in Nat
  BY <1>1, QuotaAssumption, FS_Subset, FS_CardinalityType
<1>3. IsFiniteSet(1..LargestEstimate) /\ Cardinality(1..LargestEstimate) = LargestEstimate
  BY LargestIsLargest, FS_Interval
<1>4. IsFiniteSet(all) /\ Cardinality(all) = Cardinality(InFlight(k)) * LargestEstimate
  BY <1>2, <1>3, FS_Product
<1>5. Pending(k) \in SUBSET all
  <2>1. ASSUME NEW r \in InFlight(k) PROVE 1..req[r].tokens \subseteq 1..LargestEstimate
    <3>1. req[r].tokens \in Estimates
      BY DEF InFlight, TypeOK, Handlers, Idle
    <3>2. req[r].tokens \in Nat /\ req[r].tokens <= LargestEstimate /\ LargestEstimate \in Nat
      BY <3>1, LargestIsLargest, QuotaAssumption
    <3> QED
      BY <3>2
  <2> QED
    BY <2>1 DEF Pending
<1> HIDE DEF all
<1>6. IsFiniteSet(Pending(k)) /\ Cardinality(Pending(k)) <= Cardinality(all)
  BY <1>4, <1>5, FS_Subset
<1> QED
  BY <1>2, <1>4, <1>6, FS_CardinalityType

\* A step that lets nobody pass, and charges nobody, commits nothing new.
LEMMA NobodyPasses ==
  ASSUME TypeOK, usage' = usage, NEW k \in Keys, NEW p \in Periods,
         \A r \in InFlight(k)' : r \in InFlight(k) /\ req'[r] = req[r]
  PROVE  ~(Committed(k, p)' > Committed(k, p))
<1>1. Pending(k)' \in SUBSET Pending(k)
  BY DEF Pending
<1>2. /\ Cardinality(Pending(k)') <= Cardinality(Pending(k))
      /\ Cardinality(Pending(k)') \in Nat /\ Cardinality(Pending(k)) \in Nat
  BY <1>1, PendingBound, FS_Subset, FS_CardinalityType
<1>3. usage[k][p] \in Nat
  BY DEF TypeOK
<1> QED
  BY <1>2, <1>3 DEF Committed

\* A request that is charged takes its tokens from what is pending.
LEMMA SettlesWhatIsPending ==
  ASSUME TypeOK, NEW s \in Requests, Settle(s), NEW k \in Keys, NEW p \in Periods
  PROVE  ~(Committed(k, p)' > Committed(k, p))
<1>1. /\ req[s].key \in Keys /\ req[s].tokens \in Nat
      /\ \A r \in Requests : req'[r] = IF r = s THEN Idle ELSE req[r]
  BY QuotaAssumption DEF Settle, TypeOK, Handlers, Idle
<1>2. /\ Cardinality(Pending(k)) \in Nat /\ IsFiniteSet(Pending(k))
      /\ usage[k][p] \in Nat
  BY PendingBound DEF TypeOK
<1>3. CASE k = req[s].key
  <2>1. InFlight(k)' = InFlight(k) \ {s} /\ s \in InFlight(k)
    BY <1>1, <1>3 DEF InFlight, Idle, Settle
  <2>2. Pending(k)' \in SUBSET (Pending(k) \ Tokens(s)) /\ Tokens(s) \subseteq Pending(k)
    <3>1. Tokens(s) \subseteq Pending(k)
      BY <2>1, TokensArePending
    <3>2. ASSUME NEW u \in Pending(k)' PROVE u \in Pending(k) /\ u \notin Tokens(s)
      <4>1. PICK r \in InFlight(k)' : u \in {r} \X (1..req'[r].tokens)
        BY DEF Pending
      <4>2. r \in InFlight(k) /\ r # s /\ req'[r] = req[r]
        BY <1>1, <2>1, <4>1 DEF InFlight
      <4>3. u \in Tokens(r) /\ u \notin Tokens(s)
        BY <4>1, <4>2 DEF Tokens
      <4> QED
        BY <4>2, <4>3, TokensArePending
    <3> QED
      BY <3>1, <3>2
  <2>3. Cardinality(Tokens(s)) = req[s].tokens
    BY <1>1, TokensOfOne DEF Tokens
  <2>4. /\ IsFiniteSet(Pending(k) \ Tokens(s))
        /\ Cardinality(Pending(k) \ Tokens(s)) = Cardinality(Pending(k)) - req[s].tokens
    <3>1. Pending(k) \cap Tokens(s) = Tokens(s)
      BY <2>2
    <3>2. /\ IsFiniteSet(Pending(k) \ Tokens(s))
          /\ Cardinality(Pending(k) \ Tokens(s)) =
               Cardinality(Pending(k)) - Cardinality(Pending(k) \cap Tokens(s))
      BY <1>2, FS_Difference
    <3> QED
      BY <2>3, <3>1, <3>2
  <2>5. /\ Cardinality(Pending(k)') <= Cardinality(Pending(k)) - req[s].tokens
        /\ Cardinality(Pending(k)') \in Nat
    BY <2>2, <2>4, FS_Subset, FS_CardinalityType
  <2>6. usage'[k][p] = usage[k][p] + req[s].tokens
    BY <1>1, <1>3, UsageByPeriod DEF Settle, TypeOK
  <2> QED
    BY <1>1, <1>2, <2>5, <2>6 DEF Committed
<1>4. CASE k # req[s].key
  <2>1. \A r \in InFlight(k)' : r \in InFlight(k) /\ req'[r] = req[r]
    BY <1>1 DEF InFlight, Idle
  <2>2. usage'[k] = usage[k]
    BY <1>4 DEF Settle, TypeOK
  <2>3. Pending(k)' \in SUBSET Pending(k)
    BY <2>1 DEF Pending
  <2>4. /\ Cardinality(Pending(k)') <= Cardinality(Pending(k))
        /\ Cardinality(Pending(k)') \in Nat
    BY <1>2, <2>3, FS_Subset, FS_CardinalityType
  <2> QED
    BY <1>2, <2>2, <2>4 DEF Committed
<1> QED
  BY <1>3, <1>4

\* A request that passes fits, but for the others in flight.
LEMMA PassesIfItFits ==
  ASSUME TypeOK, NEW s \in Requests, NEW tokens \in Estimates, Admit(s, tokens),
         NEW k \in Keys, NEW p \in Periods, Committed(k, p)' > Committed(k, p)
  PROVE  /\ Admitted(s, k)
         /\ req[s].seen[p] > 0 =>
              Committed(k, p)' <= req[s].seen[p] + Cardinality(InFlight(k)) * LargestEstimate
<1>1. /\ tokens \in Nat
      /\ \A r \in Requests :
           req'[r] = IF r = s THEN [pc |-> "admitted", key |-> req[s].key, tokens |-> tokens]
                              ELSE req[r]
  BY QuotaAssumption DEF Admit, TypeOK
<1>2. k = req[s].key
  <2> SUFFICES ASSUME k # req[s].key PROVE FALSE
    OBVIOUS
  <2>1. \A r \in InFlight(k)' : r \in InFlight(k) /\ req'[r] = req[r]
    BY <1>1 DEF InFlight
  <2>2. usage' = usage
    BY DEF Admit
  <2> QED
    BY <2>1, <2>2, NobodyPasses
<1>3. Admitted(s, k)
  BY <1>1, <1>2 DEF Admitted, Admit
<1>4. InFlight(k)' = InFlight(k) \cup {s} /\ s \notin InFlight(k)
  BY <1>1, <1>2 DEF InFlight, Admit
<1>5. Pending(k)' = Pending(k) \cup ({s} \X (1..tokens))
  <2>1. ASSUME NEW u PROVE u \in Pending(k)' <=> u \in Pending(k) \/ u \in {s} \X (1..tokens)
    <3>1. u \in Pending(k)' <=> \E r \in InFlight(k)' : u \in {r} \X (1..req'[r].tokens)
      BY DEF Pending
    <3>2. req'[s].tokens = tokens /\ \A r \in InFlight(k) : req'[r] = req[r]
      BY <1>1, <1>4 DEF InFlight
    <3>3. u \in Pending(k) <=> \E r \in InFlight(k) : u \in {r} \X (1..req[r].tokens)
      BY DEF Pending
    <3> QED
      BY <1>4, <3>1, <3>2, <3>3
  <2> QED
    BY <2>1
<1>6. /\ IsFiniteSet(Pending(k)) /\ Cardinality(Pending(k)) \in Nat
      /\ Cardinality(Pending(k)) <= Cardinality(InFlight(k)) * LargestEstimate
      /\ Cardinality(InFlight(k)) \in Nat
  BY PendingBound
<1>7. Cardinality(Pending(k)') = Cardinality(Pending(k)) + tokens
  <2>1. Pending(k) \cap ({s} \X (1..tokens)) = {}
    BY <1>4 DEF Pending
  <2>2. Cardinality({}) = 0
    BY FS_EmptySet
  <2>3. IsFiniteSet({s} \X (1..tokens)) /\ Cardinality({s} \X (1..tokens)) = tokens
    BY <1>1, TokensOfOne
  <2>4. Cardinality(Pending(k) \cup ({s} \X (1..tokens))) =
          Cardinality(Pending(k)) + Cardinality({s} \X (1..tokens))
            - Cardinality(Pending(k) \cap ({s} \X (1..tokens)))
    BY <1>6, <2>3, FS_Union
  <2>5. Cardinality(Pending(k) \cap ({s} \X (1..tokens))) = 0
    BY <2>1, <2>2
  <2>6. Cardinality(Pending(k)') = Cardinality(Pending(k) \cup ({s} \X (1..tokens)))
    BY <1>5
  <2> QED
    BY <1>1, <1>6, <2>3, <2>4, <2>5, <2>6
<1>8. usage' = usage /\ usage[k][p] \in Nat
  BY DEF Admit, TypeOK
<1>9. ASSUME req[s].seen[p] > 0 PROVE usage[k][p] + tokens <= req[s].seen[p]
  <2>1. req[s].seen \in [Periods -> Nat]
    BY QuotaAssumption DEF Admit, TypeOK, Handlers, Idle
  <2>2. Fits(req[s].seen[p], usage[k][p], tokens)
    BY <1>2 DEF Admit, QuotaAllows, Periods
  <2> QED
    BY <1>1, <1>8, <1>9, <2>1, <2>2 DEF Fits
<1>10. LargestEstimate \in Nat
  BY LargestIsLargest
<1>11. req[s].seen[p] > 0 =>
         Committed(k, p)' <= req[s].seen[p] + Cardinality(InFlight(k)) * LargestEstimate
  <2> DEFINE more == Cardinality(InFlight(k)) * LargestEstimate
  <2>1. more \in Nat /\ Cardinality(Pending(k)) <= more
    BY <1>6, <1>10
  <2>2. Committed(k, p)' = usage[k][p] + Cardinality(Pending(k)) + tokens
    BY <1>1, <1>6, <1>7, <1>8 DEF Committed
  <2>3. req[s].seen[p] \in Nat
    BY QuotaAssumption DEF Admit, TypeOK, Handlers, Idle
  <2> HIDE DEF more
  <2>4. req[s].seen[p] > 0 => Committed(k, p)' <= req[s].seen[p] + more
    BY <1>1, <1>6, <1>8, <1>9, <2>1, <2>2, <2>3
  <2> QED
    BY <2>4 DEF more
<1> QED
  BY <1>3, <1>11

OvershootStep ==
  \A k \in Keys, p \in Periods : Committed(k, p)' > Committed(k, p) =>
    \E r \in Requests :
      /\ Admitted(r, k)
      /\ req[r].seen[p] > 0 =>
           Committed(k, p)' <= req[r].seen[p] + Cardinality(InFlight(k)) * LargestEstimate

LEMMA OvershootNext == TypeOK /\ [Next]_vars => [OvershootStep]_vars
<1> SUFFICES ASSUME TypeOK, Next, NEW k \in Keys, NEW p \in Periods,
                    Committed(k, p)' > Committed(k, p)
             PROVE  \E r \in Requests :
                      /\ Admitted(r, k)
                      /\ req[r].seen[p] > 0 =>
                           Committed(k, p)' <=
                             req[r].seen[p] + Cardinality(InFlight(k)) * LargestEstimate
  BY DEF OvershootStep
<1>1. ASSUME NEW s \in Requests, NEW tokens \in Estimates, Admit(s, tokens)
      PROVE  \E r \in Requests :
               /\ Admitted(r, k)
               /\ req[r].seen[p] > 0 =>
                    Committed(k, p)' <=
                      req[r].seen[p] + Cardinality(InFlight(k)) * LargestEstimate
  BY <1>1, PassesIfItFits
<1>2. ASSUME NEW s \in Requests, Settle(s) PROVE FALSE
  BY <1>2, SettlesWhatIsPending
<1>3. ASSUME NEW s \in Requests, NEW h, h.pc # "admitted", req' = [req EXCEPT ![s] = h],
             usage' = usage
      PROVE  FALSE
  <2>1. \A r \in InFlight(k)' : r \in InFlight(k) /\ req'[r] = req[r]
    BY <1>3 DEF InFlight, TypeOK
  <2> QED
    BY <1>3, <2>1, NobodyPasses
<1>4. ASSUME NEW s \in Requests, NEW j \in Keys, Authenticate(s, j) PROVE FALSE
  <2> DEFINE h == [pc |-> "arrived", key |-> j, seen |-> limits[j]]
  <2>1. h.pc # "admitted" /\ req' = [req EXCEPT ![s] = h] /\ usage' = usage
    BY <1>4 DEF Authenticate
  <2> QED
    BY <1>3, <2>1
<1>5. Idle.pc # "admitted"
  BY DEF Idle
<1>6. ASSUME NEW s \in Requests, NEW tokens \in Estimates, Refuse(s, tokens) PROVE FALSE
  BY <1>3, <1>5, <1>6 DEF Refuse
<1>7. ASSUME NEW s \in Requests, TurnAway(s) \/ GiveUp(s) PROVE FALSE
  BY <1>3, <1>5, <1>7 DEF TurnAway, GiveUp
<1>8. ASSUME UNCHANGED <<usage, req>> PROVE FALSE
  <2>1. \A r \in InFlight(k)' : r \in InFlight(k) /\ req'[r] = req[r]
    BY <1>8 DEF InFlight
  <2> QED
    BY <1>8, <2>1, NobodyPasses
<1>9. ASSUME NEW j \in Keys, NEW new \in [Periods -> Limits], UpdateKey(j, new) PROVE FALSE
  BY <1>8, <1>9 DEF UpdateKey
<1>10. ASSUME NEW j \in Keys, DeleteKey(j) PROVE FALSE
  BY <1>8, <1>10 DEF DeleteKey
<1> QED
  BY <1>1, <1>2, <1>4, <1>6, <1>7, <1>9, <1>10 DEF Next

(***************************************************************************)
(* A key passes its quota by at most the largest estimate for each request  *)
(* of its own that is in flight, although Allow sets nothing aside for them *)
(* (quota.go:49).                                                           *)
(***************************************************************************)
THEOREM OvershootIsBounded == Spec => OvershootBounded
<1>1. TypeOK /\ [Next]_vars => [OvershootStep]_vars
  BY OvershootNext
<1> QED
  BY <1>1, TypeCorrect, PTL DEF Spec, OvershootBounded, OvershootStep
=============================================================================
