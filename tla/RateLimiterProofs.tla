------------------------- MODULE RateLimiterProofs -------------------------
(***************************************************************************)
(* Proofs about RateLimiter for any keys, window lengths, limits and length *)
(* of history: the purge forgets nothing that counts, every window over the *)
(* past covers at most MaxLimit grants, and the limiter implements          *)
(* SlidingWindow.                                                           *)
(***************************************************************************)
EXTENDS RateLimiter, FiniteSetTheorems, TLAPS

\* A bucket's history is finite, numbered in order, and lies in the past.
History ==
  \A b \in Buckets :
    /\ IsFiniteSet(grants[b])
    /\ \A g \in grants[b] : g.at <= now /\ g.n < Cardinality(grants[b])
    /\ \A g \in grants[b], h \in grants[b] : g.n <= h.n => g.at <= h.at

\* The inductive invariant.
IInv == TypeOK /\ History /\ PurgeKeepsRecent /\ EveryWindowBounded

LEMMA LengthType == \A b \in Buckets : Length(b) \in Nat \ {0}
  BY LimiterAssumption DEF Length

\* What a bucket holds alive is what was granted in the last window.
LEMMA LiveIsRecent ==
  ASSUME IInv, NEW b \in Buckets
  PROVE  /\ Live(windows[b], b) = Live(grants[b], b)
         /\ Live(grants[b], b) = WindowAt(b, now)
         /\ IsFiniteSet(Live(grants[b], b))
         /\ Cardinality(Live(grants[b], b)) \in Nat
         /\ Cardinality(grants[b]) \in Nat
<1>1. Live(windows[b], b) = Live(grants[b], b)
  BY DEF IInv, PurgeKeepsRecent, Live
<1>2. Live(grants[b], b) = WindowAt(b, now)
  BY DEF IInv, History, Live, WindowAt
<1>3. IsFiniteSet(grants[b])
  BY DEF IInv, History
<1>4. Live(grants[b], b) \subseteq grants[b]
  BY DEF Live
<1>5. IsFiniteSet(Live(grants[b], b))
  BY <1>3, <1>4, FS_Subset
<1> QED BY <1>1, <1>2, <1>3, <1>5, FS_CardinalityType

\* Every end of a window a step leaves alone keeps what it covered.
LEMMA SameHistory ==
  ASSUME IInv, UNCHANGED <<now, grants>>
  PROVE  History' /\ EveryWindowBounded'
  BY DEF IInv, History, EveryWindowBounded, WindowAt, Length, Buckets

LEMMA GrantStep ==
  ASSUME IInv, NEW b \in Buckets, AllowGrant(b)
  PROVE  IInv'
<1> USE LengthType
<1> DEFINE live == Live(windows[b], b)
           stamp == [n |-> Cardinality(grants[b]), at |-> now]
<1>0. /\ Cardinality(live) < limits[b]
      /\ windows' = [windows EXCEPT ![b] = live \cup {stamp}]
      /\ grants' = [grants EXCEPT ![b] = grants[b] \cup {stamp}]
      /\ answer' = [answer EXCEPT ![b] = [verdict |-> "admitted", until |-> 0, held |-> 0]]
      /\ UNCHANGED <<now, limits>>
  BY DEF AllowGrant
<1>1. /\ live = WindowAt(b, now)
      /\ live = Live(grants[b], b)
      /\ IsFiniteSet(live)
      /\ Cardinality(live) \in Nat
      /\ Cardinality(grants[b]) \in Nat
  BY LiveIsRecent
<1>2. /\ stamp \in Stamps
      /\ stamp.n = Cardinality(grants[b])
      /\ stamp.at = now
  BY <1>1 DEF IInv, TypeOK, Stamps
<1>3. stamp \notin grants[b]
  BY <1>1, <1>2 DEF IInv, History
<1>4. /\ IsFiniteSet(grants[b] \cup {stamp})
      /\ Cardinality(grants[b] \cup {stamp}) = Cardinality(grants[b]) + 1
  BY <1>3, FS_AddElement DEF IInv, History
<1> HIDE DEF live, stamp
<1>5. /\ grants'[b] = grants[b] \cup {stamp}
      /\ windows'[b] = live \cup {stamp}
      /\ \A c \in Buckets \ {b} : grants'[c] = grants[c] /\ windows'[c] = windows[c]
  BY <1>0 DEF IInv, TypeOK
<1>6. TypeOK'
  BY <1>0, <1>1, <1>2 DEF IInv, TypeOK, live, Live, Answers
<1>7. History'
  <2>1. ASSUME NEW c \in Buckets
        PROVE  /\ IsFiniteSet(grants'[c])
               /\ \A g \in grants'[c] : g.at <= now' /\ g.n < Cardinality(grants'[c])
               /\ \A g \in grants'[c], h \in grants'[c] : g.n <= h.n => g.at <= h.at
    <3>1. CASE c # b
      BY <3>1, <1>0, <1>5 DEF IInv, History
    <3>2. CASE c = b
      <4>1. \A g \in grants[b] : g.at <= now /\ g.n < Cardinality(grants[b])
                                 /\ g.n \in Nat /\ g.at \in Nat
        BY DEF IInv, History, TypeOK, Stamps
      <4>2. now \in Nat
        BY DEF IInv, TypeOK
      <4>3. \A g \in grants'[b] : g.at <= now' /\ g.n < Cardinality(grants'[b])
        <5>1. \A g \in grants[b] : g.at <= now' /\ g.n < Cardinality(grants'[b])
          BY <1>0, <1>1, <1>4, <1>5, <4>1
        <5>2. stamp.at <= now' /\ stamp.n < Cardinality(grants'[b])
          BY <1>0, <1>1, <1>2, <1>4, <1>5, <4>2
        <5> QED BY <1>5, <5>1, <5>2
      <4>4. \A g \in grants'[b], h \in grants'[b] : g.n <= h.n => g.at <= h.at
        <5>1. \A g \in grants[b], h \in grants[b] : g.n <= h.n => g.at <= h.at
          BY DEF IInv, History
        <5> QED BY <1>1, <1>2, <1>5, <4>1, <4>2, <5>1
      <4> QED BY <3>2, <1>4, <1>5, <4>3, <4>4
    <3> QED BY <3>1, <3>2
  <2> QED BY <2>1 DEF History, Buckets
<1>8. PurgeKeepsRecent'
  <2>1. ASSUME NEW c \in Buckets
        PROVE  Live(grants[c], c)' \subseteq windows'[c] /\ windows'[c] \subseteq grants'[c]
    <3>1. CASE c # b
      BY <3>1, <1>0, <1>5 DEF IInv, PurgeKeepsRecent, Live, Length
    <3>2. CASE c = b
      <4>1. Live(grants[b], b)' \subseteq Live(grants[b], b) \cup {stamp}
        BY <1>0, <1>5 DEF Live, Length
      <4>2. Live(grants[b], b) \subseteq grants[b]
        BY DEF Live
      <4> QED BY <3>2, <1>1, <1>5, <4>1, <4>2
    <3> QED BY <3>1, <3>2
  <2> QED BY <2>1 DEF PurgeKeepsRecent, Buckets
<1>9. EveryWindowBounded'
  <2>1. ASSUME NEW c \in Buckets, NEW end \in 0..now
        PROVE  Cardinality(WindowAt(c, end)') <= MaxLimit
    <3>1. Cardinality(WindowAt(c, end)) <= MaxLimit
      BY DEF IInv, EveryWindowBounded
    <3>2. CASE c # b \/ end # now
      <4>1. WindowAt(c, end)' = WindowAt(c, end)
        BY <3>2, <1>0, <1>2, <1>5 DEF WindowAt, Length, IInv, TypeOK
      <4> QED BY <3>1, <4>1
    <3>3. CASE c = b /\ end = now
      <4>1. WindowAt(b, now)' = live \cup {stamp}
        BY <1>0, <1>1, <1>2, <1>5 DEF WindowAt, Length, IInv, TypeOK
      <4>2. WindowAt(c, end)' = live \cup {stamp}
        BY <1>0, <3>3, <4>1 DEF WindowAt, Length
      <4>3. live \subseteq grants[b]
        BY <1>1 DEF Live
      <4>4. Cardinality(live \cup {stamp}) = Cardinality(live) + 1
        BY <1>1, <1>3, <4>3, FS_AddElement
      <4>5. limits[b] \in 0..MaxLimit
        BY DEF IInv, TypeOK
      <4> QED BY <1>0, <1>1, <4>2, <4>4, <4>5, LimiterAssumption
    <3> QED BY <3>2, <3>3
  <2> QED BY <1>0, <2>1 DEF EveryWindowBounded, Buckets
<1> QED BY <1>6, <1>7, <1>8, <1>9 DEF IInv

LEMMA RefuseStep ==
  ASSUME IInv, NEW b \in Buckets, AllowRefuse(b)
  PROVE  IInv'
<1> DEFINE live == Live(windows[b], b)
<1>0. PICK oldest \in live :
        answer' = [answer EXCEPT ![b] = [verdict |-> "refused",
                                         until   |-> oldest.at + Length(b),
                                         held    |-> Cardinality(live)]]
  BY DEF AllowRefuse
<1>1. /\ windows' = [windows EXCEPT ![b] = live]
      /\ UNCHANGED <<now, limits, grants>>
  BY DEF AllowRefuse
<1>2. /\ live = Live(grants[b], b)
      /\ Cardinality(live) \in Nat
  BY LiveIsRecent
<1>3. oldest.at + Length(b) \in Nat
  BY LengthType DEF IInv, TypeOK, Live, Stamps
<1>4. live \subseteq windows[b] /\ live \subseteq Stamps
  BY DEF IInv, TypeOK, Live
<1> HIDE DEF live
<1>5. TypeOK'
  BY <1>0, <1>1, <1>2, <1>3, <1>4 DEF IInv, TypeOK, Answers
<1>6. PurgeKeepsRecent'
  <2>1. ASSUME NEW c \in Buckets
        PROVE  Live(grants[c], c)' \subseteq windows'[c] /\ windows'[c] \subseteq grants'[c]
    <3>1. Live(grants[c], c)' = Live(grants[c], c)
      BY <1>1 DEF Live, Length
    <3>2. windows'[c] = IF c = b THEN live ELSE windows[c]
      BY <1>1 DEF IInv, TypeOK
    <3> QED BY <1>1, <1>2, <1>4, <3>1, <3>2 DEF IInv, PurgeKeepsRecent
  <2> QED BY <2>1 DEF PurgeKeepsRecent, Buckets
<1> QED BY <1>1, <1>5, <1>6, SameHistory DEF IInv

LEMMA TickStep ==
  ASSUME IInv, Tick
  PROVE  IInv'
<1> USE LengthType
<1>0. now' = now + 1 /\ UNCHANGED <<limits, windows, grants, answer>>
  BY DEF Tick
<1>1. TypeOK'
  BY <1>0 DEF IInv, TypeOK, Answers
<1>2. History'
  <2>1. \A b \in Buckets : \A g \in grants[b] : g.at \in Nat /\ g.at <= now
    BY DEF IInv, TypeOK, History, Stamps
  <2>2. \A b \in Buckets : \A g \in grants[b] : g.at <= now'
    BY <1>0, <2>1 DEF IInv, TypeOK
  <2> QED BY <1>0, <2>2 DEF IInv, History, Buckets
<1>3. ASSUME NEW b \in Buckets PROVE Live(grants[b], b)' \subseteq Live(grants[b], b)
  <2>1. \A g \in grants[b] : g.at \in Nat
    BY DEF IInv, TypeOK, Stamps
  <2> QED BY <1>0, <2>1 DEF IInv, TypeOK, Live, Length
<1>4. PurgeKeepsRecent'
  BY <1>0, <1>3 DEF IInv, PurgeKeepsRecent, Buckets
<1>5. EveryWindowBounded'
  <2>1. ASSUME NEW b \in Buckets, NEW end \in 0..now'
        PROVE  Cardinality(WindowAt(b, end)') <= MaxLimit
    <3>0. \A e \in 0..now : Cardinality(WindowAt(b, e)) <= MaxLimit
      BY DEF IInv, EveryWindowBounded
    <3>1. CASE end \in 0..now
      <4>1. WindowAt(b, end)' = WindowAt(b, end)
        BY <1>0 DEF WindowAt, Length
      <4> QED BY <3>0, <3>1, <4>1
    <3>2. CASE end = now + 1
      <4>1. \A g \in grants[b] : g.at \in Nat /\ g.at <= now
        BY DEF IInv, TypeOK, History, Stamps
      <4>2. WindowAt(b, end)' \subseteq WindowAt(b, now)
        BY <1>0, <3>2, <4>1 DEF WindowAt, Length, IInv, TypeOK
      <4>3. WindowAt(b, now) \subseteq grants[b] /\ IsFiniteSet(grants[b])
        BY DEF WindowAt, IInv, History
      <4>4. IsFiniteSet(WindowAt(b, now))
        BY <4>3, FS_Subset
      <4>5. /\ Cardinality(WindowAt(b, end)') <= Cardinality(WindowAt(b, now))
            /\ Cardinality(WindowAt(b, end)') \in Nat
            /\ Cardinality(WindowAt(b, now)) \in Nat
        BY <4>2, <4>4, FS_Subset, FS_CardinalityType
      <4>6. Cardinality(WindowAt(b, now)) <= MaxLimit
        BY <3>0 DEF IInv, TypeOK
      <4> QED BY <4>5, <4>6, LimiterAssumption
    <3> QED BY <1>0, <3>1, <3>2 DEF IInv, TypeOK
  <2> QED BY <2>1 DEF EveryWindowBounded, Buckets
<1> QED BY <1>1, <1>2, <1>4, <1>5 DEF IInv

\* The calls and changes that touch neither a window nor the history.
LEMMA QuietStep ==
  ASSUME IInv, UNCHANGED <<now, windows, grants>>, TypeOK'
  PROVE  IInv'
<1>1. PurgeKeepsRecent'
  BY DEF IInv, PurgeKeepsRecent, Live, Length, Buckets
<1> QED BY <1>1, SameHistory DEF IInv

LEMMA InvInductive == IInv /\ [Next]_vars => IInv'
<1> SUFFICES ASSUME IInv, [Next]_vars PROVE IInv'
  OBVIOUS
<1>1. ASSUME NEW b \in Buckets, AllowUnlimited(b) PROVE IInv'
  <2>1. TypeOK'
    BY <1>1 DEF AllowUnlimited, IInv, TypeOK, Answers
  <2> QED BY <1>1, <2>1, QuietStep DEF AllowUnlimited
<1>2. ASSUME NEW b \in Buckets, AllowGrant(b) PROVE IInv'
  BY <1>2, GrantStep
<1>3. ASSUME NEW b \in Buckets, AllowRefuse(b) PROVE IInv'
  BY <1>3, RefuseStep
<1>4. ASSUME NEW b \in Buckets, NEW limit \in 0..MaxLimit, SetLimit(b, limit) PROVE IInv'
  <2>1. TypeOK'
    BY <1>4 DEF SetLimit, IInv, TypeOK, Answers, NoAnswer
  <2> QED BY <1>4, <2>1, QuietStep DEF SetLimit
<1>5. CASE Tick
  BY <1>5, TickStep
<1>6. CASE UNCHANGED vars
  <2>1. TypeOK'
    BY <1>6 DEF vars, IInv, TypeOK
  <2> QED BY <1>6, <2>1, QuietStep DEF vars
<1> QED BY <1>1, <1>2, <1>3, <1>4, <1>5, <1>6 DEF Next

LEMMA InvInit == Init => IInv
<1> SUFFICES ASSUME Init PROVE IInv
  OBVIOUS
<1>1. TypeOK
  BY DEF Init, TypeOK, Answers, NoAnswer
<1>2. History /\ PurgeKeepsRecent
  BY FS_EmptySet DEF Init, History, PurgeKeepsRecent, Live
<1>3. EveryWindowBounded
  <2>1. \A b \in Buckets : \A end \in 0..now : WindowAt(b, end) = {}
    BY DEF Init, WindowAt
  <2> QED BY <2>1, FS_EmptySet, LimiterAssumption DEF EveryWindowBounded
<1> QED BY <1>1, <1>2, <1>3 DEF IInv

(***************************************************************************)
(* For any number of keys, calls, changes of limits and any length of       *)
(* history: no purge drops a grant that still counts, and no window laid    *)
(* over the past covers more than MaxLimit grants.                          *)
(***************************************************************************)
THEOREM LimiterSafe ==
  Spec => [](TypeOK /\ PurgeKeepsRecent /\ EveryWindowBounded)
<1>1. IInv => TypeOK /\ PurgeKeepsRecent /\ EveryWindowBounded
  BY DEF IInv
<1> QED BY <1>1, InvInit, InvInductive, PTL DEF Spec

\* The type invariant alone.
THEOREM TypeCorrect == Spec => []TypeOK
  BY LimiterSafe, PTL

\* No purge, by whichever call and however late, forgets a grant that still counts.
THEOREM PurgeForgetsNothing == Spec => []PurgeKeepsRecent
  BY LimiterSafe, PTL

-----------------------------------------------------------------------------

\* The grants of a bucket from o on, in the order they were given.
Since(b, o) == {g \in grants[b] : o.n <= g.n}

\* What stays true of a refusal until the next call for its bucket: the window was full
\* with the grants from one of them on, whose end of life is Retry-After.
RefusedInv ==
  \A b \in Buckets : answer[b].verdict = "refused" =>
    /\ limits[b] <= answer[b].held
    /\ \E o \in grants[b] : /\ answer[b].until = o.at + Length(b)
                            /\ answer[b].held = Cardinality(Since(b, o))

LEMMA RefusalHolds ==
  ASSUME IInv, RefusedInv, NEW b \in Buckets, AllowRefuse(b)
  PROVE  RefusedInv'
<1> DEFINE live == Live(windows[b], b)
<1>1. PICK o \in live :
        /\ IsFirst(o, live)
        /\ answer' = [answer EXCEPT ![b] = [verdict |-> "refused",
                                            until   |-> o.at + Length(b),
                                            held    |-> Cardinality(live)]]
  BY DEF AllowRefuse
<1>2. Cardinality(live) >= limits[b] /\ UNCHANGED <<now, limits, grants>>
  BY DEF AllowRefuse
<1>3. live = Live(grants[b], b) /\ Cardinality(live) \in Nat /\ limits[b] \in Nat
  BY LiveIsRecent DEF IInv, TypeOK
<1>4. o \in grants[b] /\ live = Since(b, o)
  <2>1. o \in grants[b] /\ now - o.at < Length(b)
    BY <1>3 DEF Live
  <2>2. ASSUME NEW g \in grants[b], o.n <= g.n PROVE g \in live
    <3>1. o.at <= g.at /\ o.at \in Nat /\ g.at \in Nat /\ now \in Nat
      BY <2>1, <2>2 DEF IInv, History, TypeOK, Stamps
    <3> QED
      BY <1>3, <2>1, <2>2, <3>1, LengthType DEF Live
  <2>3. ASSUME NEW g \in live PROVE g \in grants[b] /\ o.n <= g.n
    BY <1>1, <1>3 DEF IsFirst, Live
  <2> QED
    BY <2>1, <2>2, <2>3 DEF Since
<1> HIDE DEF live
<1>5. ASSUME NEW c \in Buckets, answer'[c].verdict = "refused"
      PROVE  /\ limits'[c] <= answer'[c].held
             /\ \E g \in grants'[c] : /\ answer'[c].until = g.at + Length(c)
                                      /\ answer'[c].held = Cardinality(Since(c, g)')
  <2>1. \A g : Since(c, g)' = Since(c, g)
    BY <1>2 DEF Since
  <2>2. CASE c = b
    <3>1. answer'[c] = [verdict |-> "refused", until |-> o.at + Length(b),
                        held |-> Cardinality(live)]
      BY <1>1, <2>2 DEF IInv, TypeOK
    <3> QED
      BY <1>2, <1>3, <1>4, <2>1, <2>2, <3>1
  <2>3. CASE c # b
    BY <1>1, <1>2, <1>5, <2>1, <2>3 DEF IInv, TypeOK, RefusedInv
  <2> QED
    BY <2>2, <2>3
<1> QED
  BY <1>5 DEF RefusedInv, Buckets, Length

\* Any other call for a bucket replaces its answer, and leaves the other buckets alone.
LEMMA RefusedInductive == IInv /\ RefusedInv /\ [Next]_vars => RefusedInv'
<1> SUFFICES ASSUME IInv, RefusedInv, [Next]_vars PROVE RefusedInv'
  OBVIOUS
<1>1. ASSUME NEW b \in Buckets, answer'[b].verdict # "refused",
             \A c \in Buckets \ {b} : /\ answer'[c] = answer[c] /\ limits'[c] = limits[c]
                                      /\ grants'[c] = grants[c]
      PROVE  RefusedInv'
  <2> SUFFICES ASSUME NEW c \in Buckets, answer'[c].verdict = "refused"
               PROVE  /\ limits'[c] <= answer'[c].held
                      /\ \E o \in grants'[c] : /\ answer'[c].until = o.at + Length(c)
                                               /\ answer'[c].held = Cardinality(Since(c, o)')
    BY DEF RefusedInv, Length, Buckets
  <2>1. answer'[c] = answer[c] /\ limits'[c] = limits[c] /\ grants'[c] = grants[c]
    BY <1>1
  <2>2. \A o : Since(c, o)' = Since(c, o)
    BY <2>1 DEF Since
  <2> QED
    BY <2>1, <2>2 DEF RefusedInv
<1>2. ASSUME NEW b \in Buckets, AllowUnlimited(b) PROVE RefusedInv'
  BY <1>1, <1>2 DEF AllowUnlimited, IInv, TypeOK
<1>3. ASSUME NEW b \in Buckets, AllowGrant(b) PROVE RefusedInv'
  <2>1. answer'[b].verdict = "admitted" /\ limits' = limits
    BY <1>3 DEF AllowGrant, IInv, TypeOK
  <2>2. \A c \in Buckets \ {b} : answer'[c] = answer[c] /\ grants'[c] = grants[c]
    BY <1>3 DEF AllowGrant, IInv, TypeOK
  <2> QED
    BY <1>1, <2>1, <2>2
<1>4. ASSUME NEW b \in Buckets, NEW limit \in 0..MaxLimit, SetLimit(b, limit)
      PROVE  RefusedInv'
  BY <1>1, <1>4 DEF SetLimit, NoAnswer, IInv, TypeOK
<1>5. CASE Tick \/ UNCHANGED vars
  BY <1>5 DEF Tick, vars, RefusedInv, Since, Buckets, Length
<1> QED
  BY <1>2, <1>3, <1>4, <1>5, RefusalHolds DEF Next

LEMMA RefusedMeansExact == IInv /\ RefusedInv => RetryAfterExact
<1> SUFFICES ASSUME IInv, RefusedInv, NEW b \in Buckets, answer[b].verdict = "refused"
             PROVE  LET roomNow == Cardinality(Live(windows[b], b)) < limits[b]
                    IN  /\ now < answer[b].until => ~roomNow
                        /\ now >= answer[b].until /\ answer[b].held = limits[b] => roomNow
  BY DEF RetryAfterExact
<1> DEFINE live == Live(grants[b], b)
<1>1. PICK o \in grants[b] : /\ answer[b].until = o.at + Length(b)
                             /\ answer[b].held = Cardinality(Since(b, o))
  BY DEF RefusedInv
<1> DEFINE since == Since(b, o)
<1>2. limits[b] <= Cardinality(since) /\ limits[b] \in Nat
  BY <1>1 DEF RefusedInv, IInv, TypeOK
<1>3. /\ Live(windows[b], b) = live /\ IsFiniteSet(live) /\ Cardinality(live) \in Nat
      /\ Length(b) \in Nat /\ now \in Nat
  BY LiveIsRecent, LengthType DEF IInv, TypeOK
<1>4. IsFiniteSet(since) /\ Cardinality(since) \in Nat /\ o \in since
  <2>1. since \subseteq grants[b] /\ IsFiniteSet(grants[b])
    BY DEF Since, IInv, History
  <2>2. o \in since
    BY DEF Since, IInv, TypeOK, Stamps
  <2> QED
    BY <2>1, <2>2, FS_Subset, FS_CardinalityType
<1>5. \A g \in grants[b] : /\ g.at \in Nat /\ g.n \in Nat
                           /\ o.n <= g.n => o.at <= g.at
                           /\ g.n <= o.n => g.at <= o.at
  BY DEF IInv, TypeOK, Stamps, History
<1>6. ASSUME now < answer[b].until PROVE ~(Cardinality(live) < limits[b])
  <2>1. since \subseteq live
    BY <1>1, <1>3, <1>5, <1>6 DEF Since, Live
  <2>2. Cardinality(since) <= Cardinality(live)
    BY <1>3, <2>1, FS_Subset
  <2> HIDE DEF since, live
  <2> QED
    BY <1>2, <1>3, <1>4, <2>2
<1>7. ASSUME now >= answer[b].until, answer[b].held = limits[b]
      PROVE  Cardinality(live) < limits[b]
  <2>1. live \subseteq since \ {o}
    <3> SUFFICES ASSUME NEW g \in live PROVE g \in since /\ g # o
      OBVIOUS
    <3>1. g \in grants[b] /\ now - g.at < Length(b)
      BY DEF Live
    <3>2. o.at < g.at
      BY <1>1, <1>3, <1>5, <1>7, <3>1
    <3> QED
      BY <1>5, <3>1, <3>2 DEF Since
  <2>2. IsFiniteSet(since \ {o}) /\ Cardinality(since \ {o}) = Cardinality(since) - 1
    BY <1>4, FS_RemoveElement
  <2>3. Cardinality(live) <= Cardinality(since \ {o})
    BY <2>1, <2>2, FS_Subset
  <2> HIDE DEF since, live
  <2> QED
    BY <1>1, <1>3, <1>4, <1>7, <2>2, <2>3 DEF since
<1> QED
  BY <1>3, <1>6, <1>7

(***************************************************************************)
(* Retry-After is exact for every key, limit and length of window, and      *)
(* whatever calls and changes of other limits come in between.              *)
(***************************************************************************)
THEOREM RetryAfterIsExact == Spec => []RetryAfterExact
<1>1. Init => RefusedInv
  BY DEF Init, NoAnswer, RefusedInv
<1> QED
  BY <1>1, InvInit, InvInductive, RefusedInductive, RefusedMeansExact, PTL DEF Spec

-----------------------------------------------------------------------------

\* The contract's own instance of FiniteSets counts as this module's does.
LEMMA SameCardinality == \A S : Contract!Cardinality(S) = Cardinality(S)
  BY DEF Cardinality, Contract!Cardinality

(***************************************************************************)
(* The limiter that purges its window at each call answers every call as    *)
(* SlidingWindow does, which looks at the bucket's whole history.           *)
(***************************************************************************)
THEOREM LimiterImplements == Spec => ImplementsContract
<1>1. Init => Contract!Init
  BY DEF Init, Contract!Init, NoAnswer, Buckets, Contract!Buckets
<1>2. IInv /\ [Next]_vars => [Contract!Next]_(Contract!vars)
  <2> SUFFICES ASSUME IInv, [Next]_vars PROVE [Contract!Next]_(Contract!vars)
    OBVIOUS
  <2>0. /\ Buckets = Contract!Buckets
        /\ \A b \in Buckets : /\ Length(b) = Contract!Length(b)
                              /\ Live(windows[b], b) = Contract!Recent(b)
    <3>1. \A b \in Buckets : Live(windows[b], b) = Live(grants[b], b)
      BY LiveIsRecent
    <3>2. \A b \in Buckets : Length(b) = Contract!Length(b)
      BY DEF Length, Contract!Length
    <3> QED BY <3>1, <3>2 DEF Buckets, Contract!Buckets, Contract!Recent, Live
  <2>1. ASSUME NEW b \in Buckets, AllowUnlimited(b) PROVE Contract!Admit(b)
    BY <2>1 DEF AllowUnlimited, Contract!Admit, Contract!Answered
  <2>2. ASSUME NEW b \in Buckets, AllowGrant(b) PROVE Contract!Admit(b)
    <3>1. limits[b] # 0
      BY <2>2 DEF AllowGrant, IInv, TypeOK
    <3>2. Contract!Room(b)
      BY <2>0, <2>2, SameCardinality DEF AllowGrant, Contract!Room
    <3>3. grants' = [grants EXCEPT ![b] = @ \cup {[n |-> Cardinality(@), at |-> now]}]
      BY <2>2 DEF AllowGrant
    <3>4. /\ Contract!Answered(b, "admitted", 0, 0)
          /\ UNCHANGED <<now, limits>>
      BY <2>2 DEF AllowGrant, Contract!Answered
    <3> QED BY <3>1, <3>2, <3>3, <3>4, SameCardinality DEF Contract!Admit
  <2>3. ASSUME NEW b \in Buckets, AllowRefuse(b) PROVE Contract!Refuse(b)
    <3> DEFINE live == Live(windows[b], b)
    <3>1. PICK oldest \in live :
            /\ IsFirst(oldest, live)
            /\ answer' = [answer EXCEPT ![b] = [verdict |-> "refused",
                                                until   |-> oldest.at + Length(b),
                                                held    |-> Cardinality(live)]]
      BY <2>3 DEF AllowRefuse
    <3>2. live = Contract!Recent(b) /\ Length(b) = Contract!Length(b)
      BY <2>0
    <3>3. live \subseteq grants[b]
      BY DEF IInv, PurgeKeepsRecent, Live
    <3>4. \A g \in live : oldest.at <= g.at
      BY <3>1, <3>3 DEF IsFirst, IInv, History
    <3>5. /\ limits[b] > 0
          /\ Cardinality(live) >= limits[b]
          /\ UNCHANGED <<now, limits, grants>>
      BY <2>3 DEF AllowRefuse
    <3>6. ~(Cardinality(live) < limits[b])
      BY <3>5, LiveIsRecent DEF IInv, TypeOK
    <3>7. ~Contract!Room(b)
      BY <3>2, <3>6, SameCardinality DEF Contract!Room
    <3> HIDE DEF live
    <3>8. Contract!Answered(b, "refused", oldest.at + Contract!Length(b),
                            Cardinality(Contract!Recent(b)))
      BY <3>1, <3>2 DEF Contract!Answered
    <3>9. /\ oldest \in Contract!Recent(b)
          /\ \A g \in Contract!Recent(b) : oldest.at <= g.at
      BY <3>2, <3>4
    <3> QED BY <3>5, <3>7, <3>8, <3>9, SameCardinality DEF Contract!Refuse
  <2>4. ASSUME NEW b \in Buckets, NEW limit \in 0..MaxLimit, SetLimit(b, limit)
        PROVE  Contract!SetLimit(b, limit)
    BY <2>4 DEF SetLimit, Contract!SetLimit, Contract!Answered, NoAnswer
  <2>5. CASE Tick
    BY <2>5 DEF Tick, Contract!Tick, Contract!Next
  <2>6. CASE UNCHANGED vars
    BY <2>6 DEF vars, Contract!vars
  <2> QED BY <2>0, <2>1, <2>2, <2>3, <2>4, <2>5, <2>6 DEF Next, Contract!Next
<1> QED BY <1>1, <1>2, InvInit, InvInductive, PTL DEF Spec, ImplementsContract, Contract!Spec
=============================================================================
