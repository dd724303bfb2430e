---------------------------- MODULE RateLimiter ----------------------------
(***************************************************************************)
(* The in-memory sliding-window limiter, internal/limiter/limiter.go.  Each *)
(* key has two buckets, one per method: Allow counts over a minute, AllowRPS *)
(* over a second in an entry of the same map under keyID + ":rps".  Both    *)
(* methods are the same code over a different window, and each runs under   *)
(* l.mu, so a call is one atomic step.                                      *)
(*                                                                         *)
(* A bucket's slice of timestamps is a set of stamps [n, at]: n numbers the *)
(* bucket's grants in order, which is the order of the slice, and keeps     *)
(* equal times apart.  A bucket that has no entry holds the empty set.      *)
(* grants is a history variable: every stamp the bucket ever took, with no  *)
(* purging.                                                                 *)
(***************************************************************************)
EXTENDS Integers, FiniteSets

CONSTANTS
  MinuteBuckets, \* the entries of Allow: key ids
  SecondBuckets, \* the entries of AllowRPS: key ids followed by ":rps"
  MinuteLength,  \* one minute, in ticks
  SecondLength,  \* one second, in ticks
  MaxLimit,      \* bound: the largest limit an administrator sets
  MaxTime        \* bound: the last instant

ASSUME LimiterAssumption ==
  /\ MinuteLength \in Nat \ {0}
  /\ SecondLength \in Nat \ {0}
  /\ MaxLimit \in Nat
  /\ MaxTime \in Nat

VARIABLES
  now,       \* time.Now()
  limits,    \* the limit each caller passes: the key's RPMLimit or RPSLimit
  windows,   \* l.windows
  grants,    \* history: all stamps ever taken
  answer     \* what the last call for the bucket returned

vars == <<now, limits, windows, grants, answer>>

Buckets == MinuteBuckets \cup SecondBuckets

Length(b) == IF b \in MinuteBuckets THEN MinuteLength ELSE SecondLength

Stamps == [n : Nat, at : Nat]

NoAnswer == [verdict |-> "none", until |-> 0, held |-> 0]

Answers == [verdict : {"none", "admitted", "refused"}, until : Nat, held : Nat]

TypeOK ==
  /\ now \in Nat
  /\ limits \in [Buckets -> 0..MaxLimit]
  /\ windows \in [Buckets -> SUBSET Stamps]
  /\ grants \in [Buckets -> SUBSET Stamps]
  /\ answer \in [Buckets -> Answers]

Init ==
  /\ now = 0
  /\ limits \in [Buckets -> 0..MaxLimit]
  /\ windows = [b \in Buckets |-> {}]
  /\ grants = [b \in Buckets |-> {}]
  /\ answer = [b \in Buckets |-> NoAnswer]

-----------------------------------------------------------------------------

\* Wrong on purpose: a stamp exactly one window old still counts.
LiveTooLong(S, b) == {s \in S : now - s.at <= Length(b)}

\* The stamps of S that are after now - Length(b).
Live(S, b) == {s \in S : now - s.at < Length(b)}

\* Wrong on purpose: the newest stamp instead of the oldest.
IsLast(s, S) == s \in S /\ \A u \in S : u.n <= s.n

\* s is entry.timestamps[0] of the slice S stands for.
IsFirst(s, S) == s \in S /\ \A u \in S : s.n <= u.n

\* limitRPM <= 0: no limit is configured and nothing is recorded.
AllowUnlimited(b) ==
  /\ limits[b] = 0
  /\ answer' = [answer EXCEPT ![b] = [verdict |-> "admitted", until |-> 0, held |-> 0]]
  /\ UNCHANGED <<now, limits, windows, grants>>

\* Wrong on purpose: one call more than the limit.
AllowGrantOneMore(b) ==
  LET live  == Live(windows[b], b)
      stamp == [n |-> Cardinality(grants[b]), at |-> now]
  IN  /\ limits[b] > 0
      /\ Cardinality(live) <= limits[b]
      /\ windows' = [windows EXCEPT ![b] = live \cup {stamp}]
      /\ grants' = [grants EXCEPT ![b] = @ \cup {stamp}]
      /\ answer' = [answer EXCEPT ![b] = [verdict |-> "admitted", until |-> 0, held |-> 0]]
      /\ UNCHANGED <<now, limits>>

\* Wrong on purpose: the purge throws away the whole window.
AllowGrantStartsOver(b) ==
  LET live  == Live(windows[b], b)
      stamp == [n |-> Cardinality(grants[b]), at |-> now]
  IN  /\ limits[b] > 0
      /\ Cardinality(live) < limits[b]
      /\ windows' = [windows EXCEPT ![b] = {stamp}]
      /\ grants' = [grants EXCEPT ![b] = @ \cup {stamp}]
      /\ answer' = [answer EXCEPT ![b] = [verdict |-> "admitted", until |-> 0, held |-> 0]]
      /\ UNCHANGED <<now, limits>>

\* The window has room: purge, record, answer.
AllowGrant(b) ==
  LET live  == Live(windows[b], b)
      stamp == [n |-> Cardinality(grants[b]), at |-> now]
  IN  /\ limits[b] > 0
      /\ Cardinality(live) < limits[b]
      /\ windows' = [windows EXCEPT ![b] = live \cup {stamp}]
      /\ grants' = [grants EXCEPT ![b] = @ \cup {stamp}]
      /\ answer' = [answer EXCEPT ![b] = [verdict |-> "admitted", until |-> 0, held |-> 0]]
      /\ UNCHANGED <<now, limits>>

\* Wrong on purpose: the window's length is taken off the oldest stamp.
AllowRefuseBackwards(b) ==
  LET live == Live(windows[b], b)
  IN  /\ limits[b] > 0
      /\ Cardinality(live) >= limits[b]
      /\ windows' = [windows EXCEPT ![b] = live]
      /\ \E oldest \in live :
           /\ IsFirst(oldest, live)
           /\ answer' = [answer EXCEPT ![b] = [verdict |-> "refused",
                                               until   |-> oldest.at - Length(b),
                                               held    |-> Cardinality(live)]]
      /\ UNCHANGED <<now, limits, grants>>

\* The window is full: purge, and tell when its oldest stamp leaves it.
AllowRefuse(b) ==
  LET live == Live(windows[b], b)
  IN  /\ limits[b] > 0
      /\ Cardinality(live) >= limits[b]
      /\ windows' = [windows EXCEPT ![b] = live]
      /\ \E oldest \in live :
           /\ IsFirst(oldest, live)
           /\ answer' = [answer EXCEPT ![b] = [verdict |-> "refused",
                                               until   |-> oldest.at + Length(b),
                                               held    |-> Cardinality(live)]]
      /\ UNCHANGED <<now, limits, grants>>

\* The next caller passes another limit: an administrator changed the key, or that caller
\* was authenticated before an earlier change.  Earlier answers were about the old limit.
SetLimit(b, limit) ==
  /\ limits' = [limits EXCEPT ![b] = limit]
  /\ answer' = [answer EXCEPT ![b] = NoAnswer]
  /\ UNCHANGED <<now, windows, grants>>

Tick ==
  /\ now < MaxTime
  /\ now' = now + 1
  /\ UNCHANGED <<limits, windows, grants, answer>>

Next ==
  \/ \E b \in Buckets : AllowUnlimited(b) \/ AllowGrant(b) \/ AllowRefuse(b)
  \/ \E b \in Buckets, limit \in 0..MaxLimit : SetLimit(b, limit)
  \/ Tick

Spec == Init /\ [][Next]_vars

-----------------------------------------------------------------------------

(***************************************************************************)
(* Purging forgets nothing that still counts: a bucket always holds every   *)
(* grant less than one window old (limiter.go:50-57), and nothing that was  *)
(* not granted.                                                             *)
(***************************************************************************)
PurgeKeepsRecent ==
  \A b \in Buckets : Live(grants[b], b) \subseteq windows[b] /\ windows[b] \subseteq grants[b]

\* The grants a window that ends at the instant end covers.
WindowAt(b, end) == {g \in grants[b] : g.at <= end /\ end - g.at < Length(b)}

(***************************************************************************)
(* The sliding-window promise: wherever the window is laid over the past,   *)
(* it covers at most MaxLimit grants of a bucket, also when the limit was   *)
(* changed in between.  A fixed window would let a burst of twice the limit *)
(* straddle a boundary.                                                     *)
(***************************************************************************)
EveryWindowBounded ==
  \A b \in Buckets : \A end \in 0..now : Cardinality(WindowAt(b, end)) <= MaxLimit

(***************************************************************************)
(* Retry-After is exact (limiter.go:60-66): while the limit is unchanged, a *)
(* caller that comes back earlier is refused again, and one that comes back *)
(* then is admitted, provided that the window was not over-full when it was *)
(* refused (it is after the limit was lowered below what it holds).         *)
(***************************************************************************)
RetryAfterExact ==
  \A b \in Buckets : answer[b].verdict = "refused" =>
    LET roomNow == Cardinality(Live(windows[b], b)) < limits[b]
    IN  /\ now < answer[b].until => ~roomNow
        /\ now >= answer[b].until /\ answer[b].held = limits[b] => roomNow

(***************************************************************************)
(* The limiter as its callers see it, with no window kept: SlidingWindow.   *)
(***************************************************************************)
Contract == INSTANCE SlidingWindow

ImplementsContract == Contract!Spec
=============================================================================
