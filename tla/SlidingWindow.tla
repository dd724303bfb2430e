--------------------------- MODULE SlidingWindow ---------------------------
(***************************************************************************)
(* What a sliding-window limiter promises: a call is admitted exactly when  *)
(* fewer than limit calls of its bucket were admitted in the window that    *)
(* ends now, and a refused caller is told when the first of those leaves    *)
(* the window.  The promise is about the whole history of the bucket: there *)
(* is no window to purge and nothing is ever forgotten.                     *)
(***************************************************************************)
EXTENDS Integers, FiniteSets

CONSTANTS MinuteBuckets, SecondBuckets, MinuteLength, SecondLength, MaxLimit, MaxTime

VARIABLES now, limits, grants, answer

vars == <<now, limits, grants, answer>>

Buckets == MinuteBuckets \cup SecondBuckets

Length(b) == IF b \in MinuteBuckets THEN MinuteLength ELSE SecondLength

Recent(b) == {g \in grants[b] : now - g.at < Length(b)}

\* A call that counts was admitted for each stamp; others leave none.
Room(b) == Cardinality(Recent(b)) < limits[b]

Answered(b, verdict, until, held) ==
  answer' = [answer EXCEPT ![b] = [verdict |-> verdict, until |-> until, held |-> held]]

Init ==
  /\ now = 0
  /\ limits \in [Buckets -> 0..MaxLimit]
  /\ grants = [b \in Buckets |-> {}]
  /\ answer = [b \in Buckets |-> [verdict |-> "none", until |-> 0, held |-> 0]]

Admit(b) ==
  /\ IF limits[b] = 0
       THEN UNCHANGED grants
       ELSE Room(b) /\ grants' = [grants EXCEPT ![b] = @ \cup {[n |-> Cardinality(@), at |-> now]}]
  /\ Answered(b, "admitted", 0, 0)
  /\ UNCHANGED <<now, limits>>

Refuse(b) ==
  /\ limits[b] > 0 /\ ~Room(b)
  /\ \E first \in Recent(b) :
       /\ \A g \in Recent(b) : first.at <= g.at
       /\ Answered(b, "refused", first.at + Length(b), Cardinality(Recent(b)))
  /\ UNCHANGED <<now, limits, grants>>

SetLimit(b, limit) ==
  /\ limits' = [limits EXCEPT ![b] = limit]
  /\ Answered(b, "none", 0, 0)
  /\ UNCHANGED <<now, grants>>

Tick ==
  /\ now < MaxTime
  /\ now' = now + 1
  /\ UNCHANGED <<limits, grants, answer>>

Next ==
  \/ \E b \in Buckets : Admit(b) \/ Refuse(b)
  \/ \E b \in Buckets, limit \in 0..MaxLimit : SetLimit(b, limit)
  \/ Tick

Spec == Init /\ [][Next]_vars
=============================================================================
