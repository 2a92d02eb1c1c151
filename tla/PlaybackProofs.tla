--------------------------- MODULE PlaybackProofs ---------------------------
(***************************************************************************)
(* Proofs about Playback, for every log, also one that grows or is torn,   *)
(* every width of a pause and every clock.                                 *)
(***************************************************************************)
EXTENDS Playback, SequenceTheorems, TLAPS

USE DEF logFile, player, time

Drift == [ahead: Nat, back: Nat, delay: Nat]
Publication == [record: Records, at: Nat, drift: Drift]

(* Where the player holds a record it has not published yet.               *)
InHand == {"wait", "sleep"}

HandInv ==
  /\ pc \in InHand \cup {"stamp"} => next > 0 /\ message = records[next]
  /\ pc = "open" => next = 0
  /\ Len(published) = IF pc \in InHand THEN next - 1 ELSE next

CopyInv ==
  \A p \in DOMAIN published :
    p <= Len(records) /\ published[p].record = records[p]

LogInv == TypeOK /\ HandInv /\ CopyInv

LEMMA Bounds ==
  /\ SleepModulus \in Nat \ {0}
  /\ MaxClockSteps \in Nat
  /\ MaxDelay \in Nat
  /\ \A r \in Records : r.timestamp \in Nat \ {0}
  /\ ClockSteps \subseteq Int
  /\ WallClock \in Nat \ {0}
BY TimesAssumption

LEMMA AtLeast0Type ==
  ASSUME NEW n \in Int
  PROVE  AtLeast0(n) \in Nat /\ AtLeast0(n) >= n /\ AtLeast0(n) + AtLeast0(-n) >= 0
BY DEF AtLeast0

LEMMA InitLogInv == Init => LogInv
<1> SUFFICES ASSUME Init PROVE LogInv
  OBVIOUS
<1>1. records \in Seq(Records) /\ records = <<>> /\ half = NoRecord
  BY EmptySeq DEF Init, InitLog
<1>2. published \in Seq(Publication) /\ published = <<>>
  BY EmptySeq DEF Init
<1>3. /\ message = NoRecord /\ next = 0 /\ now = 0 /\ wake = 0
      /\ t_last_publish = 0 /\ t_last_log = 0
      /\ skew \in Nat \ {0} /\ clockSteps \in 0..MaxClockSteps /\ pc = "open"
  BY Bounds DEF Init
<1>4. drift \in [ahead: Nat, back: Nat, delay: 0..MaxDelay]
  BY Bounds DEF Init
<1>5. Len(records) = 0 /\ Len(published) = 0
  BY <1>1, <1>2
<1>6. wake \in 0..(now + SleepModulus) /\ next \in 0..Len(records)
  BY <1>3, <1>5, Bounds
<1>7. TypeOK
  BY <1>1, <1>2, <1>3, <1>4, <1>6 DEF TypeOK, Publication, Drift
<1>8. HandInv
  BY <1>3, <1>5 DEF HandInv, InHand
<1>9. CopyInv
  BY <1>2 DEF CopyInv
<1>. QED
  BY <1>7, <1>8, <1>9 DEF LogInv

(* The log grows only at its end, so the player keeps what it has.         *)
LEMMA WriteLog ==
  ASSUME LogInv, Write
  PROVE  LogInv'
<1>t. TypeOK /\ HandInv /\ CopyInv
  BY DEF LogInv
<1>1. /\ UNCHANGED <<player, time>>
      /\ \/ half' \in Records /\ records' = records
         \/ half # NoRecord /\ records' = Append(records, half) /\ half' = NoRecord
  BY DEF Write, NextLog, WriteSize, WritePayload
<1>2. records \in Seq(Records) /\ half \in Records \cup {NoRecord} /\ next \in 0..Len(records)
  BY <1>t DEF TypeOK
<1>3. /\ records' \in Seq(Records) /\ half' \in Records \cup {NoRecord}
      /\ Len(records') >= Len(records) /\ Len(records) \in Nat /\ Len(records') \in Nat
      /\ \A p \in 1..Len(records) : records'[p] = records[p]
  BY <1>1, <1>2, AppendProperties
<1>4. TypeOK'
  <2>1. next' \in 0..Len(records')
    BY <1>1, <1>2, <1>3
  <2>. QED
    BY <2>1, <1>1, <1>3, <1>t DEF TypeOK
<1>5. HandInv'
  <2>1. pc \in InHand \cup {"stamp"} => next \in 1..Len(records)
    BY <1>2, <1>3, <1>t DEF HandInv
  <2>. QED
    BY <2>1, <1>1, <1>3, <1>t DEF HandInv, InHand
<1>6. CopyInv'
  <2>1. published \in Seq(Publication)
    BY <1>t DEF TypeOK, Publication, Drift
  <2>2. DOMAIN published = 1..Len(published) /\ Len(published) \in Nat
    BY <2>1
  <2>3. \A p \in DOMAIN published : p <= Len(records)
    BY <1>t DEF CopyInv
  <2>4. \A p \in DOMAIN published : p \in 1..Len(records)
    BY <2>2, <2>3, <1>3
  <2>. QED
    BY <2>4, <1>1, <1>3, <1>t DEF CopyInv
<1>. QED
  BY <1>4, <1>5, <1>6 DEF LogInv

LEMMA StepLogInv == LogInv /\ [Next]_vars => LogInv'
<1> SUFFICES ASSUME LogInv, [Next]_vars PROVE LogInv'
  OBVIOUS
<1>t. TypeOK /\ HandInv /\ CopyInv
  BY DEF LogInv
<1>n. /\ next \in 0..Len(records) /\ Len(records) \in Nat /\ records \in Seq(Records)
      /\ now \in Nat /\ skew \in Nat \ {0} /\ wake \in 0..(now + SleepModulus)
      /\ SleepModulus \in Nat \ {0}
      /\ drift \in [ahead: Nat, back: Nat, delay: 0..MaxDelay]
      /\ MaxDelay \in Nat
      /\ published \in Seq(Publication) /\ Len(published) \in Nat
  BY <1>t, Bounds DEF TypeOK, Publication, Drift
<1>1. CASE Open \/ ReadSize
  BY <1>1, <1>t DEF Open, ReadSize, LogInv, TypeOK, HandInv, CopyInv, InHand
<1>2. CASE ReadPayload
  <2>1. CASE next < Len(records)
    <3>1. /\ message' = records[next + 1] /\ next' = next + 1 /\ pc' = "wait" /\ pc = "payload"
          /\ UNCHANGED <<logFile, time, t_last_publish, t_last_log, wake, published>>
      BY <1>2, <2>1 DEF ReadPayload
    <3>2. records[next + 1] \in Records /\ next + 1 \in 0..Len(records)
      BY <2>1, <1>n, ElementOfSeq
    <3>3. TypeOK'
      BY <3>1, <3>2, <1>t DEF TypeOK
    <3>4. HandInv'
      BY <3>1, <1>t, <1>n DEF HandInv, InHand
    <3>. QED
      BY <3>1, <3>3, <3>4, <1>t DEF LogInv, CopyInv
  <2>2. CASE ~(next < Len(records))
    BY <1>2, <2>2, <1>t DEF ReadPayload, LogInv, TypeOK, HandInv, CopyInv, InHand
  <2>. QED
    BY <2>1, <2>2
<1>3. CASE Sleep
  <2>1. message \in Records
    BY <1>3, <1>t, <1>n, ElementOfSeq DEF Sleep, HandInv, InHand
  <2>2. t_wait \in Nat
    BY <2>1, <1>t, <1>n, Bounds, AtLeast0Type
       DEF t_wait, AtLeast0, delta_t_log, delta_t_publisher, GetTimeUSec, TypeOK
  <2>3. t_wait % SleepModulus \in 0..SleepModulus
    BY <2>2, <1>n
  <2>4. t_wait - (t_wait % SleepModulus) \in Nat
    BY <2>2, <1>n
  <2>. HIDE DEF t_wait
  <2>5. /\ wake' = now + (t_wait % SleepModulus) /\ pc' = "sleep" /\ pc = "wait"
        /\ drift' = [drift EXCEPT !.ahead = @ + (t_wait - (t_wait % SleepModulus))]
        /\ UNCHANGED <<logFile, message, next, t_last_publish, t_last_log, published,
                       now, skew, clockSteps>>
    BY <1>3 DEF Sleep
  <2>6. drift' \in [ahead: Nat, back: Nat, delay: 0..MaxDelay]
    <3> DEFINE n == t_wait - (t_wait % SleepModulus)
    <3>1. n \in Nat /\ drift' = [drift EXCEPT !.ahead = @ + n]
      BY <2>4, <2>5
    <3>. HIDE DEF n
    <3>. QED
      BY <3>1, <1>n
  <2>7. wake' \in 0..(now' + SleepModulus)
    BY <2>3, <2>5, <1>n
  <2>8. TypeOK'
    BY <2>5, <2>6, <2>7, <1>t DEF TypeOK
  <2>. QED
    BY <2>5, <2>8, <1>t DEF LogInv, HandInv, CopyInv, InHand
<1>4. CASE PublishMessage
  <2> DEFINE r == [record |-> message, at |-> now, drift |-> drift]
  <2>1. /\ pc = "sleep" /\ pc' = "stamp" /\ published' = Append(published, r)
        /\ UNCHANGED <<logFile, time, message, next, t_last_publish, t_last_log, wake>>
    BY <1>4 DEF PublishMessage
  <2>2. next > 0 /\ message = records[next] /\ Len(published) = next - 1
    BY <2>1, <1>t DEF HandInv, InHand
  <2>3. message \in Records
    BY <2>2, <1>n, ElementOfSeq
  <2>4. r \in Publication
    BY <2>3, <1>n DEF Publication, Drift
  <2>. HIDE DEF r
  <2>5. /\ published' \in Seq(Publication) /\ Len(published') = next
        /\ \A p \in 1..(next - 1) : published'[p] = published[p]
        /\ published'[next] = r
    BY <2>1, <2>2, <2>4, <1>n, AppendProperties
  <2>6. TypeOK'
    BY <2>1, <2>5, <1>t DEF TypeOK, Publication, Drift
  <2>7. HandInv'
    BY <2>1, <2>2, <2>5 DEF HandInv, InHand
  <2>8. CopyInv'
    <3> SUFFICES ASSUME NEW p \in DOMAIN published'
                 PROVE  p <= Len(records) /\ published'[p].record = records[p]
      BY <2>1 DEF CopyInv
    <3>1. p \in 1..next
      BY <2>5
    <3>2. CASE p = next
      BY <3>2, <2>2, <2>5, <1>n DEF r
    <3>3. CASE p # next
      <4>1. p \in 1..(next - 1) /\ p \in DOMAIN published
        BY <3>1, <3>3, <2>2, <1>n
      <4>. QED
        BY <4>1, <2>5, <1>t DEF CopyInv
    <3>. QED
      BY <3>2, <3>3
  <2>. QED
    BY <2>6, <2>7, <2>8 DEF LogInv
<1>5. CASE Stamp
  <2>1. message \in Records
    BY <1>5, <1>t, <1>n, ElementOfSeq DEF Stamp, HandInv, InHand
  <2>2. message.timestamp \in Nat /\ GetTimeUSec \in Nat
    BY <2>1, <1>n, Bounds DEF GetTimeUSec
  <2>. QED
    BY <2>2, <1>5, <1>t DEF Stamp, LogInv, TypeOK, HandInv, CopyInv, InHand
<1>6. CASE Write
  BY <1>6, WriteLog
<1>7. CASE Pause
  <2>1. now' = now + 1 /\ UNCHANGED <<logFile, player, skew, clockSteps, drift>>
    BY <1>7 DEF Pause
  <2>2. now' \in Nat /\ wake' \in 0..(now' + SleepModulus)
    BY <2>1, <1>n
  <2>. QED
    BY <2>1, <2>2, <1>t DEF LogInv, TypeOK, HandInv, CopyInv, InHand
<1>8. CASE Delay
  <2>1. /\ now' = now + 1 /\ drift.delay < MaxDelay
        /\ drift' = [drift EXCEPT !.delay = @ + 1]
        /\ UNCHANGED <<logFile, player, skew, clockSteps>>
    BY <1>8 DEF Delay
  <2>2. now' \in Nat /\ wake' \in 0..(now' + SleepModulus)
    BY <2>1, <1>n
  <2>3. drift' \in [ahead: Nat, back: Nat, delay: 0..MaxDelay]
    <3>1. drift' = [ahead |-> drift.ahead, back |-> drift.back, delay |-> drift.delay + 1]
      BY <2>1, <1>n
    <3>2. drift.ahead \in Nat /\ drift.back \in Nat /\ drift.delay + 1 \in 0..MaxDelay
      BY <2>1, <1>n
    <3>. QED
      BY <3>1, <3>2
  <2>. QED
    BY <2>1, <2>2, <2>3, <1>t DEF LogInv, TypeOK, HandInv, CopyInv, InHand
<1>9. CASE SetClock
  <2>1. PICK d \in ClockSteps :
          /\ skew + d > 0 /\ skew' = skew + d
          /\ drift' = [drift EXCEPT !.ahead = @ + AtLeast0(d), !.back = @ + AtLeast0(-d)]
    BY <1>9 DEF SetClock
  <2>2. clockSteps' \in 0..MaxClockSteps /\ UNCHANGED <<logFile, player, now>>
    <3>1. clockSteps < MaxClockSteps /\ clockSteps' = clockSteps + 1
      BY <1>9 DEF SetClock
    <3>2. clockSteps \in 0..MaxClockSteps
      BY <1>t DEF TypeOK
    <3>3. clockSteps' \in 0..MaxClockSteps
      BY <3>1, <3>2, Bounds
    <3>4. UNCHANGED <<logFile, player, now>>
      BY <1>9 DEF SetClock
    <3>. QED
      BY <3>3, <3>4
  <2>3. d \in Int /\ AtLeast0(d) \in Nat /\ AtLeast0(-d) \in Nat
    BY Bounds DEF AtLeast0
  <2>4. skew' \in Nat \ {0}
    BY <2>1, <2>3, <1>n
  <2>5. drift' \in [ahead: Nat, back: Nat, delay: 0..MaxDelay]
    <3> DEFINE a == AtLeast0(d)
               b == AtLeast0(-d)
    <3>1. a \in Nat /\ b \in Nat /\ drift' = [drift EXCEPT !.ahead = @ + a, !.back = @ + b]
      BY <2>1, <2>3
    <3>. HIDE DEF a, b
    <3>2. drift' = [ahead |-> drift.ahead + a, back |-> drift.back + b, delay |-> drift.delay]
      BY <3>1, <1>n
    <3>3. drift.ahead + a \in Nat /\ drift.back + b \in Nat /\ drift.delay \in 0..MaxDelay
      BY <3>1, <1>n
    <3>. QED
      BY <3>2, <3>3
  <2>. QED
    BY <2>2, <2>4, <2>5, <1>t DEF LogInv, TypeOK, HandInv, CopyInv, InHand
<1>10. CASE UNCHANGED vars
  BY <1>10, <1>t DEF vars, LogInv, TypeOK, HandInv, CopyInv, InHand
<1>. QED
  BY <1>1, <1>2, <1>3, <1>4, <1>5, <1>6, <1>7, <1>8, <1>9, <1>10 DEF Next, PlayerNext

LEMMA AlwaysLogInv == Spec => []LogInv
BY InitLogInv, StepLogInv, PTL DEF Spec

(* Whatever the logger writes meanwhile, the records of the log are        *)
(* published in its order, each once.                                      *)
THEOREM LogIsPublished == Spec => []PublishesTheLog
<1>1. LogInv => PublishesTheLog
  BY DEF LogInv, CopyInv, PublishesTheLog
<1>. QED
  BY <1>1, AlwaysLogInv, PTL

(* Playback ends only where all whole records of the log are published.    *)
THEOREM EndIsTheEnd == Spec => EndsAtTheEnd
<1>1. LogInv /\ [Next]_vars =>
        [(pc # "end" /\ pc' = "end") => Len(published) = Len(records)]_vars
  <2> SUFFICES ASSUME LogInv, Next, pc # "end", pc' = "end"
               PROVE  Len(published) = Len(records)
    OBVIOUS
  <2>t. next \in 0..Len(records) /\ Len(records) \in Nat /\ HandInv
    BY DEF LogInv, TypeOK
  <2>1. CASE Open \/ Sleep \/ PublishMessage \/ Stamp
    BY <2>1 DEF Open, Sleep, PublishMessage, Stamp
  <2>2. CASE Write \/ Pause \/ Delay \/ SetClock
    <3>1. pc' = pc
      BY <2>2 DEF Write, Pause, Delay, SetClock
    <3>. QED
      BY <3>1
  <2>3. CASE ReadSize \/ ReadPayload
    <3>1. ~(next < Len(records)) /\ pc \in {"size", "payload"}
      BY <2>3 DEF ReadSize, ReadPayload
    <3>. QED
      BY <2>t, <3>1 DEF HandInv, InHand
  <2>. QED
    BY <2>1, <2>2, <2>3 DEF Next, PlayerNext
<1>. QED
  BY <1>1, AlwaysLogInv, PTL DEF Spec, EndsAtTheEnd
-----------------------------------------------------------------------------
(* The pace.  Times are compared with the last publication, and what the   *)
(* account of the drift shows since.                                       *)
Between == {"size", "payload", "wait"}
Last == published[Len(published)]
Gained == drift.ahead - Last.drift.ahead
Slack == (drift.back - Last.drift.back) + (drift.delay - Last.drift.delay)
Gap == message.timestamp - Last.record.timestamp

(* Behind the publication now is close to it; then t_last_publish, on the  *)
(* clock as it is set, stands for it; and then the end of the pause is     *)
(* neither before nor long after the gap.                                  *)
PaceInv ==
  Len(published) > 0 =>
    /\ pc = "stamp" => Last.at <= now + Gained /\ now <= Last.at + Slack
    /\ pc \in Between =>
         /\ t_last_log = Last.record.timestamp
         /\ t_last_publish > 0
         /\ Last.at <= (t_last_publish - skew) + Gained
         /\ t_last_publish - skew <= Last.at + Slack
         /\ now <= Last.at + Slack
    /\ pc = "sleep" =>
         /\ Last.at + Gap <= wake + Gained
         /\ wake <= Last.at + AtLeast0(Gap) + Slack
         /\ now <= Last.at + AtLeast0(Gap) + Slack

TimesInv == LogInv /\ PaceInv /\ NeverFaster /\ KeepsPace

LEMMA Terms ==
  ASSUME LogInv
  PROVE  /\ published \in Seq(Publication) /\ Len(published) \in Nat
         /\ DOMAIN published = 1..Len(published)
         /\ \A p \in 1..Len(published) : published[p] \in Publication
         /\ now \in Nat /\ skew \in Nat \ {0} /\ wake \in Nat
         /\ t_last_publish \in Nat /\ t_last_log \in Nat
         /\ drift.ahead \in Nat /\ drift.back \in Nat /\ drift.delay \in Nat
         /\ pc \in InHand \cup {"stamp"} =>
              message \in Records /\ message.timestamp \in Nat
<1>t. TypeOK /\ HandInv
  BY DEF LogInv
<1>1. published \in Seq(Publication)
  BY <1>t DEF TypeOK, Publication, Drift
<1>2. /\ Len(published) \in Nat /\ DOMAIN published = 1..Len(published)
      /\ \A p \in 1..Len(published) : published[p] \in Publication
  BY <1>1, ElementOfSeq
<1>3. /\ now \in Nat /\ skew \in Nat \ {0} /\ wake \in Nat
      /\ t_last_publish \in Nat /\ t_last_log \in Nat
  BY <1>t, Bounds DEF TypeOK
<1>4. drift.ahead \in Nat /\ drift.back \in Nat /\ drift.delay \in Nat
  BY <1>t, Bounds DEF TypeOK
<1>5. ASSUME pc \in InHand \cup {"stamp"}
      PROVE  message \in Records /\ message.timestamp \in Nat
  <2>1. records \in Seq(Records) /\ next \in 1..Len(records) /\ message = records[next]
    BY <1>t, <1>5 DEF TypeOK, HandInv
  <2>2. message \in Records
    BY <2>1, ElementOfSeq
  <2>. QED
    BY <2>2, Bounds
<1>. QED
  BY <1>1, <1>2, <1>3, <1>4, <1>5

(* What remains of the steps' arithmetic when the terms have names.        *)
LEMMA PauseLongEnough ==
  ASSUME NEW at \in Int, NEW gap \in Int, NEW t \in Int, NEW k \in Int,
         NEW publish \in Int, NEW m \in Int, NEW n \in Int, NEW gain \in Int,
         m + n >= gap - ((t + k) - publish), at <= (publish - k) + gain
  PROVE  at + gap <= (t + m) + (gain + n)
OBVIOUS

LEMMA PauseShortEnough ==
  ASSUME NEW at \in Int, NEW gap \in Int, NEW t \in Int, NEW k \in Int,
         NEW publish \in Int, NEW m \in Int, NEW n \in Nat, NEW slack \in Int,
         m + n = AtLeast0(gap - ((t + k) - publish)),
         publish - k <= at + slack, t <= at + slack
  PROVE  /\ t + m <= at + AtLeast0(gap) + slack
         /\ t <= at + AtLeast0(gap) + slack
BY DEF AtLeast0

LEMMA SlackGrows ==
  ASSUME NEW x \in Int, NEW y \in Int, NEW u \in Int, NEW w \in Int, NEW n \in Int
  PROVE  /\ ((x + n) - y) + (u - w) = ((x - y) + (u - w)) + n
         /\ (x - y) + ((u + n) - w) = ((x - y) + (u - w)) + n
OBVIOUS

LEMMA LastTerms ==
  ASSUME LogInv, Len(published) > 0
  PROVE  /\ Last \in Publication /\ Last.at \in Nat
         /\ Last.record.timestamp \in Nat \ {0}
         /\ Last.drift.ahead \in Nat /\ Last.drift.back \in Nat /\ Last.drift.delay \in Nat
<1>1. Last \in Publication
  BY Terms DEF Last
<1>. QED
  BY <1>1, Bounds DEF Publication, Drift

(* The steps that publish nothing.                                         *)
LEMMA QuietPace ==
  ASSUME LogInv, PaceInv, [Next]_vars, UNCHANGED published
  PROVE  PaceInv'
<1> SUFFICES ASSUME Len(published) > 0 PROVE PaceInv'
  BY DEF PaceInv
<1>n. /\ now \in Nat /\ skew \in Nat \ {0} /\ wake \in Nat
      /\ t_last_publish \in Nat /\ t_last_log \in Nat
      /\ drift.ahead \in Nat /\ drift.back \in Nat /\ drift.delay \in Nat
      /\ pc \in InHand \cup {"stamp"} =>
           message \in Records /\ message.timestamp \in Nat
  BY Terms
<1>l. /\ Last.at \in Nat /\ Last.record.timestamp \in Nat \ {0}
      /\ Last.drift.ahead \in Nat /\ Last.drift.back \in Nat /\ Last.drift.delay \in Nat
  BY LastTerms
<1>d. drift.ahead \in Nat /\ drift.back \in Nat /\ drift.delay \in Nat
  BY <1>n
<1>e. Last.drift.ahead \in Nat /\ Last.drift.back \in Nat /\ Last.drift.delay \in Nat
  BY <1>l
<1>a. now \in Nat /\ skew \in Nat /\ wake \in Nat /\ t_last_publish \in Nat /\ Last.at \in Nat
  BY <1>n, <1>l
<1>u. Last' = Last /\ Len(published') > 0
  BY DEF Last
<1>. HIDE DEF Last
<1>i. Gained \in Int /\ Slack \in Int
  BY <1>d, <1>e DEF Gained, Slack
<1>g. pc \in InHand => Gap \in Int /\ AtLeast0(Gap) \in Int
  <2> SUFFICES ASSUME pc \in InHand PROVE Gap \in Int /\ AtLeast0(Gap) \in Int
    OBVIOUS
  <2>1. message.timestamp \in Nat /\ Last.record.timestamp \in Nat
    BY <1>n, <1>l
  <2>2. Gap \in Int
    BY <2>1 DEF Gap
  <2>. QED
    BY <2>2, AtLeast0Type
<1>0. CASE Open
  BY <1>0 DEF Open, LogInv, HandInv, InHand
<1>1. CASE ReadSize
  BY <1>1, <1>u DEF ReadSize, PaceInv, Between, Gained, Slack, Gap
<1>2. CASE ReadPayload
  BY <1>2, <1>u DEF ReadPayload, PaceInv, Between, Gained, Slack, Gap
<1>3. CASE Sleep
  <2> DEFINE m == t_wait % SleepModulus
             n == t_wait - m
  <2>1. /\ pc = "wait" /\ pc' = "sleep" /\ wake' = now + m
        /\ message' = message /\ now' = now
    BY <1>3 DEF Sleep
  <2>d. drift' = [drift EXCEPT !.ahead = @ + n]
    BY <1>3 DEF Sleep
  <2>8. /\ t_last_log = Last.record.timestamp /\ t_last_publish > 0
        /\ Last.at <= (t_last_publish - skew) + Gained
        /\ t_last_publish - skew <= Last.at + Slack
        /\ now <= Last.at + Slack
    BY <2>1 DEF PaceInv, Between
  <2>14. message.timestamp \in Nat
    BY <2>1, <1>n DEF InHand
  <2>2. /\ delta_t_log = Gap /\ Gap \in Int
        /\ delta_t_publisher = (now + skew) - t_last_publish
    BY <2>8, <2>14, <1>l DEF delta_t_log, delta_t_publisher, GetTimeUSec, Gap
  <2>3. t_wait = AtLeast0(Gap - ((now + skew) - t_last_publish))
    BY <2>2 DEF t_wait
  <2>4. t_wait \in Nat
    BY <2>2, <2>3, <1>n, AtLeast0Type
  <2>5. m \in Nat /\ n \in Nat /\ m + n = t_wait
    BY <2>4, Bounds
  <2>. HIDE DEF m, n, t_wait
  <2>6. drift'.ahead = drift.ahead + n /\ drift'.back = drift.back /\ drift'.delay = drift.delay
    <3>1. drift \in [ahead: Nat, back: Nat, delay: 0..MaxDelay]
      BY DEF LogInv, TypeOK
    <3>. QED
      BY <2>d, <3>1
  <2>7. Gap' = Gap
    BY <2>1, <1>u DEF Gap
  <2>9. Gained' = Gained + n /\ Slack' = Slack
    BY <2>5, <2>6, <1>d, <1>e, <1>u DEF Gained, Slack
  <2>. HIDE DEF Gap, Gained, Slack
  <2>10. t_wait >= Gap - ((now + skew) - t_last_publish)
    BY <2>2, <2>3, <1>n, AtLeast0Type
  <2>11. Last.at + Gap <= (now + m) + (Gained + n)
    <3>1. m + n >= Gap - ((now + skew) - t_last_publish)
      BY <2>5, <2>10
    <3>2. now \in Int /\ skew \in Int /\ t_last_publish \in Int /\ m \in Int /\ n \in Int
          /\ Last.at \in Int
      BY <2>5, <1>n, <1>l
    <3>. QED
      BY <3>1, <3>2, <2>2, <2>8, <1>i, PauseLongEnough
  <2>12. /\ now + m <= Last.at + AtLeast0(Gap) + Slack
         /\ now <= Last.at + AtLeast0(Gap) + Slack
    <3>1. m + n = AtLeast0(Gap - ((now + skew) - t_last_publish))
      BY <2>3, <2>5
    <3>2. now \in Int /\ skew \in Int /\ t_last_publish \in Int /\ m \in Int /\ n \in Nat
          /\ Last.at \in Int
      BY <2>5, <1>n, <1>l
    <3>. QED
      BY <3>1, <3>2, <2>2, <2>8, <1>i, PauseShortEnough
  <2>. QED
    BY <2>1, <2>7, <2>9, <2>11, <2>12, <1>u DEF PaceInv, Between
<1>4. CASE PublishMessage
  <2>1. Len(published') = Len(published) + 1
    BY <1>4, Terms DEF PublishMessage
  <2>. QED
    BY <2>1, Terms
<1>5. CASE Stamp
  <2>1. /\ pc = "stamp" /\ pc' = "size"
        /\ t_last_publish' = now + skew /\ t_last_log' = message.timestamp
        /\ UNCHANGED <<now, skew, drift>>
    BY <1>5 DEF Stamp, GetTimeUSec
  <2>2. message = Last.record
    BY <2>1, Terms DEF LogInv, HandInv, CopyInv, InHand, Last
  <2>3. Last.at <= now + Gained /\ now <= Last.at + Slack
    BY <2>1 DEF PaceInv
  <2>. QED
    BY <2>1, <2>2, <2>3, <1>n, <1>l, <1>u DEF PaceInv, Between, Gained, Slack
<1>6. CASE Write
  BY <1>6, <1>u DEF Write, PaceInv, Between, Gained, Slack, Gap
<1>7. CASE Pause
  <2>1. /\ pc = "sleep" /\ now < wake /\ now' = now + 1
        /\ pc' = pc /\ wake' = wake /\ message' = message /\ drift' = drift
    BY <1>7 DEF Pause
  <2>2. Gained' = Gained /\ Slack' = Slack /\ Gap' = Gap
    BY <2>1, <1>u DEF Gained, Slack, Gap
  <2>3. Last.at + Gap <= wake + Gained /\ wake <= Last.at + AtLeast0(Gap) + Slack
    BY <2>1 DEF PaceInv
  <2>4. Gap \in Int /\ AtLeast0(Gap) \in Int
    BY <2>1, <1>g DEF InHand
  <2>. HIDE DEF Gained, Slack, Gap
  <2>5. now + 1 <= Last.at + AtLeast0(Gap) + Slack
    BY <2>1, <2>3, <2>4, <1>i, <1>a
  <2>. QED
    BY <2>1, <2>2, <2>3, <2>5, <1>u DEF PaceInv, Between
<1>8. CASE Delay
  <2>1. /\ pc = "sleep" => now >= wake
        /\ now' = now + 1
        /\ UNCHANGED <<player, skew>>
    BY <1>8 DEF Delay
  <2>d. drift' = [drift EXCEPT !.delay = @ + 1]
    BY <1>8 DEF Delay
  <2>2. drift'.ahead = drift.ahead /\ drift'.back = drift.back /\ drift'.delay = drift.delay + 1
    <3>1. drift \in [ahead: Nat, back: Nat, delay: 0..MaxDelay]
      BY DEF LogInv, TypeOK
    <3>. QED
      BY <2>d, <3>1
  <2>3. Gained' = Gained /\ Slack' = Slack + 1
    <3>1. Gained' = Gained
      BY <2>2, <1>u DEF Gained
    <3>2. Slack' = (drift.back - Last.drift.back) + ((drift.delay + 1) - Last.drift.delay)
      BY <2>2, <1>u DEF Slack
    <3>3. Slack = (drift.back - Last.drift.back) + (drift.delay - Last.drift.delay)
      BY DEF Slack
    <3>4. Slack' = Slack + 1
      <4>1. /\ drift.back \in Int /\ Last.drift.back \in Int
            /\ drift.delay \in Int /\ Last.drift.delay \in Int /\ 1 \in Int
        BY <1>d, <1>e
      <4>2. (drift.back - Last.drift.back) + ((drift.delay + 1) - Last.drift.delay)
              = ((drift.back - Last.drift.back) + (drift.delay - Last.drift.delay)) + 1
        BY <4>1, SlackGrows
      <4>. QED
        BY <4>2, <3>2, <3>3
    <3>. QED
      BY <3>1, <3>4
  <2>4. Gap' = Gap
    BY <2>1, <1>u DEF Gap
  <2>5. pc = "sleep" => Gap \in Int /\ AtLeast0(Gap) \in Int
    BY <1>g DEF InHand
  <2>. HIDE DEF Gained, Slack, Gap
  <2>6. CASE pc = "stamp"
    BY <2>6, <2>1, <2>3, <1>i, <1>a, <1>u DEF PaceInv, Between
  <2>7. CASE pc \in Between
    BY <2>7, <2>1, <2>3, <1>i, <1>a, <1>u DEF PaceInv, Between
  <2>8. CASE pc = "sleep"
    BY <2>8, <2>1, <2>3, <2>4, <2>5, <1>i, <1>a, <1>u DEF PaceInv, Between
  <2>. QED
    BY <2>1, <2>6, <2>7, <2>8 DEF PaceInv
<1>9. CASE SetClock
  <2>1. PICK d \in ClockSteps :
          /\ skew' = skew + d
          /\ drift' = [drift EXCEPT !.ahead = @ + AtLeast0(d), !.back = @ + AtLeast0(-d)]
    BY <1>9 DEF SetClock
  <2>2. UNCHANGED <<player, now>>
    BY <1>9 DEF SetClock
  <2> DEFINE a == AtLeast0(d)
             b == AtLeast0(-d)
  <2>3. d \in Int /\ a \in Nat /\ b \in Nat /\ a >= d /\ b >= -d
    BY Bounds DEF AtLeast0
  <2>4. drift' = [drift EXCEPT !.ahead = @ + a, !.back = @ + b]
    BY <2>1
  <2>6. skew' = skew + d
    BY <2>1
  <2>. HIDE DEF a, b
  <2>5. drift'.ahead = drift.ahead + a /\ drift'.back = drift.back + b /\ drift'.delay = drift.delay
    <3>1. drift \in [ahead: Nat, back: Nat, delay: 0..MaxDelay]
      BY DEF LogInv, TypeOK
    <3>. QED
      BY <2>4, <3>1
  <2>7. Gained' = Gained + a /\ Slack' = Slack + b
    <3>1. /\ Gained' = (drift.ahead + a) - Last.drift.ahead
          /\ Slack' = ((drift.back + b) - Last.drift.back) + (drift.delay - Last.drift.delay)
      BY <2>5, <1>u DEF Gained, Slack
    <3>2. /\ Gained = drift.ahead - Last.drift.ahead
          /\ Slack = (drift.back - Last.drift.back) + (drift.delay - Last.drift.delay)
      BY DEF Gained, Slack
    <3>n. /\ drift.back \in Int /\ Last.drift.back \in Int /\ drift.ahead \in Int
          /\ drift.delay \in Int /\ Last.drift.delay \in Int /\ Last.drift.ahead \in Int
          /\ a \in Int /\ b \in Int
      BY <2>3, <1>d, <1>e
    <3>4. ((drift.back + b) - Last.drift.back) + (drift.delay - Last.drift.delay)
            = ((drift.back - Last.drift.back) + (drift.delay - Last.drift.delay)) + b
      BY <3>n, SlackGrows
    <3>5. (drift.ahead + a) - Last.drift.ahead = (drift.ahead - Last.drift.ahead) + a
      BY <3>n
    <3>3. Gained' = Gained + a /\ Slack' = Slack + b
      BY <3>1, <3>2, <3>4, <3>5
    <3>. QED
      BY <3>3
  <2>8. Gap' = Gap
    BY <2>2, <1>u DEF Gap
  <2>9. pc = "sleep" => Gap \in Int /\ AtLeast0(Gap) \in Int
    BY <1>g DEF InHand
  <2>. HIDE DEF Gained, Slack, Gap
  <2>10. CASE pc = "stamp"
    BY <2>10, <2>2, <2>3, <2>7, <1>i, <1>a, <1>u DEF PaceInv, Between
  <2>11. CASE pc \in Between
    BY <2>11, <2>2, <2>3, <2>6, <2>7, <1>i, <1>a, <1>u DEF PaceInv, Between
  <2>12. CASE pc = "sleep"
    BY <2>12, <2>2, <2>3, <2>7, <2>8, <2>9, <1>i, <1>a, <1>u DEF PaceInv, Between
  <2>. QED
    BY <2>2, <2>10, <2>11, <2>12 DEF PaceInv
<1>10. CASE UNCHANGED vars
  BY <1>10, <1>u DEF vars, PaceInv, Between, Gained, Slack, Gap
<1>. QED
  BY <1>0, <1>1, <1>2, <1>3, <1>4, <1>5, <1>6, <1>7, <1>8, <1>9, <1>10
     DEF Next, PlayerNext

(* A publication is compared with the one before; NeverFaster then carries *)
(* it back to all earlier ones.                                            *)
LEMMA PublishTimes ==
  ASSUME TimesInv, PublishMessage
  PROVE  PaceInv' /\ NeverFaster' /\ KeepsPace'
<1> DEFINE N == Len(published)
           r == [record |-> message, at |-> now, drift |-> drift]
<1>v. LogInv /\ PaceInv /\ NeverFaster /\ KeepsPace
  BY DEF TimesInv
<1>1. /\ pc = "sleep" /\ pc' = "stamp" /\ now >= wake
      /\ published' = Append(published, r)
      /\ now' = now /\ drift' = drift /\ message' = message
  BY DEF PublishMessage
<1>2. /\ published \in Seq(Publication) /\ N \in Nat /\ DOMAIN published = 1..N
      /\ \A p \in 1..N : published[p] \in Publication
      /\ now \in Nat /\ wake \in Nat
      /\ drift.ahead \in Nat /\ drift.back \in Nat /\ drift.delay \in Nat
      /\ message \in Records /\ message.timestamp \in Nat
  BY <1>1, <1>v, Terms DEF InHand
<1>t. /\ now \in Int /\ message.timestamp \in Int
      /\ drift.ahead \in Int
  BY <1>2
<1>3. r \in Publication
  <2>1. drift \in Drift
    BY <1>v, Bounds DEF LogInv, TypeOK, Drift
  <2>. QED
    BY <2>1, <1>2 DEF Publication
<1>4. r.record = message /\ r.at = now /\ r.drift = drift
  OBVIOUS
<1>. HIDE DEF r
<1>5. /\ published' \in Seq(Publication) /\ Len(published') = N + 1
      /\ \A p \in 1..N : published'[p] = published[p]
      /\ published'[N + 1] = r
      /\ DOMAIN published' = 1..(N + 1)
  BY <1>1, <1>2, <1>3, AppendProperties
<1>. HIDE DEF N
<1>6. Last' = r
  BY <1>5 DEF Last
<1>7. PaceInv'
  <2>1. Gained' = 0 /\ Slack' = 0
    BY <1>1, <1>2, <1>4, <1>6 DEF Gained, Slack
  <2>2. Last'.at <= now' + Gained' /\ now' <= Last'.at + Slack'
    BY <2>1, <1>1, <1>2, <1>4, <1>6
  <2>. QED
    BY <2>2, <1>1 DEF PaceInv, Between
<1>8. ASSUME N > 0
      PROVE  /\ Last.at + Gap <= now + Gained
             /\ now <= Last.at + AtLeast0(Gap) + Slack
  <2>1. /\ Last.at + Gap <= wake + Gained
        /\ now <= Last.at + AtLeast0(Gap) + Slack
    BY <1>1, <1>8, <1>v DEF PaceInv, N
  <2>2. /\ Last.at \in Nat /\ Last.record.timestamp \in Nat
        /\ Last.drift.ahead \in Nat
    BY <1>8, <1>v, LastTerms DEF N
  <2>3. Gained \in Int
    BY <2>2, <1>2 DEF Gained
  <2>4. Gap \in Int
    BY <2>2, <1>2 DEF Gap
  <2>. HIDE DEF Gained, Gap, Last
  <2>. QED
    BY <2>1, <2>2, <2>3, <2>4, <1>1, <1>2
<1>9. KeepsPace'
  <2> SUFFICES ASSUME NEW p \in 1..(Len(published') - 1)
               PROVE  published'[p + 1].at - published'[p].at
                        <= AtLeast0(published'[p + 1].record.timestamp
                                    - published'[p].record.timestamp)
                           + (published'[p + 1].drift.back - published'[p].drift.back)
                           + (published'[p + 1].drift.delay - published'[p].drift.delay)
    BY DEF KeepsPace
  <2>1. p \in 1..N
    BY <1>2, <1>5
  <2>2. CASE p = N
    <3>1. published'[p] = Last /\ published'[p + 1] = r /\ N > 0
      BY <2>1, <2>2, <1>2, <1>5 DEF Last, N
    <3>2. Last.at \in Nat
      BY <3>1, <1>v, LastTerms DEF N
    <3>3. Slack \in Int
      <4>1. Last.drift.back \in Nat /\ Last.drift.delay \in Nat
        BY <3>1, <1>v, LastTerms DEF N
      <4>. QED
        BY <4>1, <1>2 DEF Slack
    <3>4. AtLeast0(Gap) \in Int
      <4>1. Last.record.timestamp \in Nat
        BY <3>1, <1>v, LastTerms DEF N
      <4>2. Gap \in Int
        BY <4>1, <1>2 DEF Gap
      <4>. QED
        BY <4>2, AtLeast0Type
    <3>5. now - Last.at <= AtLeast0(Gap) + Slack
      BY <3>1, <3>2, <3>3, <3>4, <1>8, <1>2
    <3>6. now - Last.at <= AtLeast0(Gap) + (drift.back - Last.drift.back)
                            + (drift.delay - Last.drift.delay)
      <4>1. /\ Last.drift.back \in Nat /\ Last.drift.delay \in Nat
        BY <3>1, <1>v, LastTerms DEF N
      <4>. QED
        BY <4>1, <3>4, <3>5, <1>2 DEF Slack
    <3>. QED
      BY <3>1, <3>6, <1>4 DEF Gap
  <2>3. CASE p # N
    <3>1. p \in 1..(N - 1) /\ p + 1 \in 1..N
      BY <2>1, <2>3, <1>2
    <3>2. published'[p] = published[p] /\ published'[p + 1] = published[p + 1]
      BY <3>1, <2>1, <1>5
    <3>. QED
      BY <3>1, <3>2, <1>v DEF KeepsPace, N
  <2>. QED
    BY <2>2, <2>3
<1>10. NeverFaster'
  <2> SUFFICES ASSUME NEW p \in 1..(N + 1), NEW q \in 1..(N + 1), p < q
               PROVE  published'[q].at - published'[p].at
                        >= published'[q].record.timestamp
                           - published'[p].record.timestamp
                           - (published'[q].drift.ahead - published'[p].drift.ahead)
    BY <1>5 DEF NeverFaster
  <2>1. p \in 1..N /\ published'[p] = published[p]
    BY <1>2, <1>5
  <2>2. CASE q # N + 1
    <3>1. q \in 1..N /\ published'[q] = published[q]
      BY <2>2, <1>2, <1>5
    <3>. QED
      BY <2>1, <3>1, <1>2, <1>v DEF NeverFaster
  <2>3. CASE q = N + 1
    <3>1. N > 0 /\ published'[q] = r
      BY <2>1, <2>3, <1>2, <1>5
    <3>2. now - Last.at >= message.timestamp - Last.record.timestamp
                             - (drift.ahead - Last.drift.ahead)
      <4>1. /\ Last.at \in Nat /\ Last.record.timestamp \in Nat /\ Last.drift.ahead \in Nat
        BY <3>1, <1>v, LastTerms DEF N
      <4>2. Last.at + Gap <= now + Gained
        BY <3>1, <1>8
      <4>. QED
        BY <4>1, <4>2, <1>t DEF Gap, Gained
    <3>3. CASE p = N
      BY <3>1, <3>2, <3>3, <2>1, <1>4 DEF Last, N
    <3>4. CASE p # N
      <4>1. p < N /\ N \in 1..N
        BY <2>1, <3>4, <1>2
      <4>2. Last.at - published[p].at
              >= Last.record.timestamp - published[p].record.timestamp
                 - (Last.drift.ahead - published[p].drift.ahead)
        BY <4>1, <2>1, <1>2, <1>v DEF NeverFaster, Last, N
      <4>3. /\ Last.at \in Int /\ Last.record.timestamp \in Int /\ Last.drift.ahead \in Int
        BY <3>1, <1>v, LastTerms DEF N
      <4>4. /\ published[p].at \in Int /\ published[p].record.timestamp \in Int
            /\ published[p].drift.ahead \in Int
        <5>1. published[p] \in Publication
          BY <2>1, <1>2
        <5>. QED
          BY <5>1, Bounds DEF Publication, Drift
      <4>. HIDE DEF Last
      <4>5. now - published[p].at
              >= message.timestamp - published[p].record.timestamp
                 - (drift.ahead - published[p].drift.ahead)
        BY <4>2, <4>3, <4>4, <3>2, <1>t
      <4>. QED
        BY <4>5, <3>1, <2>1, <1>4
    <3>. QED
      BY <3>3, <3>4
  <2>. QED
    BY <2>2, <2>3
<1>. QED
  BY <1>7, <1>9, <1>10

LEMMA AlwaysTimesInv == Spec => []TimesInv
<1>1. Init => TimesInv
  <2> SUFFICES ASSUME Init PROVE TimesInv
    OBVIOUS
  <2>1. published = <<>> /\ Len(published) = 0 /\ DOMAIN published = {}
    BY DEF Init
  <2>2. PaceInv /\ NeverFaster
    BY <2>1 DEF PaceInv, NeverFaster
  <2>3. KeepsPace
    BY <2>1 DEF KeepsPace
  <2>. QED
    BY <2>2, <2>3, InitLogInv DEF TimesInv
<1>2. TimesInv /\ [Next]_vars => TimesInv'
  <2> SUFFICES ASSUME TimesInv, [Next]_vars PROVE TimesInv'
    OBVIOUS
  <2>1. LogInv'
    BY StepLogInv DEF TimesInv
  <2>2. CASE PublishMessage
    BY <2>1, <2>2, PublishTimes DEF TimesInv
  <2>3. CASE ~PublishMessage
    <3>1. UNCHANGED published
      BY <2>3 DEF Next, PlayerNext, Open, ReadSize, ReadPayload, Sleep, Stamp,
         Write, Pause, Delay, SetClock, vars
    <3>2. PaceInv'
      BY <3>1, QuietPace DEF TimesInv
    <3>. QED
      BY <2>1, <3>1, <3>2 DEF TimesInv, NeverFaster, KeepsPace
  <2>. QED
    BY <2>2, <2>3
<1>. QED
  BY <1>1, <1>2, PTL DEF Spec

(* No two records are published closer than they were received, but for    *)
(* what the clock was set ahead and for pauses that were cut.              *)
THEOREM NotFaster == Spec => []NeverFaster
BY AlwaysTimesInv, PTL DEF TimesInv

(* No pause is longer than the gap in the log, but for what the clock was  *)
(* set back and the delays since the last record.                          *)
THEOREM PaceIsKept == Spec => []KeepsPace
BY AlwaysTimesInv, PTL DEF TimesInv
=============================================================================
