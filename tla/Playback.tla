------------------------------ MODULE Playback ------------------------------
(***************************************************************************)
(* playback: reads a log record by record and publishes each one as long   *)
(* after its predecessor as their timestamps are apart.                    *)
(*                                                                         *)
(* The log may still grow, or end in a half written record.  Time is now,  *)
(* which nothing stops, and the wall clock GetTimeUSec reads, which may be *)
(* set.  The differences of uint64_t times, taken as int64_t, are the      *)
(* signed differences.                                                     *)
(***************************************************************************)
EXTENDS LogFile, Integers

CONSTANTS
  SleepModulus,  (* usleep takes 32 bits: 2^32 microseconds                *)
  WallClock,     (* what it shows when playback starts                     *)
  ClockSteps,    (* the amounts by which it may be set                     *)
  MaxRecords,    (* bound: records the logger begins                       *)
  MaxClockSteps, (* bound: how often the clock is set                      *)
  MaxDelay       (* bound: time that passes outside the pauses             *)

ASSUME TimesAssumption ==
  /\ SleepModulus \in Nat \ {0}
  /\ WallClock \in Nat \ {0}
  /\ \A r \in Records : r.timestamp \in Nat \ {0}
  /\ ClockSteps \subseteq Int
  /\ MaxClockSteps \in Nat
  /\ MaxDelay \in Nat

VARIABLES
  message,         (* the record that was read last                        *)
  next,            (* how many were read                                   *)
  t_last_publish,
  t_last_log,
  wake,            (* when the pause before the next publication ends      *)
  published,       (* what was published, when, and the drift by then      *)
  now,
  skew,            (* how far the wall clock is ahead of now               *)
  clockSteps,      (* how often it was set                                 *)
  drift,           (* by how much in all it was set ahead (or a pause cut) *)
                   (* and back, and how much time passed outside pauses    *)
  pc

player == <<message, next, t_last_publish, t_last_log, wake, published, pc>>
time == <<now, skew, clockSteps, drift>>
vars == <<logFile, player, time>>

Init ==
  /\ InitLog
  /\ message = NoRecord
  /\ next = 0
  /\ t_last_publish = 0
  /\ t_last_log = 0
  /\ wake = 0
  /\ published = <<>>
  /\ now = 0
  /\ skew = WallClock
  /\ clockSteps = 0
  /\ drift = [ahead |-> 0, back |-> 0, delay |-> 0]
  /\ pc = "open"

GetTimeUSec == now + skew

(* A missing log ends the process with 1, a missing socket with 0.         *)
Open ==
  /\ pc = "open"
  /\ pc' \in {"size", "exit"}
  /\ UNCHANGED <<logFile, time, message, next, t_last_publish, t_last_log, wake,
                 published>>

(* Mutant of the next one: at the end of the file it waits for more.       *)
FollowLog ==
  /\ pc = "size"
  /\ pc' = IF next < Len(records) \/ half # NoRecord THEN "payload" ELSE "size"
  /\ UNCHANGED <<logFile, time, message, next, t_last_publish, t_last_log, wake,
                 published>>

(* ReadUDPMessageWrapper: two freads, each of which finds what is in the   *)
(* file by then.  What is not complete ends the playback.                  *)
ReadSize ==
  /\ pc = "size"
  /\ pc' = IF next < Len(records) \/ half # NoRecord THEN "payload" ELSE "end"
  /\ UNCHANGED <<logFile, time, message, next, t_last_publish, t_last_log, wake,
                 published>>

(* Mutant of the next one: the number of bytes read is not compared.       *)
ReadUnchecked ==
  /\ pc = "payload"
  /\ message' = IF next < Len(records) THEN records[next + 1] ELSE message
  /\ next' = next + 1
  /\ pc' = "wait"
  /\ UNCHANGED <<logFile, time, t_last_publish, t_last_log, wake, published>>

ReadPayload ==
  /\ pc = "payload"
  /\ IF next < Len(records)
       THEN /\ message' = records[next + 1]
            /\ next' = next + 1
            /\ pc' = "wait"
       ELSE /\ pc' = "end"
            /\ UNCHANGED <<message, next>>
  /\ UNCHANGED <<logFile, time, t_last_publish, t_last_log, wake, published>>

delta_t_log ==
  IF t_last_log > 0 THEN message.timestamp - t_last_log ELSE 0
delta_t_publisher ==
  IF t_last_publish > 0 THEN GetTimeUSec - t_last_publish ELSE 0

AtLeast0(n) == IF n > 0 THEN n ELSE 0

(* Mutant of the next one: max<int64_t> forgotten, so that a negative      *)
(* pause becomes a long one of 32 bits.                                    *)
t_wait_signed == delta_t_log - delta_t_publisher

t_wait == AtLeast0(delta_t_log - delta_t_publisher)

(* usleep(t_wait).                                                         *)
Sleep ==
  /\ pc = "wait"
  /\ wake' = now + (t_wait % SleepModulus)
  /\ drift' = [drift EXCEPT !.ahead = @ + (t_wait - (t_wait % SleepModulus))]
  /\ pc' = "sleep"
  /\ UNCHANGED <<logFile, message, next, t_last_publish, t_last_log, published,
                 now, skew, clockSteps>>

(* Mutant of the next one: it gives up at the first failure.               *)
PublishOrStop ==
  /\ pc = "sleep"
  /\ now >= wake
  /\ \E sent \in BOOLEAN :
       /\ published' = Append(published,
            [record |-> message, at |-> now, drift |-> drift])
       /\ pc' = IF sent THEN "stamp" ELSE "end"
  /\ UNCHANGED <<logFile, time, message, next, t_last_publish, t_last_log, wake>>

(* PublishMessage.  Whether the address is known (setHost) and the         *)
(* datagram sent changes what is printed, and nothing else.                *)
PublishMessage ==
  /\ pc = "sleep"
  /\ now >= wake
  /\ published' = Append(published,
       [record |-> message, at |-> now, drift |-> drift])
  /\ pc' = "stamp"
  /\ UNCHANGED <<logFile, time, message, next, t_last_publish, t_last_log, wake>>

(* Mutant of the next one: the time of the publication stays what it was.  *)
StampPublishOnce ==
  /\ pc = "stamp"
  /\ t_last_publish' = IF t_last_publish = 0 THEN GetTimeUSec ELSE t_last_publish
  /\ t_last_log' = message.timestamp
  /\ pc' = "size"
  /\ UNCHANGED <<logFile, time, message, next, wake, published>>

Stamp ==
  /\ pc = "stamp"
  /\ t_last_publish' = GetTimeUSec
  /\ t_last_log' = message.timestamp
  /\ pc' = "size"
  /\ UNCHANGED <<logFile, time, message, next, wake, published>>

-----------------------------------------------------------------------------
(* The environment: a logger that still writes, and time.                  *)

Write ==
  /\ pc \notin {"end", "exit"}
  /\ NextLog
  /\ half = NoRecord => Len(records) < MaxRecords
  /\ UNCHANGED <<player, time>>

Pause ==
  /\ pc = "sleep"
  /\ now < wake
  /\ now' = now + 1
  /\ UNCHANGED <<logFile, player, skew, clockSteps, drift>>

(* The scheduler, the disk, or usleep takes longer.                        *)
Delay ==
  /\ pc \notin {"open", "end", "exit"}
  /\ pc = "sleep" => now >= wake
  /\ drift.delay < MaxDelay
  /\ now' = now + 1
  /\ drift' = [drift EXCEPT !.delay = @ + 1]
  /\ UNCHANGED <<logFile, player, skew, clockSteps>>

(* It is not set back to 1970: 0 stands for "nothing published yet".       *)
SetClock ==
  /\ pc \notin {"open", "end", "exit"}
  /\ clockSteps < MaxClockSteps
  /\ clockSteps' = clockSteps + 1
  /\ \E d \in ClockSteps :
       /\ skew + d > 0
       /\ skew' = skew + d
       /\ drift' = [drift EXCEPT !.ahead = @ + AtLeast0(d),
                                 !.back = @ + AtLeast0(-d)]
  /\ UNCHANGED <<logFile, player, now>>

PlayerNext ==
  \/ Open \/ ReadSize \/ ReadPayload \/ Sleep \/ PublishMessage \/ Stamp

Next == PlayerNext \/ Write \/ Pause \/ Delay \/ SetClock

Spec == Init /\ [][Next]_vars

(* The player runs while it can, and a pause passes.  Nothing is assumed   *)
(* of the logger.                                                          *)
FairSpec == Spec /\ WF_vars(PlayerNext) /\ WF_vars(Pause)
-----------------------------------------------------------------------------
(* Types of the variables; the player is never ahead of the log.           *)
TypeOK ==
  /\ records \in Seq(Records)
  /\ half \in Records \cup {NoRecord}
  /\ message \in Records \cup {NoRecord}
  /\ next \in 0..Len(records)
  /\ t_last_publish \in Nat
  /\ t_last_log \in Nat
  /\ now \in Nat
  /\ wake \in 0..(now + SleepModulus)
  /\ skew \in Nat \ {0}
  /\ clockSteps \in 0..MaxClockSteps
  /\ drift \in [ahead: Nat, back: Nat, delay: 0..MaxDelay]
  /\ published \in Seq([record: Records, at: Nat,
                        drift: [ahead: Nat, back: Nat, delay: Nat]])
  /\ pc \in {"open", "size", "payload", "wait", "sleep", "stamp", "end", "exit"}

(* What is published are the whole records of the log in its order, each   *)
(* once, even if the logger is killed, or writes, while the log is read.   *)
PublishesTheLog ==
  /\ TypeOK
  /\ \A p \in DOMAIN published :
       p <= Len(records) /\ published[p].record = records[p]

(* Playback ends at the first record that is not whole, and not before:    *)
(* no address that is unknown and no datagram that cannot be sent stops it.*)
EndsAtTheEnd ==
  [][(pc # "end" /\ pc' = "end") => Len(published) = Len(records)]_vars

(* However late single records are in the log (see LateRecordsBounded of   *)
(* Logger), two records are published at least as far apart as they were   *)
(* received.  Only the wall clock, by as much as it is set ahead, and      *)
(* pauses of more than 32 bits bring them closer.                          *)
NeverFaster ==
  \A p, q \in DOMAIN published : p < q =>
    published[q].at - published[p].at
      >= published[q].record.timestamp - published[p].record.timestamp
         - (published[q].drift.ahead - published[p].drift.ahead)

(* No pause is longer than the gap in the log but for what the clock was   *)
(* set back meanwhile: delays do not add up, and a record out of order     *)
(* makes none.                                                             *)
KeepsPace ==
  \A p \in 1..(Len(published) - 1) :
    LET r == published[p]
        s == published[p + 1]
    IN  s.at - r.at <= AtLeast0(s.record.timestamp - r.record.timestamp)
                       + (s.drift.back - r.drift.back)
                       + (s.drift.delay - r.drift.delay)

(* Playback comes to an end, also on a log whose logger goes on writing    *)
(* for a while or left a half record.                                      *)
PlaybackEnds == <>(pc \in {"end", "exit"})
=============================================================================
