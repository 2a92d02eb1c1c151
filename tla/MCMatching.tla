---------------------------- MODULE MCMatching ----------------------------
(***************************************************************************)
(* Small instances of Matching.  Timestamps are 0 ("no STOP seen") or one  *)
(* of Stamps, far enough from 0 that only a missing STOP makes a           *)
(* subtraction wrap, as microseconds since 1970 are.  Lists are ordered in *)
(* time, as RefereeLog's EventsOrdered shows of the lists that             *)
(* IndexRefereeEvents builds from a referee whose clock does not go back.  *)
(***************************************************************************)
EXTENDS Matching, SequencesExt

CONSTANTS Stamps, Kinds, MaxHuman, MaxAutoref, Unstopped

Stop0 == IF Unstopped THEN {0} ELSE {}

MCEvents(n) ==
  { e \in [stop_timestamp: Stamps \cup Stop0, command_timestamp: Stamps,
           command_counter: {n}, command: Kinds] :
      e.stop_timestamp < e.command_timestamp }

MCOrdered(e, f) ==
  /\ e.command_timestamp <= f.command_timestamp
  /\ f.stop_timestamp = 0 \/ e.command_timestamp <= f.stop_timestamp

(* All ordered event lists of exactly n events.                            *)
MCLists[n \in 0..3] ==
  IF n = 0 THEN {<<>>}
  ELSE { Append(p[1], p[2]) :
           p \in { q \in MCLists[n - 1] \X MCEvents(n) :
                     n = 1 \/ MCOrdered(q[1][n - 1], q[2]) } }

MCUpTo(n) == UNION { MCLists[i] : i \in 0..n }
MCHumanLogs == MCUpTo(MaxHuman)
MCAutorefLogs == MCUpTo(MaxAutoref)

(* Past the end: zeroed memory, or what an earlier vector left behind.     *)
MCHeap ==
  { NoEvent,
    [stop_timestamp |-> 5, command_timestamp |-> 6, command_counter |-> 1,
     command |-> "GOAL_BLUE"] }
=============================================================================
