--------------------------- MODULE RefereeEvents ---------------------------
(***************************************************************************)
(* The data the evaluator works on: referee commands, referee events, and  *)
(* the two comparisons of events in time (evaluate_main.cpp, referee.proto)*)
(*                                                                         *)
(* Timestamps are uint64_t in the code, so every subtraction of timestamps *)
(* is taken modulo TimeModulus (2^64 there, a small number in a model).    *)
(***************************************************************************)
EXTENDS Integers, Sequences

CONSTANTS
  TimeModulus,       (* how many values a timestamp has                    *)
  AutoToHumanDelay,  (* kAutoToHumanDelay: how long before the human's STOP *)
                     (* an autoref's command still counts as overlapping    *)
  CounterModulus     (* how many values a command counter has               *)

ASSUME TimeAssumption ==
  /\ TimeModulus \in Nat \ {0}
  /\ CounterModulus \in Nat \ {0}
  /\ AutoToHumanDelay \in 0..(TimeModulus - 1)

Time == 0..(TimeModulus - 1)
Counter == 0..(CounterModulus - 1)

(* The allowance of the opposite direction: an autoref event after the     *)
(* human's one.                                                            *)
HumanToAutoDelay == 0

(* The commands that make an event when they follow a STOP.                *)
EventCommands ==
  { "DIRECT_FREE_YELLOW", "DIRECT_FREE_BLUE", "INDIRECT_FREE_YELLOW",
    "INDIRECT_FREE_BLUE", "GOAL_YELLOW", "GOAL_BLUE" }

(* All commands of SSL_Referee.  The evaluator treats every command that   *)
(* is neither STOP nor an event command alike; HALT is the enum's default. *)
Command == EventCommands \cup { "HALT", "STOP", "NORMAL_START", "FORCE_START" }

(* What the evaluator reads of an SSL_Referee message.                     *)
RefereeCommand ==
  [command: Command, command_counter: Counter, command_timestamp: Time]

(* struct RefereeEvent *)
RefereeEvent ==
  [stop_timestamp: Time, command_timestamp: Time, command_counter: Counter,
   command: Command]

(* RefereeEvent(): what stands in for the missing side of an evaluation.   *)
NoEvent ==
  [stop_timestamp |-> 0, command_timestamp |-> 0, command_counter |-> 0,
   command |-> "HALT"]

(* a - b on uint64_t *)
Minus(a, b) == IF a >= b THEN a - b ELSE a - b + TimeModulus

(* e1 is over before e2 begins, "td" allowed before e2.                    *)
Before(e1, e2, td) == e1.command_timestamp < Minus(e2.stop_timestamp, td)

Overlaps(e1, e2, td) == ~Before(e1, e2, 0) /\ ~Before(e2, e1, td)

-----------------------------------------------------------------------------
(* Command counters grow along a list of commands or events: what          *)
(* LoadRefereeCommands establishes (see RefereeLog) and what identifies an *)
(* event in its list.                                                      *)
CountersIncrease(s) ==
  \A i, m \in DOMAIN s :
    i < m => s[i].command_counter < s[m].command_counter

(* The lists IndexRefereeEvents builds.                                    *)
EventLists ==
  { s \in Seq(RefereeEvent) :
      /\ \A i \in DOMAIN s : s[i].command \in EventCommands
      /\ CountersIncrease(s) }
=============================================================================
