------------------------------ MODULE Scoring ------------------------------
(***************************************************************************)
(* What EvaluateAutorefs promises, without its loop: the two event lists   *)
(* are walked side by side, and each step gives a verdict on the next      *)
(* autoref event, on the next human event, or on both.  Matching           *)
(* implements it.                                                          *)
(***************************************************************************)
EXTENDS RefereeEvents

CONSTANT HeapContents

VARIABLES
  human_referee,
  autoref,
  judged,    (* autoref events with a verdict                              *)
  passed,    (* human events that have been dealt with                     *)
  verdicts   (* pairs of an autoref and a human event, either of which may *)
             (* be NoEvent                                                 *)

svars == <<human_referee, autoref, judged, passed, verdicts>>

Init ==
  /\ human_referee \in EventLists
  /\ autoref \in EventLists
  /\ judged = 0
  /\ passed = 0
  /\ verdicts = <<>>

Left == passed < Len(human_referee)
NextAutoref == autoref[judged + 1]

(* Behind the list anything may be taken for a human event.                *)
NextHumans == IF Left THEN {human_referee[passed + 1]} ELSE HeapContents

Verdict(a, h) == verdicts' = Append(verdicts, <<a, h>>)

Hit(h) ==
  /\ Left => /\ h.command = NextAutoref.command
             /\ Overlaps(h, NextAutoref, AutoToHumanDelay)
  /\ Verdict(NextAutoref, h)
  /\ judged' = judged + 1
  /\ passed' = passed + 1

(* The autoref event stands alone: it was too early for the human one,     *)
(* which is then passed as well, or no human event is left.                *)
Alarm(h) ==
  /\ \/ /\ Before(NextAutoref, h, AutoToHumanDelay)
        /\ passed' = passed + 1
     \/ /\ ~Left
        /\ UNCHANGED passed
  /\ Verdict(NextAutoref, NoEvent)
  /\ judged' = judged + 1

Miss(h) ==
  /\ Before(h, NextAutoref, 0)
  /\ Verdict(NoEvent, h)
  /\ passed' = passed + 1
  /\ UNCHANGED judged

(* Only a human event of another command is passed without a verdict.      *)
PassOver(h) ==
  /\ h.command # NextAutoref.command
  /\ Overlaps(h, NextAutoref, AutoToHumanDelay)
  /\ passed' = passed + 1
  /\ UNCHANGED <<judged, verdicts>>

Next ==
  /\ judged < Len(autoref)
  /\ \E h \in NextHumans \cup (IF Left THEN {} ELSE {NoEvent}) :
       Hit(h) \/ Alarm(h) \/ Miss(h) \/ PassOver(h)
  /\ UNCHANGED <<human_referee, autoref>>

Spec == Init /\ [][Next]_svars
=============================================================================
