------------------------------ MODULE Matching ------------------------------
(***************************************************************************)
(* EvaluateAutorefs for one autoref: a single pass that compares its       *)
(* events with the human referee's and produces the list of evaluations    *)
(* that is then handed to MergeEvaluations.                                *)
(*                                                                         *)
(* j and k are the code's 0-based loop indices.  The loop reads            *)
(* human_referee[k] before it tests k against the size, so k may lie past  *)
(* the end of the vector: such a read yields one of HeapContents or stops  *)
(* the process.                                                            *)
(***************************************************************************)
EXTENDS RefereeEvents

CONSTANTS
  HumanLogs,     (* the human referee's possible event lists               *)
  AutorefLogs,   (* the autoref's possible event lists                     *)
  HeapContents   (* what a read past the end of human_referee may yield    *)

ASSUME LogsAssumption ==
  /\ HumanLogs \subseteq EventLists
  /\ AutorefLogs \subseteq EventLists
  /\ HeapContents \subseteq RefereeEvent

VARIABLES
  human_referee,  (* referee_events[0]                                     *)
  autoref,        (* referee_events[i]                                     *)
  j, k,
  match_found, evaluated,
  evaluations,
  pc

vars == <<human_referee, autoref, j, k, match_found, evaluated, evaluations, pc>>
logs == <<human_referee, autoref>>
flags == <<match_found, evaluated>>

(* struct EventEvaluation.  The constructor ignores its first argument:    *)
(* every evaluation is kUnknown, and only the events it holds tell what    *)
(* was found.                                                              *)
Evaluation ==
  [value: {"kUnknown"}, autoref_event: RefereeEvent,
   humanref_event: RefereeEvent, ignore: {FALSE}]

EventEvaluation(value, a, h) ==
  [value |-> "kUnknown", autoref_event |-> a, humanref_event |-> h,
   ignore |-> FALSE]

(* The expressions autoref[j] and human_referee[k].                        *)
Autoref == autoref[j + 1]
InRange == k < Len(human_referee)
HumanReads == IF InRange THEN {human_referee[k + 1]} ELSE HeapContents

Init ==
  /\ human_referee \in HumanLogs
  /\ autoref \in AutorefLogs
  /\ j = 0
  /\ k = 0
  /\ match_found = FALSE
  /\ evaluated = FALSE
  /\ evaluations = <<>>
  /\ pc = "start"

-----------------------------------------------------------------------------
(* Without human events there is nothing to compare with: exit(1).         *)
NoHumanEvents ==
  /\ pc = "start"
  /\ human_referee = <<>>
  /\ pc' = "exit"
  /\ UNCHANGED <<logs, j, k, flags, evaluations>>

StartMatching ==
  /\ pc = "start"
  /\ human_referee # <<>>
  /\ pc' = "for"
  /\ UNCHANGED <<logs, j, k, flags, evaluations>>

NextAutorefEvent ==
  /\ pc = "for"
  /\ j < Len(autoref)
  /\ match_found' = FALSE
  /\ evaluated' = FALSE
  /\ pc' = "do"
  /\ UNCHANGED <<logs, j, k, evaluations>>

AutorefExhausted ==
  /\ pc = "for"
  /\ j = Len(autoref)
  /\ pc' = "merge"
  /\ UNCHANGED <<logs, j, k, flags, evaluations>>

Report(value, a, h) ==
  evaluations' = Append(evaluations, EventEvaluation(value, a, h))

(* Mutant of the next one: k moves on after a match as well.               *)
MovesOnAnyway ==
  /\ k' = k + 1
  /\ pc' = IF ~match_found' /\ ~evaluated' /\ k' < Len(human_referee)
             THEN "do" ELSE "judge"
  /\ UNCHANGED <<logs, j>>

(* The tail of the do loop: k moves on unless a match was found, and the   *)
(* loop goes on while nothing is decided and human events are left.        *)
EndOfBody ==
  /\ k' = IF match_found' THEN k ELSE k + 1
  /\ pc' = IF ~match_found' /\ ~evaluated' /\ k' < Len(human_referee)
             THEN "do" ELSE "judge"
  /\ UNCHANGED <<logs, j>>

(* Mutants of the next one: whichever event began first was first; the     *)
(* missed event is not put into the list.                                  *)
MissedByStart(h) ==
  /\ h.stop_timestamp < Autoref.stop_timestamp
  /\ Report("kFalseNegative", NoEvent, h)
  /\ UNCHANGED flags
  /\ EndOfBody

MissedUnreported(h) ==
  /\ Before(h, Autoref, HumanToAutoDelay)
  /\ UNCHANGED <<flags, evaluations>>
  /\ EndOfBody

(* False negative: the autoref missed a human referee event.               *)
MissedHumanEvent(h) ==
  /\ Before(h, Autoref, HumanToAutoDelay)
  /\ Report("kFalseNegative", NoEvent, h)
  /\ UNCHANGED flags
  /\ EndOfBody

(* False positive: the autoref event is over before the human one.         *)
EarlyAutorefEvent(h) ==
  /\ ~Before(h, Autoref, HumanToAutoDelay)
  /\ Before(Autoref, h, AutoToHumanDelay)
  /\ Report("kFalsePositive", Autoref, NoEvent)
  /\ evaluated' = TRUE
  /\ UNCHANGED match_found
  /\ EndOfBody

(* Mutants of the next one: overlapping is enough for a match; the scan    *)
(* stays at an overlapping event of another command.                       *)
AnyOverlapMatches(h) ==
  /\ ~Before(h, Autoref, HumanToAutoDelay)
  /\ ~Before(Autoref, h, AutoToHumanDelay)
  /\ match_found' = TRUE
  /\ UNCHANGED <<evaluated, evaluations>>
  /\ EndOfBody

StaysAtOverlap(h) ==
  /\ ~Before(h, Autoref, HumanToAutoDelay)
  /\ ~Before(Autoref, h, AutoToHumanDelay)
  /\ match_found' = (h.command = Autoref.command)
  /\ pc' = IF match_found' THEN "judge" ELSE "do"
  /\ UNCHANGED <<logs, j, k, evaluated, evaluations>>

OverlappingEvents(h) ==
  /\ ~Before(h, Autoref, HumanToAutoDelay)
  /\ ~Before(Autoref, h, AutoToHumanDelay)
  /\ match_found' = (h.command = Autoref.command)
  /\ UNCHANGED <<evaluated, evaluations>>
  /\ EndOfBody

Compare ==
  /\ pc = "do"
  /\ \E h \in HumanReads :
       \/ MissedHumanEvent(h)
       \/ EarlyAutorefEvent(h)
       \/ OverlappingEvents(h)

EndOfIteration ==
  /\ j' = j + 1
  /\ pc' = "for"
  /\ UNCHANGED <<logs, flags>>

(* Mutant of the next one: the matched human event stays current.          *)
MatchedHumanStays ==
  /\ pc = "judge" /\ match_found
  /\ \E h \in HumanReads : Report("kTruePositive", Autoref, h)
  /\ UNCHANGED k
  /\ EndOfIteration

(* After the loop.  A matched human event matches no other autoref event.  *)
TruePositive ==
  /\ pc = "judge" /\ match_found
  /\ \E h \in HumanReads : Report("kTruePositive", Autoref, h)
  /\ k' = k + 1
  /\ EndOfIteration

(* Mutant of the next one: the human index moves on here as well.          *)
MovesPastTheEnd ==
  /\ pc = "judge" /\ ~match_found /\ ~evaluated
  /\ Report("kFalsePositive", Autoref, NoEvent)
  /\ k' = k + 1
  /\ EndOfIteration

NoHumanEventsLeft ==
  /\ pc = "judge" /\ ~match_found /\ ~evaluated
  /\ Report("kFalsePositive", Autoref, NoEvent)
  /\ UNCHANGED k
  /\ EndOfIteration

(* Mutant of the next one: "else" for "else if (!evaluated)".              *)
JudgedAgain ==
  /\ pc = "judge" /\ ~match_found /\ evaluated
  /\ Report("kFalsePositive", Autoref, NoEvent)
  /\ UNCHANGED k
  /\ EndOfIteration

AlreadyJudged ==
  /\ pc = "judge" /\ ~match_found /\ evaluated
  /\ UNCHANGED <<k, evaluations>>
  /\ EndOfIteration

(* A read past the end of the vector may also stop the process.            *)
ReadFaults ==
  /\ pc = "do" \/ (pc = "judge" /\ match_found)
  /\ ~InRange
  /\ pc' = "crashed"
  /\ UNCHANGED <<logs, j, k, flags, evaluations>>

Next ==
  \/ NoHumanEvents \/ StartMatching
  \/ NextAutorefEvent \/ AutorefExhausted
  \/ Compare
  \/ TruePositive \/ NoHumanEventsLeft \/ AlreadyJudged
  \/ ReadFaults

Spec == Init /\ [][Next]_vars

(* The evaluator is one thread that never waits: it runs while it can.     *)
FairSpec == Spec /\ WF_vars(Next)
-----------------------------------------------------------------------------
(* Positions of the evaluations that judge an autoref event (true and      *)
(* false positives) and of those that name a human event (true positives   *)
(* and false negatives).                                                   *)
Judged == { p \in DOMAIN evaluations : evaluations[p].autoref_event # NoEvent }
Reported == { p \in DOMAIN evaluations : evaluations[p].humanref_event # NoEvent }

(* How many autoref events have their evaluation.                          *)
NumJudged == IF pc = "judge" /\ evaluated THEN j + 1 ELSE j

(* No human event beyond the vector has been used yet.                     *)
InsideVector == k <= Len(human_referee)

(* Types of the loop's variables.  k passes the end of human_referee at    *)
(* most once per autoref event, and not for the first one.                 *)
TypeOK ==
  /\ human_referee \in EventLists
  /\ autoref \in EventLists
  /\ j \in 0..Len(autoref)
  /\ k \in 0..(Len(human_referee) + j)
  /\ match_found \in BOOLEAN
  /\ evaluated \in BOOLEAN
  /\ evaluations \in Seq(Evaluation)
  /\ pc \in {"start", "for", "do", "judge", "merge", "exit", "crashed"}

(* Every autoref event gets exactly one evaluation, in the order of the    *)
(* log, whatever a read past the end of human_referee returns: the loop    *)
(* over autoref neither repeats nor forgets an event.                      *)
AutorefsJudgedOnce ==
  /\ \A p \in Judged : \E i \in 1..NumJudged :
       evaluations[p].autoref_event = autoref[i]
  /\ \A i \in 1..NumJudged : \E p \in Judged :
       evaluations[p].autoref_event = autoref[i]
  /\ \A p, q \in Judged : p < q =>
       evaluations[p].autoref_event.command_counter
         < evaluations[q].autoref_event.command_counter

(* "One human referee event may only match one automatic referee event":   *)
(* while the scan has stayed inside human_referee, each of its events is   *)
(* in at most one evaluation, and they are reported in the log's order.    *)
HumansReportedOnce ==
  InsideVector =>
    /\ \A p \in Reported : \E m \in 1..k :
         evaluations[p].humanref_event = human_referee[m]
    /\ \A p, q \in Reported : p < q =>
         evaluations[p].humanref_event.command_counter
           < evaluations[q].humanref_event.command_counter

(* A true positive pairs two events of the same command that overlap in    *)
(* time, also after the do loop's last comparison has been left behind and *)
(* human_referee[k] is read a second time.                                 *)
TruePositivesAgree ==
  InsideVector =>
    \A p \in Judged \cap Reported :
      LET a == evaluations[p].autoref_event
          h == evaluations[p].humanref_event
      IN  a.command = h.command /\ Overlaps(h, a, AutoToHumanDelay)

(* A human event reported as missed was over before the autoref event that *)
(* is judged next began.                                                   *)
MissedEventsPrecede ==
  \A p \in Reported \ Judged, q \in Judged :
    (p < q /\ \A r \in Judged : r <= p \/ q <= r) =>
      Before(evaluations[p].humanref_event, evaluations[q].autoref_event, 0)

(* A human event the scan has passed is reported, or some autoref event    *)
(* that was not after it either had another command or was over too early: *)
(* a human event is never dropped against its own counterpart.             *)
NoSilentDrop ==
  InsideVector =>
    \A m \in 1..k :
      \/ \E p \in Reported : evaluations[p].humanref_event = human_referee[m]
      \/ \E i \in DOMAIN autoref :
           /\ ~Before(human_referee[m], autoref[i], 0)
           /\ \/ autoref[i].command # human_referee[m].command
              \/ Before(autoref[i], human_referee[m], AutoToHumanDelay)

(* The loop with its flags, its two indexes and its second read of the     *)
(* human event implements Scoring: every step of it gives one of the four  *)
(* verdicts on the events at hand, or none and changes nothing.            *)
Verdicts ==
  INSTANCE Scoring WITH
    judged <- NumJudged,
    passed <- k,
    verdicts <- [p \in DOMAIN evaluations |->
      <<evaluations[p].autoref_event, evaluations[p].humanref_event>>]
ImplementsScoring == Verdicts!Spec

(* The pass comes to an end for every pair of logs.                        *)
Termination == <>(pc \in {"merge", "exit", "crashed"})

-----------------------------------------------------------------------------
(* Claims of the source's comments that the code does not keep.            *)

(* "False positive. There are no more human referee events left.": an      *)
(* autoref event that comes after the last human event is a false          *)
(* positive, no human event is looked up for it.                           *)
ComparesRealEvents == pc = "do" => InRange

(* "False Positive: No human event overlapped in time with the autoref.":  *)
(* when the loop judges so, no human event of the same command that is     *)
(* still unmatched overlaps the autoref event.                             *)
FalsePositiveOverlapsNone ==
  (pc = "judge" /\ evaluated) =>
    \A m \in DOMAIN human_referee :
      \/ \E p \in Reported : evaluations[p].humanref_event = human_referee[m]
      \/ human_referee[m].command # Autoref.command
      \/ ~Overlaps(human_referee[m], Autoref, AutoToHumanDelay)
=============================================================================
