--------------------------- MODULE MatchingProofs ---------------------------
(***************************************************************************)
(* Proofs about Matching, for every pair of logs, every timestamp width,   *)
(* every delay and every content of the memory behind human_referee: what  *)
(* is reported, what is missed, and that the loop implements Scoring.      *)
(***************************************************************************)
EXTENDS Matching, SequenceTheorems, TLAPS

USE DEF logs, flags

(* Where the loop's control is: what the flags, j and k can be at each pc. *)
Control ==
  /\ pc \in {"do", "judge"} => j < Len(autoref)
  /\ pc = "do" => ~match_found /\ ~evaluated
  /\ pc = "judge" => ~(match_found /\ evaluated)
  /\ pc \in {"start", "exit"} => j = 0 /\ k = 0 /\ evaluations = <<>>
  /\ pc \in {"start", "exit"} \/ (pc = "judge" /\ ~match_found) \/
       k < Len(human_referee) + j

LoopInv == TypeOK /\ Control

(* The loop's disjuncts one by one: a comparison is one of three.          *)
LEMMA NextCases ==
  ASSUME Next
  PROVE  \/ NoHumanEvents \/ StartMatching
         \/ NextAutorefEvent \/ AutorefExhausted
         \/ \E h \in HumanReads : pc = "do" /\ MissedHumanEvent(h)
         \/ \E h \in HumanReads : pc = "do" /\ EarlyAutorefEvent(h)
         \/ \E h \in HumanReads : pc = "do" /\ OverlappingEvents(h)
         \/ TruePositive \/ NoHumanEventsLeft \/ AlreadyJudged
         \/ ReadFaults
BY DEF Next, Compare

LEMMA NoEventType == NoEvent \in RefereeEvent
BY TimeAssumption DEF NoEvent, RefereeEvent, Time, Counter, Command

(* What the loop's two expressions can be.                                 *)
LEMMA ReadTypes ==
  ASSUME TypeOK
  PROVE  /\ \A h \in HumanReads : h \in RefereeEvent
         /\ j < Len(autoref) =>
              /\ Autoref \in RefereeEvent
              /\ Autoref.command \in EventCommands
<1>1. /\ human_referee \in Seq(RefereeEvent)
      /\ autoref \in Seq(RefereeEvent)
  BY DEF TypeOK, EventLists
<1>2. k + 1 \in 1..Len(human_referee) => human_referee[k + 1] \in RefereeEvent
  BY <1>1, ElementOfSeq
<1>3. InRange => k + 1 \in 1..Len(human_referee)
  BY <1>1 DEF TypeOK, InRange
<1>4. j < Len(autoref) => j + 1 \in 1..Len(autoref)
  BY <1>1 DEF TypeOK
<1>5. j < Len(autoref) => Autoref \in RefereeEvent
  BY <1>1, <1>4, ElementOfSeq DEF Autoref
<1>6. j < Len(autoref) => Autoref.command \in EventCommands
  BY <1>1, <1>4 DEF Autoref, TypeOK, EventLists
<1>. QED
  BY <1>2, <1>3, <1>5, <1>6, LogsAssumption DEF HumanReads

LEMMA EvaluationType ==
  ASSUME NEW a \in RefereeEvent, NEW h \in RefereeEvent, NEW value
  PROVE  /\ EventEvaluation(value, a, h) \in Evaluation
         /\ EventEvaluation(value, a, h).autoref_event = a
         /\ EventEvaluation(value, a, h).humanref_event = h
BY DEF EventEvaluation, Evaluation

LEMMA InitLoopInv == Init => LoopInv
<1> SUFFICES ASSUME Init PROVE LoopInv
  OBVIOUS
<1>1. /\ human_referee \in Seq(RefereeEvent)
      /\ autoref \in Seq(RefereeEvent)
      /\ human_referee \in EventLists
      /\ autoref \in EventLists
  BY LogsAssumption DEF Init, EventLists
<1>2. Len(human_referee) \in Nat /\ Len(autoref) \in Nat
  BY <1>1
<1>s. evaluations \in Seq(Evaluation)
  BY EmptySeq DEF Init
<1>i. j = 0 /\ k = 0 /\ match_found = FALSE /\ evaluated = FALSE /\ pc = "start"
  BY DEF Init
<1>j. j \in 0..Len(autoref) /\ k \in 0..(Len(human_referee) + j)
  BY <1>2, <1>i
<1>b. match_found \in BOOLEAN /\ evaluated \in BOOLEAN
  BY <1>i
<1>p. pc \in {"start", "for", "do", "judge", "merge", "exit", "crashed"}
  BY <1>i
<1>3. TypeOK
  BY <1>1, <1>j, <1>b, <1>p, <1>s, Zenon DEF TypeOK
<1>4. Control
  BY <1>2 DEF Init, Control
<1>. QED
  BY <1>3, <1>4 DEF LoopInv

LEMMA StepLoopInv == LoopInv /\ [Next]_vars => LoopInv'
<1> SUFFICES ASSUME LoopInv, [Next]_vars PROVE LoopInv'
  OBVIOUS
<1>t. TypeOK /\ Control
  BY DEF LoopInv
<1>l. Len(human_referee) \in Nat /\ Len(autoref) \in Nat
  BY <1>t DEF TypeOK, EventLists
<1>n. NoEvent \in RefereeEvent
  BY NoEventType
<1>r. /\ \A h \in HumanReads : h \in RefereeEvent
      /\ j < Len(autoref) => Autoref \in RefereeEvent
  BY <1>t, ReadTypes
<1>1. CASE NoHumanEvents
  BY <1>1, <1>t, <1>l DEF NoHumanEvents, LoopInv, TypeOK, Control
<1>2. CASE StartMatching
  <2>1. Len(human_referee) > 0
    BY <1>2, <1>t, <1>l, EmptySeq DEF StartMatching, TypeOK, EventLists
  <2>. QED
    BY <2>1, <1>2, <1>t, <1>l DEF StartMatching, LoopInv, TypeOK, Control
<1>3. CASE NextAutorefEvent
  BY <1>3, <1>t, <1>l DEF NextAutorefEvent, LoopInv, TypeOK, Control
<1>4. CASE AutorefExhausted
  BY <1>4, <1>t, <1>l DEF AutorefExhausted, LoopInv, TypeOK, Control
<1>5. ASSUME NEW h \in HumanReads, pc = "do", MissedHumanEvent(h)
      PROVE  LoopInv'
  <2>1. EventEvaluation("kFalseNegative", NoEvent, h) \in Evaluation
    BY <1>n, <1>r, EvaluationType
  <2>2. evaluations' \in Seq(Evaluation)
    BY <2>1, <1>5, <1>t, AppendProperties DEF MissedHumanEvent, Report, TypeOK
  <2>. QED
    BY <2>2, <1>5, <1>t, <1>l DEF MissedHumanEvent, Report, EndOfBody, LoopInv, TypeOK, Control
<1>6. ASSUME NEW h \in HumanReads, pc = "do", EarlyAutorefEvent(h)
      PROVE  LoopInv'
  <2>1. EventEvaluation("kFalsePositive", Autoref, NoEvent) \in Evaluation
    BY <1>6, <1>t, <1>n, <1>r, EvaluationType DEF Control
  <2>2. evaluations' \in Seq(Evaluation)
    BY <2>1, <1>6, <1>t, AppendProperties DEF EarlyAutorefEvent, Report, TypeOK
  <2>. QED
    BY <2>2, <1>6, <1>t, <1>l DEF EarlyAutorefEvent, Report, EndOfBody, LoopInv, TypeOK, Control
<1>7. ASSUME NEW h \in HumanReads, pc = "do", OverlappingEvents(h)
      PROVE  LoopInv'
  BY <1>7, <1>t, <1>l DEF OverlappingEvents, EndOfBody, LoopInv, TypeOK, Control
<1>8. CASE TruePositive
  <2>1. PICK h \in HumanReads :
          evaluations' =
            Append(evaluations, EventEvaluation("kTruePositive", Autoref, h))
    BY <1>8 DEF TruePositive, Report
  <2>2. EventEvaluation("kTruePositive", Autoref, h) \in Evaluation
    BY <1>8, <1>t, <1>r, EvaluationType DEF Control, TruePositive
  <2>3. evaluations' \in Seq(Evaluation)
    BY <2>1, <2>2, <1>t, AppendProperties DEF TypeOK
  <2>. QED
    BY <2>3, <1>8, <1>t, <1>l DEF TruePositive, Report, EndOfIteration, LoopInv, TypeOK, Control
<1>9. CASE NoHumanEventsLeft
  <2>1. EventEvaluation("kFalsePositive", Autoref, NoEvent) \in Evaluation
    BY <1>9, <1>t, <1>n, <1>r, EvaluationType DEF Control, NoHumanEventsLeft
  <2>2. evaluations' \in Seq(Evaluation)
    BY <2>1, <1>9, <1>t, AppendProperties DEF NoHumanEventsLeft, Report, EndOfIteration, TypeOK
  <2>. QED
    BY <2>2, <1>9, <1>t, <1>l DEF NoHumanEventsLeft, Report, EndOfIteration, LoopInv, TypeOK, Control
<1>10. CASE AlreadyJudged
  BY <1>10, <1>t, <1>l DEF AlreadyJudged, Report, EndOfIteration, LoopInv, TypeOK, Control
<1>11. CASE ReadFaults
  BY <1>11, <1>t, <1>l DEF ReadFaults, LoopInv, TypeOK, Control
<1>12. CASE UNCHANGED vars
  BY <1>12, <1>t DEF vars, LoopInv, TypeOK, Control
<1>. QED
  BY <1>1, <1>2, <1>3, <1>4, <1>5, <1>6, <1>7, <1>8, <1>9, <1>10, <1>11, <1>12, NextCases

(* Type correctness of the loop: in particular k passes the number of      *)
(* human events by at most the number of autoref events judged before.     *)
THEOREM MatchingTypeOK == Spec => []TypeOK
<1>1. Spec => []LoopInv
  BY InitLoopInv, StepLoopInv, PTL DEF Spec
<1>2. LoopInv => TypeOK
  BY DEF LoopInv
<1>. QED
  BY <1>1, <1>2, PTL
-----------------------------------------------------------------------------
(* Both sides of the evaluations, as lists of events with NoEvent where a  *)
(* side is missing.                                                        *)
AutorefSide == [p \in DOMAIN evaluations |-> evaluations[p].autoref_event]
HumanSide == [p \in DOMAIN evaluations |-> evaluations[p].humanref_event]

(* The events of side are among the first n of log, in its order and each  *)
(* at most once.                                                           *)
FollowsLog(side, log, n) ==
  /\ \A p \in DOMAIN side : side[p] # NoEvent =>
       \E i \in 1..n : side[p] = log[i]
  /\ \A p, q \in DOMAIN side :
       (p < q /\ side[p] # NoEvent /\ side[q] # NoEvent) =>
         side[p].command_counter < side[q].command_counter

(* All of the first n are there.                                           *)
CoversLog(side, log, n) ==
  \A i \in 1..n : \E p \in DOMAIN side : side[p] = log[i]

(* The HALT of NoEvent is no event command.                                *)
LEMMA LogHasNoNoEvent ==
  ASSUME NEW log \in EventLists, NEW i \in DOMAIN log
  PROVE  log[i] # NoEvent
BY DEF EventLists, EventCommands, NoEvent

LEMMA FollowsLonger ==
  ASSUME NEW side, NEW log, NEW n \in Nat, NEW m \in Nat, n <= m,
         FollowsLog(side, log, n)
  PROVE  FollowsLog(side, log, m)
BY DEF FollowsLog

LEMMA FollowsAfterNoEvent ==
  ASSUME NEW side \in Seq(RefereeEvent), NEW log, NEW n, FollowsLog(side, log, n)
  PROVE  FollowsLog(Append(side, NoEvent), log, n)
<1>1. /\ DOMAIN Append(side, NoEvent) = 1..(Len(side) + 1)
      /\ DOMAIN side = 1..Len(side)
      /\ \A p \in 1..Len(side) : Append(side, NoEvent)[p] = side[p]
      /\ Append(side, NoEvent)[Len(side) + 1] = NoEvent
  BY NoEventType
<1>. QED
  BY <1>1 DEF FollowsLog

LEMMA FollowsAfterNext ==
  ASSUME NEW side \in Seq(RefereeEvent), NEW log \in EventLists,
         NEW n \in Nat, n < Len(log), FollowsLog(side, log, n)
  PROVE  FollowsLog(Append(side, log[n + 1]), log, n + 1)
<1> DEFINE e == log[n + 1]
           longer == Append(side, e)
<1>0. log \in Seq(RefereeEvent) /\ CountersIncrease(log)
  BY DEF EventLists
<1>1. n + 1 \in 1..Len(log) /\ 1..Len(log) = DOMAIN log
  BY <1>0
<1>2. e \in RefereeEvent
  BY <1>0, <1>1, ElementOfSeq
<1>3. /\ DOMAIN longer = 1..(Len(side) + 1)
      /\ DOMAIN side = 1..Len(side)
      /\ \A p \in 1..Len(side) : longer[p] = side[p]
      /\ longer[Len(side) + 1] = e
      /\ Len(side) \in Nat
  BY <1>2, AppendProperties
<1> HIDE DEF longer
<1>4. ASSUME NEW p \in DOMAIN longer, longer[p] # NoEvent
      PROVE  \E i \in 1..(n + 1) : longer[p] = log[i]
  <2>1. CASE p = Len(side) + 1
    BY <2>1, <1>3
  <2>2. CASE p \in 1..Len(side)
    <3>1. PICK i \in 1..n : side[p] = log[i]
      BY <2>2, <1>3, <1>4 DEF FollowsLog
    <3>. QED
      BY <3>1, <2>2, <1>3
  <2>. QED
    BY <2>1, <2>2, <1>3
<1>5. ASSUME NEW p \in DOMAIN longer, NEW q \in DOMAIN longer, p < q,
             longer[p] # NoEvent, longer[q] # NoEvent
      PROVE  longer[p].command_counter < longer[q].command_counter
  <2>0. p \in 1..Len(side)
    BY <1>5, <1>3
  <2>1. CASE q = Len(side) + 1
    <3>1. PICK i \in 1..n : side[p] = log[i]
      BY <2>0, <1>3, <1>5 DEF FollowsLog
    <3>2. i \in DOMAIN log /\ n + 1 \in DOMAIN log /\ i < n + 1
      BY <1>0, <1>1
    <3>3. log[i].command_counter < e.command_counter
      BY <3>2, <1>0 DEF CountersIncrease
    <3>. QED
      BY <3>1, <3>3, <2>0, <2>1, <1>3
  <2>2. CASE q \in 1..Len(side)
    BY <2>0, <2>2, <1>3, <1>5 DEF FollowsLog
  <2>. QED
    BY <2>1, <2>2, <1>3
<1>. QED
  BY <1>4, <1>5 DEF FollowsLog, longer

LEMMA CoversLonger ==
  ASSUME NEW side \in Seq(RefereeEvent), NEW log, NEW n \in Nat,
         NEW e \in RefereeEvent, CoversLog(side, log, n)
  PROVE  /\ CoversLog(Append(side, e), log, n)
         /\ e = log[n + 1] => CoversLog(Append(side, e), log, n + 1)
<1>1. /\ DOMAIN Append(side, e) = 1..(Len(side) + 1)
      /\ DOMAIN side = 1..Len(side)
      /\ \A p \in 1..Len(side) : Append(side, e)[p] = side[p]
      /\ Append(side, e)[Len(side) + 1] = e
      /\ Len(side) \in Nat
  BY AppendProperties
<1>2. CoversLog(Append(side, e), log, n)
  BY <1>1 DEF CoversLog
<1>3. ASSUME e = log[n + 1] PROVE CoversLog(Append(side, e), log, n + 1)
  <2>1. \E p \in DOMAIN Append(side, e) : Append(side, e)[p] = log[n + 1]
    BY <1>1, <1>3
  <2>2. \A i \in 1..(n + 1) : i \in 1..n \/ i = n + 1
    OBVIOUS
  <2>. QED
    BY <1>2, <2>1, <2>2 DEF CoversLog
<1>. QED
  BY <1>2, <1>3
-----------------------------------------------------------------------------
(* What the evaluations say of both logs so far.                           *)
OrderInv ==
  /\ FollowsLog(AutorefSide, autoref, NumJudged)
  /\ CoversLog(AutorefSide, autoref, NumJudged)
  /\ InsideVector => FollowsLog(HumanSide, human_referee, k)

LEMMA SideTypes ==
  ASSUME TypeOK
  PROVE  /\ AutorefSide \in Seq(RefereeEvent)
         /\ HumanSide \in Seq(RefereeEvent)
         /\ DOMAIN AutorefSide = DOMAIN evaluations
         /\ DOMAIN HumanSide = DOMAIN evaluations
         /\ \A p \in DOMAIN evaluations :
              /\ AutorefSide[p] = evaluations[p].autoref_event
              /\ HumanSide[p] = evaluations[p].humanref_event
<1>1. evaluations \in Seq(Evaluation)
  BY DEF TypeOK
<1>2. \A p \in 1..Len(evaluations) : evaluations[p] \in Evaluation
  BY <1>1, ElementOfSeq
<1>3. /\ DOMAIN evaluations = 1..Len(evaluations)
      /\ Len(evaluations) \in Nat
  BY <1>1
<1>4. \A p \in 1..Len(evaluations) :
        /\ evaluations[p].autoref_event \in RefereeEvent
        /\ evaluations[p].humanref_event \in RefereeEvent
  BY <1>2 DEF Evaluation
<1>5. /\ AutorefSide \in [1..Len(evaluations) -> RefereeEvent]
      /\ HumanSide \in [1..Len(evaluations) -> RefereeEvent]
  BY <1>3, <1>4 DEF AutorefSide, HumanSide
<1>. QED
  BY <1>3, <1>5 DEF AutorefSide, HumanSide

LEMMA GrownByOne ==
  ASSUME NEW side \in Seq(RefereeEvent), NEW e \in RefereeEvent, NEW longer,
         NEW n, n = Len(side),
         longer = [p \in 1..(n + 1) |-> longer[p]],
         \A p \in 1..(n + 1) : longer[p] = IF p <= n THEN side[p] ELSE e
  PROVE  longer = Append(side, e)
<1>1. n \in Nat /\ \A p \in 1..n : side[p] \in RefereeEvent
  BY ElementOfSeq
<1>2. longer \in [1..(n + 1) -> RefereeEvent]
  BY <1>1
<1>3. longer \in Seq(RefereeEvent) /\ Len(longer) = n + 1
  BY <1>1, <1>2
<1>4. /\ Append(side, e) \in Seq(RefereeEvent)
      /\ Len(Append(side, e)) = n + 1
      /\ \A p \in 1..n : Append(side, e)[p] = side[p]
      /\ Append(side, e)[n + 1] = e
  BY AppendProperties
<1>5. \A p \in 1..(n + 1) : longer[p] = Append(side, e)[p]
  BY <1>1, <1>4
<1>. QED
  BY <1>3, <1>4, <1>5, SeqEqual

LEMMA ReportGrows ==
  ASSUME TypeOK, NEW a \in RefereeEvent, NEW h \in RefereeEvent,
         NEW value, Report(value, a, h)
  PROVE  /\ Len(evaluations) \in Nat
         /\ DOMAIN evaluations = 1..Len(evaluations)
         /\ DOMAIN evaluations' = 1..(Len(evaluations) + 1)
         /\ \A p \in 1..Len(evaluations) : evaluations'[p] = evaluations[p]
         /\ evaluations'[Len(evaluations) + 1].autoref_event = a
         /\ evaluations'[Len(evaluations) + 1].humanref_event = h
<1> DEFINE e == EventEvaluation(value, a, h)
<1>1. e \in Evaluation /\ e.autoref_event = a /\ e.humanref_event = h
  BY EvaluationType
<1> HIDE DEF e
<1>2. evaluations \in Seq(Evaluation) /\ evaluations' = Append(evaluations, e)
  BY DEF TypeOK, Report, e
<1>. QED
  BY <1>1, <1>2, AppendProperties

(* A report adds one event to each side.                                   *)
LEMMA SidesGrow ==
  ASSUME TypeOK, NEW a \in RefereeEvent, NEW h \in RefereeEvent,
         NEW value, Report(value, a, h)
  PROVE  /\ AutorefSide' = Append(AutorefSide, a)
         /\ HumanSide' = Append(HumanSide, h)
<1>1. /\ Len(evaluations) \in Nat
      /\ DOMAIN evaluations = 1..Len(evaluations)
      /\ DOMAIN evaluations' = 1..(Len(evaluations) + 1)
      /\ \A p \in 1..Len(evaluations) : evaluations'[p] = evaluations[p]
      /\ evaluations'[Len(evaluations) + 1].autoref_event = a
      /\ evaluations'[Len(evaluations) + 1].humanref_event = h
  BY ReportGrows
<1>2. AutorefSide' = Append(AutorefSide, a)
  <2>1. /\ AutorefSide \in Seq(RefereeEvent)
        /\ Len(AutorefSide) = Len(evaluations)
        /\ \A p \in 1..Len(evaluations) : AutorefSide[p] = evaluations[p].autoref_event
    BY <1>1, SideTypes
  <2>2. AutorefSide' = [p \in 1..(Len(evaluations) + 1) |-> evaluations'[p].autoref_event]
    BY <1>1 DEF AutorefSide
  <2>3. \A p \in 1..(Len(evaluations) + 1) :
          AutorefSide'[p] = IF p <= Len(evaluations) THEN AutorefSide[p] ELSE a
    BY <2>1, <2>2, <1>1
  <2>4. AutorefSide' = [p \in 1..(Len(evaluations) + 1) |-> AutorefSide'[p]]
    BY <2>2
  <2>. QED
    BY <2>1, <2>3, <2>4, GrownByOne
<1>3. HumanSide' = Append(HumanSide, h)
  <2>1. /\ HumanSide \in Seq(RefereeEvent)
        /\ Len(HumanSide) = Len(evaluations)
        /\ \A p \in 1..Len(evaluations) : HumanSide[p] = evaluations[p].humanref_event
    BY <1>1, SideTypes
  <2>2. HumanSide' = [p \in 1..(Len(evaluations) + 1) |-> evaluations'[p].humanref_event]
    BY <1>1 DEF HumanSide
  <2>3. \A p \in 1..(Len(evaluations) + 1) :
          HumanSide'[p] = IF p <= Len(evaluations) THEN HumanSide[p] ELSE h
    BY <2>1, <2>2, <1>1
  <2>4. HumanSide' = [p \in 1..(Len(evaluations) + 1) |-> HumanSide'[p]]
    BY <2>2
  <2>. QED
    BY <2>1, <2>3, <2>4, GrownByOne
<1>. QED
  BY <1>2, <1>3

LEMMA InitOrderInv == Init => OrderInv
<1> SUFFICES ASSUME Init PROVE OrderInv
  OBVIOUS
<1>1. evaluations = <<>> /\ NumJudged = 0
  BY DEF Init, NumJudged
<1>2. DOMAIN AutorefSide = {} /\ DOMAIN HumanSide = {}
  BY <1>1 DEF AutorefSide, HumanSide
<1>. QED
  BY <1>1, <1>2 DEF OrderInv, FollowsLog, CoversLog

(* A step that reports nothing and judges nothing.                         *)
LEMMA SilentStep ==
  ASSUME LoopInv, LoopInv', OrderInv, UNCHANGED <<logs, evaluations>>,
         NumJudged' = NumJudged, k <= k'
  PROVE  OrderInv'
<1>1. /\ AutorefSide' = AutorefSide
      /\ HumanSide' = HumanSide
  BY DEF AutorefSide, HumanSide
<1>2. k \in Nat /\ k' \in Nat
  BY DEF LoopInv, TypeOK, EventLists
<1>3. InsideVector' => InsideVector
  BY <1>2 DEF InsideVector, LoopInv, TypeOK, EventLists
<1>4. FollowsLog(AutorefSide, autoref, NumJudged)' /\ CoversLog(AutorefSide, autoref, NumJudged)'
  BY <1>1 DEF OrderInv, FollowsLog, CoversLog
<1>5. InsideVector' => FollowsLog(HumanSide, human_referee, k)
  BY <1>3 DEF OrderInv
<1>6. InsideVector' => FollowsLog(HumanSide, human_referee, k')
  BY <1>2, <1>5, FollowsLonger
<1>. QED
  BY <1>1, <1>4, <1>6 DEF OrderInv, FollowsLog

(* The autoref's side of a step that reports a human event alone, and of   *)
(* one that judges autoref[j].                                             *)
LEMMA AutorefSideStep ==
  ASSUME LoopInv, LoopInv', OrderInv, NEW a \in RefereeEvent,
         NEW h \in RefereeEvent, NEW value, Report(value, a, h), UNCHANGED logs,
         \/ a = NoEvent /\ NumJudged' = NumJudged
         \/ a = Autoref /\ NumJudged = j /\ NumJudged' = j + 1 /\ j < Len(autoref)
  PROVE  /\ FollowsLog(AutorefSide', autoref', NumJudged')
         /\ CoversLog(AutorefSide', autoref', NumJudged')
<1>1. AutorefSide' = Append(AutorefSide, a)
  BY SidesGrow DEF LoopInv
<1>2. AutorefSide \in Seq(RefereeEvent)
  BY SideTypes DEF LoopInv
<1>3. j \in Nat /\ NumJudged \in Nat /\ autoref \in EventLists
  BY DEF LoopInv, TypeOK, EventLists, NumJudged
<1>4. CASE a = NoEvent /\ NumJudged' = NumJudged
  BY <1>1, <1>2, <1>3, <1>4, FollowsAfterNoEvent, CoversLonger DEF OrderInv
<1>5. CASE a = Autoref /\ NumJudged = j /\ NumJudged' = j + 1 /\ j < Len(autoref)
  BY <1>1, <1>2, <1>3, <1>5, FollowsAfterNext, CoversLonger DEF OrderInv, Autoref
<1>. QED
  BY <1>4, <1>5

(* The human's side of a step that reports no human event, and of one that *)
(* reports what human_referee[k] is.                                       *)
LEMMA HumanSideStep ==
  ASSUME LoopInv, LoopInv', OrderInv, NEW a \in RefereeEvent,
         NEW h \in RefereeEvent, NEW value, Report(value, a, h), UNCHANGED logs,
         \/ h = NoEvent /\ k <= k'
         \/ h \in HumanReads /\ k' = k + 1,
         InsideVector'
  PROVE  FollowsLog(HumanSide', human_referee', k')
<1>1. HumanSide' = Append(HumanSide, h)
  BY SidesGrow DEF LoopInv
<1>2. HumanSide \in Seq(RefereeEvent)
  BY SideTypes DEF LoopInv
<1>3. k \in Nat /\ k' \in Nat /\ human_referee \in EventLists /\ Len(human_referee) \in Nat
  BY DEF LoopInv, TypeOK, EventLists
<1>4. InsideVector
  BY <1>3 DEF InsideVector
<1>5. CASE h = NoEvent /\ k <= k'
  <2>1. FollowsLog(HumanSide', human_referee, k)
    BY <1>1, <1>2, <1>4, <1>5, FollowsAfterNoEvent DEF OrderInv
  <2>. QED
    BY <2>1, <1>3, <1>5, FollowsLonger
<1>6. CASE h \in HumanReads /\ k' = k + 1
  <2>1. k < Len(human_referee) /\ h = human_referee[k + 1]
    BY <1>3, <1>6 DEF InsideVector, HumanReads, InRange
  <2>. QED
    BY <2>1, <1>1, <1>2, <1>3, <1>4, <1>6, FollowsAfterNext DEF OrderInv
<1>. QED
  BY <1>5, <1>6

LEMMA StepOrderInv == LoopInv /\ LoopInv' /\ OrderInv /\ [Next]_vars => OrderInv'
<1> SUFFICES ASSUME LoopInv, LoopInv', OrderInv, [Next]_vars PROVE OrderInv'
  OBVIOUS
<1>t. TypeOK /\ Control
  BY DEF LoopInv
<1>l. /\ Len(human_referee) \in Nat /\ Len(autoref) \in Nat
      /\ j \in Nat /\ k \in Nat
  BY <1>t DEF TypeOK, EventLists
<1>n. NoEvent \in RefereeEvent
  BY NoEventType
<1>r. /\ \A h \in HumanReads : h \in RefereeEvent
      /\ j < Len(autoref) => Autoref \in RefereeEvent
  BY <1>t, ReadTypes
<1>1. CASE NoHumanEvents \/ StartMatching \/ AutorefExhausted \/ ReadFaults
  BY <1>1, <1>t, <1>l, SilentStep DEF NoHumanEvents, StartMatching, AutorefExhausted,
       ReadFaults, NumJudged, Control
<1>2. CASE NextAutorefEvent
  BY <1>2, <1>l, SilentStep DEF NextAutorefEvent, NumJudged
<1>3. ASSUME NEW h \in HumanReads, pc = "do", MissedHumanEvent(h)
      PROVE  OrderInv'
  <2>1. /\ Report("kFalseNegative", NoEvent, h) /\ UNCHANGED logs
        /\ k' = k + 1 /\ NumJudged' = NumJudged
    BY <1>3, <1>t DEF MissedHumanEvent, EndOfBody, Control, NumJudged
  <2>. QED
    BY <2>1, <1>n, <1>r, AutorefSideStep, HumanSideStep DEF OrderInv
<1>4. ASSUME NEW h \in HumanReads, pc = "do", EarlyAutorefEvent(h)
      PROVE  OrderInv'
  <2>1. /\ Report("kFalsePositive", Autoref, NoEvent) /\ UNCHANGED logs
        /\ k <= k' /\ NumJudged = j /\ NumJudged' = j + 1 /\ j < Len(autoref)
    BY <1>4, <1>t, <1>l DEF EarlyAutorefEvent, EndOfBody, Control, NumJudged
  <2>. QED
    BY <2>1, <1>n, <1>r, AutorefSideStep, HumanSideStep DEF OrderInv
<1>5. ASSUME NEW h \in HumanReads, pc = "do", OverlappingEvents(h)
      PROVE  OrderInv'
  BY <1>5, <1>t, <1>l, SilentStep DEF OverlappingEvents, EndOfBody, Control, NumJudged
<1>6. CASE TruePositive
  <2>1. PICK h \in HumanReads : Report("kTruePositive", Autoref, h)
    BY <1>6 DEF TruePositive
  <2>2. /\ UNCHANGED logs /\ k' = k + 1
        /\ NumJudged = j /\ NumJudged' = j + 1 /\ j < Len(autoref)
    BY <1>6, <1>t DEF TruePositive, EndOfIteration, Control, NumJudged
  <2>. QED
    BY <2>1, <2>2, <1>r, AutorefSideStep, HumanSideStep DEF OrderInv
<1>7. CASE NoHumanEventsLeft
  <2>1. /\ Report("kFalsePositive", Autoref, NoEvent) /\ UNCHANGED logs
        /\ k <= k' /\ NumJudged = j /\ NumJudged' = j + 1 /\ j < Len(autoref)
    BY <1>7, <1>t, <1>l DEF NoHumanEventsLeft, EndOfIteration, Control, NumJudged
  <2>. QED
    BY <2>1, <1>n, <1>r, AutorefSideStep, HumanSideStep DEF OrderInv
<1>8. CASE AlreadyJudged
  BY <1>8, <1>l, SilentStep DEF AlreadyJudged, EndOfIteration, NumJudged
<1>9. CASE UNCHANGED vars
  BY <1>9, <1>l, SilentStep DEF vars, NumJudged
<1>. QED
  BY <1>1, <1>2, <1>3, <1>4, <1>5, <1>6, <1>7, <1>8, <1>9, NextCases

LEMMA OrderInvMeans ==
  ASSUME LoopInv, OrderInv
  PROVE  AutorefsJudgedOnce /\ HumansReportedOnce
<1>1. /\ DOMAIN AutorefSide = DOMAIN evaluations
      /\ DOMAIN HumanSide = DOMAIN evaluations
      /\ \A p \in DOMAIN evaluations :
           /\ AutorefSide[p] = evaluations[p].autoref_event
           /\ HumanSide[p] = evaluations[p].humanref_event
  BY SideTypes DEF LoopInv
<1>2. NumJudged \in 0..Len(autoref) /\ Len(autoref) \in Nat
  BY DEF LoopInv, TypeOK, Control, EventLists, NumJudged
<1>3. \A i \in 1..NumJudged : i \in DOMAIN autoref /\ autoref[i] # NoEvent
  <2>1. autoref \in EventLists /\ DOMAIN autoref = 1..Len(autoref)
    BY DEF LoopInv, TypeOK, EventLists
  <2>. QED
    BY <2>1, <1>2, LogHasNoNoEvent
<1>4. AutorefsJudgedOnce
  BY <1>1, <1>3 DEF AutorefsJudgedOnce, OrderInv, FollowsLog, CoversLog, Judged
<1>5. HumansReportedOnce
  BY <1>1 DEF HumansReportedOnce, OrderInv, FollowsLog, Reported
<1>. QED
  BY <1>4, <1>5

LEMMA AlwaysLoopInv == Spec => []LoopInv
BY InitLoopInv, StepLoopInv, PTL DEF Spec

LEMMA AlwaysOrderInv == Spec => []OrderInv
BY InitOrderInv, StepOrderInv, AlwaysLoopInv, PTL DEF Spec

(* Every autoref event is judged exactly once and in the log's order, for  *)
(* every pair of logs and whatever a read past the end returns.            *)
THEOREM JudgedOnce == Spec => []AutorefsJudgedOnce
BY AlwaysLoopInv, AlwaysOrderInv, OrderInvMeans, PTL

(* While the scan is inside human_referee, each of its events is reported  *)
(* at most once and in the log's order.                                    *)
THEOREM ReportedOnce == Spec => []HumansReportedOnce
BY AlwaysLoopInv, AlwaysOrderInv, OrderInvMeans, PTL
-----------------------------------------------------------------------------
(* What is known of the human event that a match has found and that is     *)
(* read once more to be reported.                                          *)
Agree(h, a) == a.command = h.command /\ Overlaps(h, a, AutoToHumanDelay)

AgreeInv ==
  /\ TruePositivesAgree
  /\ (pc = "judge" /\ match_found /\ InRange) =>
       Agree(human_referee[k + 1], Autoref)

LEMMA AgreeAfterReport ==
  ASSUME TypeOK, TypeOK', AgreeInv, NEW a \in RefereeEvent, NEW h \in RefereeEvent,
         NEW value, Report(value, a, h), UNCHANGED human_referee, k <= k',
         InsideVector' => a = NoEvent \/ h = NoEvent \/ Agree(h, a)
  PROVE  TruePositivesAgree'
<1>1. InsideVector' => InsideVector
  BY DEF InsideVector, TypeOK, EventLists
<1>2. /\ Len(evaluations) \in Nat
      /\ DOMAIN evaluations = 1..Len(evaluations)
      /\ DOMAIN evaluations' = 1..(Len(evaluations) + 1)
      /\ \A p \in 1..Len(evaluations) : evaluations'[p] = evaluations[p]
      /\ evaluations'[Len(evaluations) + 1].autoref_event = a
      /\ evaluations'[Len(evaluations) + 1].humanref_event = h
  BY ReportGrows
<1> SUFFICES ASSUME InsideVector',
                    NEW p \in (Judged \cap Reported)'
             PROVE  Agree(evaluations'[p].humanref_event, evaluations'[p].autoref_event)
  BY DEF TruePositivesAgree, Agree, Overlaps, Before, Minus
<1>3. CASE p = Len(evaluations) + 1
  BY <1>2, <1>3 DEF Judged, Reported
<1>4. CASE p \in 1..Len(evaluations)
  <2>1. p \in Judged \cap Reported
    BY <1>2, <1>4 DEF Judged, Reported
  <2>. QED
    BY <2>1, <1>1, <1>2, <1>4 DEF AgreeInv, TruePositivesAgree, Agree
<1>. QED
  BY <1>2, <1>3, <1>4 DEF Judged

LEMMA SilentAgree ==
  ASSUME TypeOK, TypeOK', AgreeInv, UNCHANGED <<logs, evaluations>>, k <= k'
  PROVE  TruePositivesAgree'
<1>1. InsideVector' => InsideVector
  BY DEF InsideVector, TypeOK, EventLists
<1>. QED
  BY <1>1 DEF AgreeInv, TruePositivesAgree, Judged, Reported

LEMMA StepAgreeInv == LoopInv /\ LoopInv' /\ AgreeInv /\ [Next]_vars => AgreeInv'
<1> SUFFICES ASSUME LoopInv, LoopInv', AgreeInv, [Next]_vars PROVE AgreeInv'
  OBVIOUS
<1>t. TypeOK /\ TypeOK' /\ Control
  BY DEF LoopInv
<1>l. /\ Len(human_referee) \in Nat /\ Len(autoref) \in Nat
      /\ j \in Nat /\ k \in Nat
  BY <1>t DEF TypeOK, EventLists
<1>n. NoEvent \in RefereeEvent
  BY NoEventType
<1>r. /\ \A h \in HumanReads : h \in RefereeEvent
      /\ j < Len(autoref) => Autoref \in RefereeEvent
  BY <1>t, ReadTypes
<1>1. CASE \/ NoHumanEvents \/ StartMatching \/ NextAutorefEvent \/ AutorefExhausted
           \/ AlreadyJudged \/ ReadFaults
  <2>1. /\ UNCHANGED <<logs, evaluations>> /\ k <= k' /\ pc' # "judge"
    BY <1>1, <1>l DEF NoHumanEvents, StartMatching, NextAutorefEvent, AutorefExhausted,
         AlreadyJudged, ReadFaults, EndOfIteration
  <2>. QED
    BY <2>1, <1>t, SilentAgree DEF AgreeInv
<1>2. ASSUME NEW h \in HumanReads, pc = "do", MissedHumanEvent(h)
      PROVE  AgreeInv'
  <2>1. /\ Report("kFalseNegative", NoEvent, h) /\ UNCHANGED logs
        /\ k <= k' /\ ~match_found'
    BY <1>2, <1>t, <1>l DEF MissedHumanEvent, EndOfBody, Control
  <2>2. TruePositivesAgree'
    BY <2>1, <1>t, <1>n, <1>r, AgreeAfterReport
  <2>. QED
    BY <2>1, <2>2 DEF AgreeInv
<1>3. ASSUME NEW h \in HumanReads, pc = "do", EarlyAutorefEvent(h)
      PROVE  AgreeInv'
  <2>1. /\ Report("kFalsePositive", Autoref, NoEvent) /\ UNCHANGED logs
        /\ k <= k' /\ ~match_found' /\ j < Len(autoref)
    BY <1>3, <1>t, <1>l DEF EarlyAutorefEvent, EndOfBody, Control
  <2>2. TruePositivesAgree'
    BY <2>1, <1>t, <1>n, <1>r, AgreeAfterReport
  <2>. QED
    BY <2>1, <2>2 DEF AgreeInv
<1>4. ASSUME NEW h \in HumanReads, pc = "do", OverlappingEvents(h)
      PROVE  AgreeInv'
  <2>1. UNCHANGED <<logs, evaluations>> /\ k <= k'
    BY <1>4, <1>l DEF OverlappingEvents, EndOfBody
  <2>2. TruePositivesAgree'
    BY <2>1, <1>t, SilentAgree
  <2>3. ASSUME match_found', InRange'
        PROVE  Agree(human_referee[k + 1], Autoref)'
    <3>1. /\ k' = k /\ j' = j /\ h.command = Autoref.command
          /\ ~Before(h, Autoref, 0) /\ ~Before(Autoref, h, AutoToHumanDelay)
      BY <1>4, <2>3 DEF OverlappingEvents, EndOfBody, HumanToAutoDelay
    <3>2. h = human_referee[k + 1]
      BY <3>1, <2>1, <2>3 DEF HumanReads, InRange
    <3>3. Agree(h, Autoref)
      BY <3>1 DEF Agree, Overlaps
    <3>. QED
      BY <2>1, <3>1, <3>2, <3>3 DEF Agree, Autoref, Overlaps, Before, Minus
  <2>. QED
    BY <2>2, <2>3 DEF AgreeInv
<1>5. CASE TruePositive
  <2>1. PICK h \in HumanReads : Report("kTruePositive", Autoref, h)
    BY <1>5 DEF TruePositive
  <2>2. /\ pc = "judge" /\ match_found /\ UNCHANGED logs /\ k' = k + 1
        /\ j < Len(autoref) /\ pc' # "judge"
    BY <1>5, <1>t DEF TruePositive, EndOfIteration, Control
  <2>3. InsideVector' => Agree(h, Autoref)
    BY <2>2, <1>l DEF InsideVector, InRange, HumanReads, AgreeInv
  <2>4. TruePositivesAgree'
    BY <2>1, <2>2, <2>3, <1>t, <1>l, <1>r, AgreeAfterReport
  <2>. QED
    BY <2>2, <2>4 DEF AgreeInv
<1>6. CASE NoHumanEventsLeft
  <2>1. /\ Report("kFalsePositive", Autoref, NoEvent) /\ UNCHANGED logs
        /\ k <= k' /\ pc' # "judge" /\ j < Len(autoref)
    BY <1>6, <1>t, <1>l DEF NoHumanEventsLeft, EndOfIteration, Control
  <2>2. TruePositivesAgree'
    BY <2>1, <1>t, <1>n, <1>r, AgreeAfterReport
  <2>. QED
    BY <2>1, <2>2 DEF AgreeInv
<1>7. CASE UNCHANGED vars
  BY <1>7 DEF vars, AgreeInv, TruePositivesAgree, InsideVector, Judged, Reported,
       InRange, Autoref, Agree, Overlaps, Before, Minus
<1>. QED
  BY <1>1, <1>2, <1>3, <1>4, <1>5, <1>6, <1>7, NextCases

(* A true positive pairs two events of one command that overlap in time,   *)
(* for every delay and every width of the timestamps, although             *)
(* human_referee[k] is read again after the comparison.                    *)
THEOREM MatchesAgree == Spec => []TruePositivesAgree
<1>1. Init => AgreeInv
  BY DEF Init, AgreeInv, TruePositivesAgree, Judged
<1>2. AgreeInv => TruePositivesAgree
  BY DEF AgreeInv
<1>. QED
  BY <1>1, <1>2, StepAgreeInv, AlwaysLoopInv, PTL DEF Spec
-----------------------------------------------------------------------------
(* Human events that no autoref event was matched with.                   *)

(* A missed event that no judgement follows yet.                           *)
Trailing == { p \in Reported \ Judged : \A r \in Judged : r < p }

(* An iteration that is under way has autoref[j] still to judge, and every *)
(* missed event it has reported was over before autoref[j] began; between  *)
(* two iterations nothing is trailing.                                     *)
MissedInv ==
  /\ MissedEventsPrecede
  /\ (pc = "do" \/ (pc = "judge" /\ ~evaluated)) =>
       \A p \in Trailing : Before(evaluations[p].humanref_event, Autoref, 0)
  /\ (pc \in {"start", "for"} \/ (pc = "judge" /\ evaluated)) => Trailing = {}

LEMMA SilentMissed ==
  ASSUME MissedEventsPrecede, UNCHANGED evaluations
  PROVE  MissedEventsPrecede' /\ Trailing' = Trailing
BY DEF MissedEventsPrecede, Trailing, Judged, Reported, Before, Minus

(* An autoref event that begins after all that is trailing is judged.      *)
LEMMA JudgedMissed ==
  ASSUME TypeOK, MissedEventsPrecede, NEW a \in RefereeEvent, a # NoEvent,
         NEW h \in RefereeEvent, NEW value, Report(value, a, h),
         \A p \in Trailing : Before(evaluations[p].humanref_event, a, 0)
  PROVE  MissedEventsPrecede' /\ Trailing' = {}
<1> DEFINE n == Len(evaluations)
<1>1. /\ n \in Nat
      /\ DOMAIN evaluations = 1..n
      /\ DOMAIN evaluations' = 1..(n + 1)
      /\ \A p \in 1..n : evaluations'[p] = evaluations[p]
      /\ evaluations'[n + 1].autoref_event = a
      /\ evaluations'[n + 1].humanref_event = h
  BY ReportGrows
<1> HIDE DEF n
<1>2. /\ Judged' = Judged \cup {n + 1}
      /\ Reported' \subseteq Reported \cup {n + 1}
      /\ Judged \subseteq 1..n /\ Reported \subseteq 1..n
  BY <1>1 DEF Judged, Reported
<1>3. Trailing' = {}
  <2> SUFFICES ASSUME NEW p \in Trailing' PROVE FALSE
    OBVIOUS
  <2>1. p \in Reported' /\ \A r \in Judged' : r < p
    BY DEF Trailing
  <2>2. p \in 1..(n + 1) /\ n + 1 < p
    BY <2>1, <1>1, <1>2
  <2>. QED
    BY <2>2, <1>1
<1>4. ASSUME NEW p \in (Reported \ Judged)', NEW q \in Judged', p < q,
             \A r \in Judged' : r <= p \/ q <= r
      PROVE  Before(evaluations'[p].humanref_event, evaluations'[q].autoref_event, 0)
  <2>1. p \in Reported \ Judged /\ p \in 1..n
    BY <1>2, <1>4
  <2>2. CASE q = n + 1
    <3>1. \A r \in Judged : r < p
      BY <1>1, <1>2, <1>4, <2>1, <2>2
    <3>. QED
      BY <3>1, <2>1, <2>2, <1>1 DEF Trailing
  <2>3. CASE q \in 1..n
    BY <2>1, <2>3, <1>1, <1>2, <1>4 DEF MissedEventsPrecede
  <2>. QED
    BY <2>2, <2>3, <1>1, <1>2
<1>5. MissedEventsPrecede'
  BY <1>4 DEF MissedEventsPrecede, Before, Minus
<1>. QED
  BY <1>3, <1>5

(* A human event that was over before Autoref began is reported as missed. *)
LEMMA MissedMissed ==
  ASSUME TypeOK, MissedEventsPrecede, NEW h \in RefereeEvent, NEW value,
         Report(value, NoEvent, h)
  PROVE  /\ MissedEventsPrecede'
         /\ \A p \in Trailing' :
              \/ p \in Trailing /\ evaluations'[p] = evaluations[p]
              \/ evaluations'[p].humanref_event = h
<1> DEFINE n == Len(evaluations)
<1>1. /\ n \in Nat
      /\ DOMAIN evaluations = 1..n
      /\ DOMAIN evaluations' = 1..(n + 1)
      /\ \A p \in 1..n : evaluations'[p] = evaluations[p]
      /\ evaluations'[n + 1].autoref_event = NoEvent
      /\ evaluations'[n + 1].humanref_event = h
  BY ReportGrows, NoEventType
<1> HIDE DEF n
<1>2. /\ Judged' = Judged
      /\ Reported' \subseteq Reported \cup {n + 1}
      /\ Judged \subseteq 1..n /\ Reported \subseteq 1..n
  BY <1>1 DEF Judged, Reported
<1>3. ASSUME NEW p \in (Reported \ Judged)', NEW q \in Judged', p < q,
             \A r \in Judged' : r <= p \/ q <= r
      PROVE  Before(evaluations'[p].humanref_event, evaluations'[q].autoref_event, 0)
  <2>1. p \in Reported \ Judged /\ p \in 1..n /\ q \in Judged /\ q \in 1..n
    BY <1>1, <1>2, <1>3
  <2>. QED
    BY <2>1, <1>1, <1>2, <1>3 DEF MissedEventsPrecede
<1>4. MissedEventsPrecede'
  BY <1>3 DEF MissedEventsPrecede, Before, Minus
<1>5. \A p \in Trailing' :
        \/ p \in Trailing /\ evaluations'[p] = evaluations[p]
        \/ evaluations'[p].humanref_event = h
  BY <1>1, <1>2 DEF Trailing
<1>. QED
  BY <1>4, <1>5

LEMMA StepMissedInv == LoopInv /\ MissedInv /\ [Next]_vars => MissedInv'
<1> SUFFICES ASSUME LoopInv, MissedInv, [Next]_vars PROVE MissedInv'
  OBVIOUS
<1>t. TypeOK /\ Control
  BY DEF LoopInv
<1>m. MissedEventsPrecede
  BY DEF MissedInv
<1>n. NoEvent \in RefereeEvent
  BY NoEventType
<1>r. /\ \A h \in HumanReads : h \in RefereeEvent
      /\ j < Len(autoref) => Autoref \in RefereeEvent /\ Autoref # NoEvent
  BY <1>t, ReadTypes DEF EventCommands, NoEvent
<1>1. CASE \/ NoHumanEvents \/ StartMatching \/ AutorefExhausted \/ ReadFaults
           \/ NextAutorefEvent \/ AlreadyJudged
  <2>1. UNCHANGED evaluations
    BY <1>1 DEF NoHumanEvents, StartMatching, NextAutorefEvent, AutorefExhausted,
         AlreadyJudged, ReadFaults
  <2>2. MissedEventsPrecede' /\ Trailing' = Trailing
    BY <2>1, <1>m, SilentMissed
  <2>. QED
    BY <1>1, <2>2 DEF MissedInv, NoHumanEvents, StartMatching, NextAutorefEvent,
         AutorefExhausted, AlreadyJudged, ReadFaults, EndOfIteration
<1>2. ASSUME NEW h \in HumanReads, pc = "do", MissedHumanEvent(h)
      PROVE  MissedInv'
  <2>1. /\ Report("kFalseNegative", NoEvent, h) /\ UNCHANGED logs /\ j' = j
        /\ Before(h, Autoref, 0) /\ ~evaluated' /\ pc' \in {"do", "judge"}
    BY <1>2, <1>t DEF MissedHumanEvent, EndOfBody, HumanToAutoDelay, Control
  <2>2. /\ MissedEventsPrecede'
        /\ \A p \in Trailing' :
             \/ p \in Trailing /\ evaluations'[p] = evaluations[p]
             \/ evaluations'[p].humanref_event = h
    BY <2>1, <1>t, <1>m, <1>r, MissedMissed
  <2>3. \A p \in Trailing' : Before(evaluations'[p].humanref_event, Autoref, 0)
    BY <2>1, <2>2, <1>2 DEF MissedInv
  <2>4. Autoref' = Autoref
    BY <2>1 DEF Autoref
  <2>. QED
    BY <2>1, <2>2, <2>3, <2>4 DEF MissedInv, Before, Minus
<1>3. ASSUME NEW h \in HumanReads, pc = "do", EarlyAutorefEvent(h)
      PROVE  MissedInv'
  <2>1. /\ Report("kFalsePositive", Autoref, NoEvent) /\ j < Len(autoref)
        /\ \A p \in Trailing : Before(evaluations[p].humanref_event, Autoref, 0)
    BY <1>3, <1>t DEF EarlyAutorefEvent, Control, MissedInv
  <2>2. MissedEventsPrecede' /\ Trailing' = {}
    BY <2>1, <1>t, <1>m, <1>n, <1>r, JudgedMissed
  <2>. QED
    BY <2>2 DEF MissedInv
<1>4. ASSUME NEW h \in HumanReads, pc = "do", OverlappingEvents(h)
      PROVE  MissedInv'
  <2>1. /\ UNCHANGED evaluations /\ UNCHANGED logs /\ j' = j
        /\ ~evaluated' /\ pc' \in {"do", "judge"}
    BY <1>4, <1>t DEF OverlappingEvents, EndOfBody, Control
  <2>2. MissedEventsPrecede' /\ Trailing' = Trailing /\ Autoref' = Autoref
    BY <2>1, <1>m, SilentMissed DEF Autoref
  <2>. QED
    BY <2>1, <2>2, <1>4 DEF MissedInv, Before, Minus
<1>5. CASE TruePositive
  <2>1. PICK h \in HumanReads : Report("kTruePositive", Autoref, h)
    BY <1>5 DEF TruePositive
  <2>2. /\ j < Len(autoref)
        /\ \A p \in Trailing : Before(evaluations[p].humanref_event, Autoref, 0)
    BY <1>5, <1>t DEF TruePositive, Control, MissedInv
  <2>3. MissedEventsPrecede' /\ Trailing' = {}
    BY <2>1, <2>2, <1>t, <1>m, <1>r, JudgedMissed
  <2>. QED
    BY <2>3 DEF MissedInv
<1>6. CASE NoHumanEventsLeft
  <2>1. /\ Report("kFalsePositive", Autoref, NoEvent) /\ j < Len(autoref)
        /\ \A p \in Trailing : Before(evaluations[p].humanref_event, Autoref, 0)
    BY <1>6, <1>t DEF NoHumanEventsLeft, Control, MissedInv
  <2>2. MissedEventsPrecede' /\ Trailing' = {}
    BY <2>1, <1>t, <1>m, <1>n, <1>r, JudgedMissed
  <2>. QED
    BY <2>2 DEF MissedInv
<1>7. CASE UNCHANGED vars
  BY <1>7, <1>m, SilentMissed DEF vars, MissedInv, Autoref, Before, Minus
<1>. QED
  BY <1>1, <1>2, <1>3, <1>4, <1>5, <1>6, <1>7, NextCases

(* A missed human event was over before the autoref event judged next      *)
(* began, for all logs and whatever lies behind human_referee.             *)
THEOREM MissedPrecede == Spec => []MissedEventsPrecede
<1>1. Init => MissedInv
  BY DEF Init, MissedInv, MissedEventsPrecede, Trailing, Reported
<1>2. MissedInv => MissedEventsPrecede
  BY DEF MissedInv
<1>. QED
  BY <1>1, <1>2, StepMissedInv, AlwaysLoopInv, PTL DEF Spec
-----------------------------------------------------------------------------
(* A human event that the scan has left behind and did not report met an   *)
(* autoref event it could not be matched with.                             *)
Excused(h) ==
  \E i \in DOMAIN autoref :
    /\ ~Before(h, autoref[i], 0)
    /\ autoref[i].command # h.command \/ Before(autoref[i], h, AutoToHumanDelay)

(* Its place among the reported events, once it has one, stays.            *)
Told(h) == \E p \in Reported : evaluations[p].humanref_event = h

LEMMA ToldStays ==
  ASSUME TypeOK, NEW h,
         \/ UNCHANGED evaluations
         \/ \E a, e \in RefereeEvent : \E value : Report(value, a, e)
  PROVE  Told(h) => Told(h)'
<1>1. CASE UNCHANGED evaluations
  BY <1>1 DEF Told, Reported
<1>2. ASSUME NEW a \in RefereeEvent, NEW e \in RefereeEvent, NEW value, Report(value, a, e)
      PROVE  Told(h) => Told(h)'
  BY <1>2, ReportGrows DEF Told, Reported
<1>. QED
  BY <1>1, <1>2

LEMMA ToldNow ==
  ASSUME TypeOK, NEW a \in RefereeEvent, NEW h \in RefereeEvent, h # NoEvent,
         NEW value, Report(value, a, h)
  PROVE  Told(h)'
BY ReportGrows DEF Told, Reported

(* What NoSilentDrop says, in the words of this module.                    *)
LEMMA NoSilentDropMeans ==
  NoSilentDrop <=>
    (InsideVector => \A m \in 1..k : Told(human_referee[m]) \/ Excused(human_referee[m]))
BY DEF NoSilentDrop, Told, Excused

(* A step that leaves at most human_referee[k] behind and accounts for it. *)
LEMMA DropStep ==
  ASSUME TypeOK, TypeOK', NoSilentDrop, UNCHANGED logs,
         \/ UNCHANGED evaluations
         \/ \E a, e \in RefereeEvent : \E value : Report(value, a, e),
         \/ k' = k
         \/ /\ k' = k + 1
            /\ \A h : InRange /\ h = human_referee[k + 1] => Told(h)' \/ Excused(h)
  PROVE  NoSilentDrop'
<1>1. k \in Nat /\ k' \in Nat /\ Len(human_referee) \in Nat
  BY DEF TypeOK, EventLists
<1>2. \A h : Excused(h)' <=> Excused(h)
  BY DEF Excused, Before, Minus
<1>3. InsideVector' => InsideVector /\ (k' = k + 1 => InRange)
  BY <1>1 DEF InsideVector, InRange
<1>4. ASSUME InsideVector', NEW m \in 1..k', NEW h, h = human_referee[m]
      PROVE  Told(h)' \/ Excused(h)
  <2>1. CASE m \in 1..k
    <3>1. Told(h) \/ Excused(h)
      BY <1>3, <1>4, <2>1, NoSilentDropMeans
    <3>. QED
      BY <3>1, ToldStays
  <2>2. CASE k' = k + 1 /\ m = k + 1
    BY <2>2, <1>3, <1>4, <1>1
  <2>. QED
    BY <2>1, <2>2, <1>1
<1>. QED
  BY <1>2, <1>4 DEF NoSilentDrop, Told, Excused, Before, Minus

LEMMA StepNoSilentDrop == LoopInv /\ LoopInv' /\ NoSilentDrop /\ [Next]_vars => NoSilentDrop'
<1> SUFFICES ASSUME LoopInv, LoopInv', NoSilentDrop, [Next]_vars PROVE NoSilentDrop'
  OBVIOUS
<1>t. TypeOK /\ TypeOK' /\ Control
  BY DEF LoopInv
<1>l. k \in Nat /\ j \in Nat /\ j + 1 \in DOMAIN autoref <=> j < Len(autoref)
  BY <1>t DEF TypeOK, EventLists
<1>n. NoEvent \in RefereeEvent
  BY NoEventType
<1>r. /\ \A h \in HumanReads : h \in RefereeEvent
      /\ j < Len(autoref) => Autoref \in RefereeEvent
  BY <1>t, ReadTypes
<1>h. ASSUME InRange PROVE human_referee[k + 1] # NoEvent
  <2>1. k + 1 \in DOMAIN human_referee
    BY <1>h, <1>t DEF InRange, TypeOK, EventLists
  <2>. QED
    BY <2>1, <1>t, LogHasNoNoEvent DEF TypeOK
<1>1. CASE \/ NoHumanEvents \/ StartMatching \/ AutorefExhausted \/ ReadFaults
           \/ NextAutorefEvent \/ AlreadyJudged
  BY <1>1, <1>t, DropStep DEF NoHumanEvents, StartMatching, NextAutorefEvent,
     AutorefExhausted, AlreadyJudged, ReadFaults, EndOfIteration
<1>2. ASSUME NEW h \in HumanReads, pc = "do", MissedHumanEvent(h)
      PROVE  NoSilentDrop'
  <2>1. /\ Report("kFalseNegative", NoEvent, h) /\ UNCHANGED logs /\ k' = k + 1
    BY <1>2, <1>t DEF MissedHumanEvent, EndOfBody, Control
  <2>2. \A x : InRange /\ x = human_referee[k + 1] => Told(x)'
    BY <2>1, <1>h, <1>t, <1>n, <1>r, ToldNow DEF HumanReads
  <2>. QED
    BY <2>1, <2>2, <1>n, <1>r, <1>t, DropStep
<1>3. ASSUME NEW h \in HumanReads, pc = "do", EarlyAutorefEvent(h)
      PROVE  NoSilentDrop'
  <2>1. /\ Report("kFalsePositive", Autoref, NoEvent) /\ UNCHANGED logs /\ k' = k + 1
        /\ j < Len(autoref)
        /\ ~Before(h, Autoref, 0) /\ Before(Autoref, h, AutoToHumanDelay)
    BY <1>3, <1>t DEF EarlyAutorefEvent, EndOfBody, HumanToAutoDelay, Control
  <2>2. InRange => Excused(human_referee[k + 1])
    BY <2>1, <1>l DEF HumanReads, Excused, Autoref
  <2>. QED
    BY <2>1, <2>2, <1>n, <1>r, <1>t, DropStep
<1>4. ASSUME NEW h \in HumanReads, pc = "do", OverlappingEvents(h)
      PROVE  NoSilentDrop'
  <2>1. /\ UNCHANGED evaluations /\ UNCHANGED logs /\ j < Len(autoref)
        /\ ~Before(h, Autoref, 0)
        /\ k' = k \/ (k' = k + 1 /\ h.command # Autoref.command)
    BY <1>4, <1>t DEF OverlappingEvents, EndOfBody, HumanToAutoDelay, Control
  <2>2. k' = k \/ (k' = k + 1 /\ InRange => Excused(human_referee[k + 1]))
    BY <2>1, <1>l DEF HumanReads, Excused, Autoref
  <2>. QED
    BY <2>1, <2>2, <1>t, DropStep
<1>5. CASE TruePositive
  <2>1. PICK h \in HumanReads : Report("kTruePositive", Autoref, h)
    BY <1>5 DEF TruePositive
  <2>2. UNCHANGED logs /\ k' = k + 1 /\ j < Len(autoref)
    BY <1>5, <1>t DEF TruePositive, EndOfIteration, Control
  <2>3. \A x : InRange /\ x = human_referee[k + 1] => Told(x)'
    BY <2>1, <2>2, <1>h, <1>t, <1>r, ToldNow DEF HumanReads
  <2>. QED
    BY <2>1, <2>2, <2>3, <1>r, <1>t, DropStep
<1>6. CASE NoHumanEventsLeft
  <2>1. /\ Report("kFalsePositive", Autoref, NoEvent) /\ UNCHANGED logs
        /\ k' = k /\ j < Len(autoref)
    BY <1>6, <1>t DEF NoHumanEventsLeft, EndOfIteration, Control
  <2>. QED
    BY <2>1, <1>n, <1>r, <1>t, DropStep
<1>7. CASE UNCHANGED vars
  BY <1>7, <1>t, DropStep DEF vars
<1>. QED
  BY <1>1, <1>2, <1>3, <1>4, <1>5, <1>6, <1>7, NextCases

(* No human event is passed over against its own counterpart: each one the *)
(* scan has left behind is reported or met an autoref event of another     *)
(* command or one that was over too early.                                 *)
THEOREM NothingDropped == Spec => []NoSilentDrop
<1>1. Init => NoSilentDrop
  BY DEF Init, NoSilentDrop
<1>. QED
  BY <1>1, StepNoSilentDrop, AlwaysLoopInv, PTL DEF Spec
-----------------------------------------------------------------------------
(* The judgement that no human event is left is made only where none is.   *)
LeftInv == (pc = "judge" /\ ~match_found /\ ~evaluated) => ~InRange

LEMMA InitLeftInv == Init => LeftInv
BY DEF Init, LeftInv

LEMMA StepLeftInv == LoopInv /\ LeftInv /\ [Next]_vars => LeftInv'
<1> SUFFICES ASSUME LoopInv, LeftInv, [Next]_vars PROVE LeftInv'
  OBVIOUS
<1>1. CASE \/ NoHumanEvents \/ StartMatching \/ NextAutorefEvent \/ AutorefExhausted
           \/ TruePositive \/ NoHumanEventsLeft \/ AlreadyJudged \/ ReadFaults
  BY <1>1 DEF NoHumanEvents, StartMatching, NextAutorefEvent, AutorefExhausted,
     TruePositive, NoHumanEventsLeft, AlreadyJudged, ReadFaults, EndOfIteration, LeftInv
<1>2. ASSUME EndOfBody PROVE LeftInv'
  BY <1>2 DEF EndOfBody, LeftInv, InRange
<1>3. ASSUME NEW h \in HumanReads,
             MissedHumanEvent(h) \/ EarlyAutorefEvent(h) \/ OverlappingEvents(h)
      PROVE  LeftInv'
  BY <1>2, <1>3 DEF MissedHumanEvent, EarlyAutorefEvent, OverlappingEvents
<1>4. CASE UNCHANGED vars
  BY <1>4 DEF vars, LeftInv, InRange
<1>. QED
  BY <1>1, <1>3, <1>4, NextCases

(* The verdicts that the evaluations stand for.                            *)
VerdictList ==
  [p \in DOMAIN evaluations |->
     <<evaluations[p].autoref_event, evaluations[p].humanref_event>>]

LEMMA VerdictGrows ==
  ASSUME TypeOK, NEW a \in RefereeEvent, NEW h \in RefereeEvent,
         NEW value, Report(value, a, h)
  PROVE  VerdictList' = Append(VerdictList, <<a, h>>)
<1>1. /\ Len(evaluations) \in Nat
      /\ DOMAIN evaluations = 1..Len(evaluations)
      /\ DOMAIN evaluations' = 1..(Len(evaluations) + 1)
      /\ \A p \in 1..Len(evaluations) : evaluations'[p] = evaluations[p]
      /\ evaluations'[Len(evaluations) + 1].autoref_event = a
      /\ evaluations'[Len(evaluations) + 1].humanref_event = h
  BY ReportGrows
<1> DEFINE n == Len(evaluations)
           S == RefereeEvent \X RefereeEvent
           longer == Append(VerdictList, <<a, h>>)
<1>2. VerdictList \in Seq(S) /\ Len(VerdictList) = n
  <2>1. \A p \in 1..n : evaluations[p] \in Evaluation
    BY ElementOfSeq DEF TypeOK
  <2>2. VerdictList \in [1..n -> S]
    BY <1>1, <2>1 DEF VerdictList, Evaluation
  <2>. QED
    BY <1>1, <2>2
<1>3. VerdictList' =
        [p \in 1..(n + 1) |->
           <<evaluations'[p].autoref_event, evaluations'[p].humanref_event>>]
  BY <1>1 DEF VerdictList
<1>4. \A p \in 1..n : VerdictList'[p] = VerdictList[p]
  <2>1. VerdictList =
          [p \in 1..n |-> <<evaluations[p].autoref_event, evaluations[p].humanref_event>>]
    BY <1>1 DEF VerdictList
  <2>2. \A p \in 1..n : p \in 1..(n + 1)
    BY <1>1
  <2>. QED
    BY <1>1, <1>3, <2>1, <2>2
<1>5. VerdictList'[n + 1] = <<a, h>>
  BY <1>1, <1>3
<1>6. <<a, h>> \in S /\ n \in Nat
  BY <1>1
<1>. HIDE DEF n, S
<1>7. /\ longer \in Seq(S) /\ Len(longer) = n + 1 /\ longer[n + 1] = <<a, h>>
      /\ \A p \in 1..n : longer[p] = VerdictList[p]
  BY <1>2, <1>6, AppendProperties
<1>. HIDE DEF longer
<1>8. longer = [p \in 1..(n + 1) |-> longer[p]]
  BY <1>7
<1>9. VerdictList' = [p \in 1..(n + 1) |-> VerdictList'[p]]
  BY <1>3
<1>10. \A p \in 1..(n + 1) : VerdictList'[p] = longer[p]
  BY <1>4, <1>5, <1>6, <1>7
<1>11. VerdictList' = longer
  BY <1>8, <1>9, <1>10
<1>. QED
  BY <1>11 DEF longer

(* What Scoring says in terms of Matching.                                 *)
LEMMA ScoringTerms ==
  ASSUME NumJudged = j
  PROVE  /\ Verdicts!NextAutoref = Autoref
         /\ Verdicts!Left <=> InRange
         /\ Verdicts!NextHumans = HumanReads
         /\ Verdicts!NoEvent = NoEvent
         /\ \A e, f, td : Verdicts!Before(e, f, td) <=> Before(e, f, td)
         /\ \A e, f, td : Verdicts!Overlaps(e, f, td) <=> Overlaps(e, f, td)
BY DEF Verdicts!NextAutoref, Verdicts!Left, Verdicts!NextHumans, Verdicts!NoEvent,
   Verdicts!Before, Verdicts!Overlaps, Verdicts!Minus, Autoref, InRange, HumanReads,
   NoEvent, Before, Overlaps, Minus

LEMMA ScoringStep ==
  LoopInv /\ AgreeInv /\ LeftInv /\ [Next]_vars => [Verdicts!Next]_(Verdicts!svars)
<1> SUFFICES ASSUME LoopInv, AgreeInv, LeftInv, [Next]_vars
             PROVE  [Verdicts!Next]_(Verdicts!svars)
  OBVIOUS
<1>t. TypeOK /\ Control /\ j \in Nat /\ k \in Nat
  BY DEF LoopInv, TypeOK
<1>n. NoEvent \in RefereeEvent
  BY NoEventType
<1>r. /\ \A h \in HumanReads : h \in RefereeEvent
      /\ j < Len(autoref) => Autoref \in RefereeEvent
  BY <1>t, ReadTypes
<1>s. ASSUME UNCHANGED <<logs, k, evaluations>>, NumJudged' = NumJudged
      PROVE  UNCHANGED Verdicts!svars
  BY <1>s DEF Verdicts!svars
<1>1. CASE \/ NoHumanEvents \/ StartMatching \/ NextAutorefEvent \/ AutorefExhausted
           \/ AlreadyJudged \/ ReadFaults \/ UNCHANGED vars
  <2>1. UNCHANGED <<logs, k, evaluations>> /\ NumJudged' = NumJudged
    BY <1>1, <1>t DEF NoHumanEvents, StartMatching, NextAutorefEvent, AutorefExhausted,
       AlreadyJudged, ReadFaults, EndOfIteration, vars, NumJudged, Control
  <2>. QED
    BY <2>1, <1>s
<1>2. ASSUME pc \in {"do", "judge"}, ~evaluated
      PROVE  NumJudged = j /\ j < Len(autoref) /\ Autoref \in RefereeEvent
  BY <1>2, <1>t, <1>r DEF NumJudged, Control
<1>3. ASSUME NEW h \in HumanReads, pc = "do", MissedHumanEvent(h)
      PROVE  Verdicts!Next
  <2>1. /\ ~evaluated /\ ~match_found /\ UNCHANGED <<logs, j, flags>>
        /\ k' = k + 1 /\ Before(h, Autoref, 0)
        /\ Report("kFalseNegative", NoEvent, h)
    BY <1>3, <1>t DEF MissedHumanEvent, EndOfBody, Control, HumanToAutoDelay
  <2>2. NumJudged = j /\ NumJudged' = j /\ j < Len(autoref)
    BY <2>1, <1>2, <1>3 DEF NumJudged
  <2>3. VerdictList' = Append(VerdictList, <<NoEvent, h>>)
    BY <2>1, <1>t, <1>n, <1>r, VerdictGrows
  <2>4. Verdicts!Miss(h)
    BY <2>1, <2>2, <2>3, ScoringTerms DEF Verdicts!Miss, Verdicts!Verdict, VerdictList
  <2>. QED
    BY <2>1, <2>2, <2>4, ScoringTerms DEF Verdicts!Next
<1>4. ASSUME NEW h \in HumanReads, pc = "do", EarlyAutorefEvent(h)
      PROVE  Verdicts!Next
  <2>1. /\ ~evaluated /\ ~match_found /\ UNCHANGED <<logs, j>>
        /\ evaluated' /\ pc' = "judge"
        /\ k' = k + 1 /\ Before(Autoref, h, AutoToHumanDelay)
        /\ Report("kFalsePositive", Autoref, NoEvent)
    BY <1>4, <1>t DEF EarlyAutorefEvent, EndOfBody, Control
  <2>2. NumJudged = j /\ NumJudged' = j + 1 /\ j < Len(autoref) /\ Autoref \in RefereeEvent
    BY <2>1, <1>2, <1>4 DEF NumJudged
  <2>3. VerdictList' = Append(VerdictList, <<Autoref, NoEvent>>)
    BY <2>1, <2>2, <1>t, <1>n, VerdictGrows
  <2>4. Verdicts!Alarm(h)
    BY <2>1, <2>2, <2>3, ScoringTerms DEF Verdicts!Alarm, Verdicts!Verdict, VerdictList
  <2>. QED
    BY <2>1, <2>2, <2>4, ScoringTerms DEF Verdicts!Next
<1>5. ASSUME NEW h \in HumanReads, pc = "do", OverlappingEvents(h)
      PROVE  [Verdicts!Next]_(Verdicts!svars)
  <2>1. /\ ~evaluated /\ UNCHANGED <<logs, j, evaluated, evaluations>>
        /\ match_found' = (h.command = Autoref.command)
        /\ k' = IF match_found' THEN k ELSE k + 1
        /\ Overlaps(h, Autoref, AutoToHumanDelay)
    BY <1>5, <1>t DEF OverlappingEvents, EndOfBody, Control, HumanToAutoDelay, Overlaps
  <2>2. NumJudged = j /\ NumJudged' = j /\ j < Len(autoref)
    BY <2>1, <1>2, <1>5 DEF NumJudged
  <2>3. CASE h.command = Autoref.command
    BY <2>1, <2>2, <2>3, <1>s
  <2>4. CASE h.command # Autoref.command
    <3>1. Verdicts!PassOver(h)
      BY <2>1, <2>2, <2>4, ScoringTerms DEF Verdicts!PassOver
    <3>. QED
      BY <2>1, <2>2, <3>1, ScoringTerms DEF Verdicts!Next
  <2>. QED
    BY <2>3, <2>4
<1>6. CASE TruePositive
  <2>1. PICK h \in HumanReads : Report("kTruePositive", Autoref, h)
    BY <1>6 DEF TruePositive
  <2>2. /\ ~evaluated /\ match_found /\ pc = "judge" /\ UNCHANGED logs
        /\ k' = k + 1 /\ j' = j + 1 /\ pc' = "for"
    BY <1>6, <1>t DEF TruePositive, EndOfIteration, Control
  <2>3. NumJudged = j /\ NumJudged' = j + 1 /\ j < Len(autoref) /\ Autoref \in RefereeEvent
    BY <2>2, <1>2 DEF NumJudged
  <2>4. VerdictList' = Append(VerdictList, <<Autoref, h>>)
    BY <2>1, <2>3, <1>t, <1>r, VerdictGrows
  <2>5. InRange => h.command = Autoref.command /\ Overlaps(h, Autoref, AutoToHumanDelay)
    BY <2>1, <2>2 DEF AgreeInv, Agree, HumanReads
  <2>6. Verdicts!Hit(h)
    BY <2>2, <2>3, <2>4, <2>5, ScoringTerms DEF Verdicts!Hit, Verdicts!Verdict, VerdictList
  <2>. QED
    BY <2>2, <2>3, <2>6, ScoringTerms DEF Verdicts!Next
<1>7. CASE NoHumanEventsLeft
  <2>1. /\ ~evaluated /\ pc = "judge" /\ UNCHANGED <<logs, k>> /\ j' = j + 1 /\ pc' = "for"
        /\ ~InRange /\ Report("kFalsePositive", Autoref, NoEvent)
    BY <1>7 DEF NoHumanEventsLeft, EndOfIteration, LeftInv
  <2>2. NumJudged = j /\ NumJudged' = j + 1 /\ j < Len(autoref) /\ Autoref \in RefereeEvent
    BY <2>1, <1>2 DEF NumJudged
  <2>3. VerdictList' = Append(VerdictList, <<Autoref, NoEvent>>)
    BY <2>1, <2>2, <1>t, <1>n, VerdictGrows
  <2>4. Verdicts!Alarm(NoEvent)
    BY <2>1, <2>2, <2>3, ScoringTerms DEF Verdicts!Alarm, Verdicts!Verdict, VerdictList
  <2>. QED
    BY <2>1, <2>2, <2>4, ScoringTerms DEF Verdicts!Next
<1>. QED
  BY <1>1, <1>3, <1>4, <1>5, <1>6, <1>7, NextCases

(* The loop implements Scoring for every pair of logs: whatever its flags  *)
(* and indexes do, each step gives a verdict that the two events at hand   *)
(* justify, or none; only behind human_referee it depends on memory.       *)
THEOREM MatchingIsScoring == Spec => ImplementsScoring
<1>1. Init => Verdicts!Init
  <2> SUFFICES ASSUME Init PROVE Verdicts!Init
    OBVIOUS
  <2>1. Verdicts!EventLists = EventLists
    BY DEF Verdicts!EventLists, EventLists, Verdicts!CountersIncrease, CountersIncrease,
       Verdicts!RefereeEvent, RefereeEvent, Verdicts!EventCommands, EventCommands,
       Verdicts!Time, Time, Verdicts!Counter, Counter, Verdicts!Command, Command
  <2>2. human_referee \in EventLists /\ autoref \in EventLists
    BY LogsAssumption DEF Init
  <2>3. NumJudged = 0 /\ k = 0
    BY DEF Init, NumJudged
  <2>4. VerdictList = <<>>
    BY DEF Init, VerdictList
  <2>. QED
    BY <2>1, <2>2, <2>3, <2>4 DEF Verdicts!Init, VerdictList
<1>2. Init => AgreeInv
  BY DEF Init, AgreeInv, TruePositivesAgree, Judged
<1>3. LoopInv /\ LoopInv' /\ AgreeInv /\ [Next]_vars => AgreeInv'
  BY StepAgreeInv
<1>. QED
  BY <1>1, <1>2, <1>3, InitLeftInv, StepLeftInv, ScoringStep, InitLoopInv, StepLoopInv,
     PTL DEF Spec, ImplementsScoring, Verdicts!Spec
-----------------------------------------------------------------------------
(* How much is left to do: a human event that the scan still has before it *)
(* costs one step, an autoref event three.                                 *)
HumansAhead == IF InRange THEN Len(human_referee) - k ELSE 0
AutorefsAhead == Len(autoref) - j

StepsLeft ==
  CASE pc = "start" -> 3 * AutorefsAhead + HumansAhead + 2
    [] pc = "for"   -> 3 * AutorefsAhead + HumansAhead + 1
    [] pc = "do"    -> 3 * AutorefsAhead + HumansAhead
    [] pc = "judge" -> 3 * AutorefsAhead + HumansAhead - 1
    [] OTHER        -> 0

(* No combination of the two flags, the two indexes and what is read past  *)
(* the end makes the loop in the loop go round without getting on: every   *)
(* step leaves less to do, and at first it is a number that is linear in   *)
(* the two lists.                                                          *)
LoopGetsOn == [][StepsLeft' < StepsLeft /\ {StepsLeft, StepsLeft'} \subseteq Nat]_vars

LEMMA StepsLeftIsNat ==
  ASSUME LoopInv
  PROVE  /\ Len(human_referee) \in Nat /\ Len(autoref) \in Nat
         /\ j \in 0..Len(autoref) /\ k \in Nat
         /\ HumansAhead \in Nat /\ AutorefsAhead \in Nat /\ StepsLeft \in Nat
<1>1. /\ Len(human_referee) \in Nat /\ Len(autoref) \in Nat
      /\ j \in 0..Len(autoref) /\ k \in Nat
  BY DEF LoopInv, TypeOK, EventLists
<1>2. HumansAhead \in Nat /\ AutorefsAhead \in Nat
  BY <1>1 DEF HumansAhead, AutorefsAhead, InRange
<1>3. pc = "judge" => AutorefsAhead >= 1
  BY <1>1 DEF LoopInv, Control, AutorefsAhead
<1>4. StepsLeft \in Nat
  BY <1>2, <1>3 DEF StepsLeft
<1>. QED
  BY <1>1, <1>2, <1>4

(* A comparison leaves at most as many human events ahead, and fewer if    *)
(* the scan goes on.                                                       *)
LEMMA BodyGetsOn ==
  ASSUME LoopInv, pc = "do", EndOfBody
  PROVE  StepsLeft' < StepsLeft
<1>1. /\ Len(human_referee) \in Nat /\ Len(autoref) \in Nat
      /\ j \in 0..Len(autoref) /\ k \in Nat
  BY StepsLeftIsNat
<1>2. /\ Len(human_referee') = Len(human_referee)
      /\ AutorefsAhead' = AutorefsAhead /\ AutorefsAhead \in Nat
  BY <1>1 DEF EndOfBody, AutorefsAhead
<1>3. HumansAhead' <= HumansAhead /\ HumansAhead \in Nat /\ HumansAhead' \in Int
  BY <1>1, <1>2 DEF EndOfBody, HumansAhead, InRange
<1>4. CASE pc' = "do"
  <2>1. k' = k + 1 /\ k' < Len(human_referee)
    BY <1>4 DEF EndOfBody
  <2>2. HumansAhead' = HumansAhead - 1
    BY <1>1, <1>2, <2>1 DEF HumansAhead, InRange
  <2>. QED
    BY <1>2, <1>3, <1>4, <2>2 DEF StepsLeft
<1>5. CASE pc' = "judge"
  BY <1>2, <1>3, <1>5 DEF StepsLeft
<1>. QED
  BY <1>4, <1>5 DEF EndOfBody

(* A judgement moves on to the next autoref event.                         *)
LEMMA JudgementGetsOn ==
  ASSUME LoopInv, pc = "judge", EndOfIteration, k' \in {k, k + 1}
  PROVE  StepsLeft' < StepsLeft
<1>1. /\ Len(human_referee) \in Nat /\ Len(autoref) \in Nat
      /\ j \in 0..Len(autoref) /\ k \in Nat
  BY StepsLeftIsNat
<1>2. /\ Len(human_referee') = Len(human_referee)
      /\ AutorefsAhead' = AutorefsAhead - 1 /\ AutorefsAhead \in Nat
  BY <1>1 DEF EndOfIteration, AutorefsAhead
<1>3. HumansAhead' <= HumansAhead /\ HumansAhead \in Nat /\ HumansAhead' \in Int
  BY <1>1, <1>2 DEF HumansAhead, InRange
<1>. QED
  BY <1>2, <1>3 DEF EndOfIteration, StepsLeft

(* The pass takes no more steps than two, one for each human event and     *)
(* three for each autoref event, whatever the lists, the delay and the     *)
(* memory behind human_referee hold: what Termination rests on, for every  *)
(* value of the constants.                                                 *)
THEOREM MatchingGetsOn == Spec => LoopGetsOn
<1>1. LoopInv /\ [Next]_vars => [StepsLeft' < StepsLeft]_vars
  <2> SUFFICES ASSUME LoopInv, Next PROVE StepsLeft' < StepsLeft
    OBVIOUS
  <2>n. /\ Len(human_referee) \in Nat /\ Len(autoref) \in Nat
        /\ j \in 0..Len(autoref) /\ k \in Nat
        /\ HumansAhead \in Nat /\ AutorefsAhead \in Nat /\ StepsLeft \in Nat
    BY StepsLeftIsNat
  <2>h. ASSUME human_referee' = human_referee, autoref' = autoref, j' = j, k' = k
        PROVE  HumansAhead' = HumansAhead /\ AutorefsAhead' = AutorefsAhead
    BY <2>h DEF HumansAhead, AutorefsAhead, InRange
  <2>1. CASE NoHumanEvents
    BY <2>1, <2>n DEF NoHumanEvents, StepsLeft
  <2>2. CASE StartMatching
    <3>1. HumansAhead' = HumansAhead /\ AutorefsAhead' = AutorefsAhead
      BY <2>2, <2>h DEF StartMatching
    <3>. QED
      BY <2>2, <2>n, <3>1 DEF StartMatching, StepsLeft
  <2>3. CASE NextAutorefEvent
    <3>1. HumansAhead' = HumansAhead /\ AutorefsAhead' = AutorefsAhead
      BY <2>3, <2>h DEF NextAutorefEvent
    <3>. QED
      BY <2>3, <2>n, <3>1 DEF NextAutorefEvent, StepsLeft
  <2>4. CASE AutorefExhausted
    BY <2>4, <2>n DEF AutorefExhausted, StepsLeft
  <2>5. CASE Compare
    BY <2>5, BodyGetsOn
       DEF Compare, MissedHumanEvent, EarlyAutorefEvent, OverlappingEvents
  <2>6. CASE TruePositive \/ NoHumanEventsLeft \/ AlreadyJudged
    BY <2>6, JudgementGetsOn DEF TruePositive, NoHumanEventsLeft, AlreadyJudged
  <2>7. CASE ReadFaults
    <3>1. pc = "do" => AutorefsAhead >= 1
      BY <2>n DEF LoopInv, Control, AutorefsAhead
    <3>2. pc = "judge" => AutorefsAhead >= 1
      BY <2>n DEF LoopInv, Control, AutorefsAhead
    <3>. QED
      BY <2>7, <2>n, <3>1, <3>2 DEF ReadFaults, StepsLeft
  <2>. QED
    BY <2>1, <2>2, <2>3, <2>4, <2>5, <2>6, <2>7 DEF Next
<1>2. LoopInv => StepsLeft \in Nat
  BY StepsLeftIsNat
<1>3. [StepsLeft' < StepsLeft]_vars /\ StepsLeft \in Nat /\ (StepsLeft \in Nat)' =>
        [StepsLeft' < StepsLeft /\ {StepsLeft, StepsLeft'} \subseteq Nat]_vars
  OBVIOUS
<1>. QED
  BY <1>1, <1>2, <1>3, AlwaysLoopInv, PTL DEF Spec, LoopGetsOn
=============================================================================
