-------------------------- MODULE RefereeLogProofs --------------------------
(***************************************************************************)
(* Proofs about RefereeLog: the evaluator's four tables, what the loader   *)
(* keeps of a log and the event lists the indexer makes of it, for every   *)
(* number of referees and ports, every width of ports, counters and        *)
(* timestamps, and every log.                                              *)
(***************************************************************************)
EXTENDS RefereeLog, SequenceTheorems, TLAPS

USE DEF world, tables, index

Commands == Seq(RefereeCommand)
Events == Seq(RefereeEvent)

(* What holds before anything is loaded and before anything is indexed.    *)
Untouched ==
  /\ pc \in {"record", "exit"} => referee_commands = <<>> /\ referee_ports = <<>>
  /\ pc \in {"record", "load", "exit"} =>
       i = 0 /\ j = 0 /\ \A s \in DOMAIN referee_events : referee_events[s] = <<>>
  /\ pc \in {"record", "exit"} => referee_events = <<>>

(* SlotsAligned, and what each slot holds.                                 *)
SlotsInv == TypeOK /\ Untouched /\ SlotsAligned

LEMMA WorldTypes ==
  /\ PortModulus \in Nat \ {0} /\ CounterModulus \in Nat \ {0}
  /\ 0 \in Time
  /\ \A p \in Ports : Key(p) \in 0..(PortModulus - 1)
  /\ Key(RefboxPort) = RefboxPort
  /\ Unparsed \in RefereeCommand
<1>1. /\ PortModulus \in Nat \ {0} /\ CounterModulus \in Nat \ {0}
      /\ Ports \subseteq Nat /\ RefboxPort \in Nat /\ RefboxPort < PortModulus
      /\ TimeModulus \in Nat \ {0}
  BY PortsAssumption, TimeAssumption
<1>2. \A p \in Ports : Key(p) \in 0..(PortModulus - 1)
  BY <1>1 DEF Key
<1>3. Key(RefboxPort) = RefboxPort
  BY <1>1 DEF Key
<1>4. 0 \in Time /\ 0 \in Counter /\ "HALT" \in Command
  BY <1>1 DEF Time, Counter, Command
<1>5. Unparsed \in RefereeCommand
  BY <1>4 DEF Unparsed, RefereeCommand
<1>. QED
  BY <1>1, <1>2, <1>3, <1>4, <1>5

(* Properties of the lists' element types that every step needs.           *)
LEMMA ListTypes ==
  ASSUME TypeOK
  PROVE  /\ Len(log) \in Nat /\ pos \in Nat /\ i \in Nat /\ j \in Nat
         /\ Len(referee_commands) \in Nat /\ Len(referee_events) \in Nat
         /\ DOMAIN referee_commands = 1..Len(referee_commands)
         /\ DOMAIN referee_events = 1..Len(referee_events)
         /\ \A s \in 1..Len(referee_commands) : referee_commands[s] \in Commands
         /\ \A s \in 1..Len(referee_events) : referee_events[s] \in Events
         /\ pos < Len(log) => /\ Message \in LogRecord
                              /\ Message.data \in RefereeCommand
                              /\ Key(Message.port) \in 0..(PortModulus - 1)
<1>1. /\ log \in Seq(LogRecord) /\ referee_commands \in Seq(Commands)
      /\ referee_events \in Seq(Events)
  BY DEF TypeOK, Commands, Events
<1>2. /\ Len(log) \in Nat /\ pos \in 0..Len(log) /\ j \in Nat
      /\ Len(referee_commands) \in Nat /\ i \in 0..Len(referee_commands)
      /\ Len(referee_events) \in Nat
      /\ DOMAIN referee_commands = 1..Len(referee_commands)
      /\ DOMAIN referee_events = 1..Len(referee_events)
  BY <1>1 DEF TypeOK
<1>3. /\ \A s \in 1..Len(referee_commands) : referee_commands[s] \in Commands
      /\ \A s \in 1..Len(referee_events) : referee_events[s] \in Events
  BY <1>1, ElementOfSeq
<1>4. ASSUME pos < Len(log)
      PROVE  /\ Message \in LogRecord
             /\ Message.data \in RefereeCommand
             /\ Key(Message.port) \in 0..(PortModulus - 1)
  <2>1. pos + 1 \in 1..Len(log)
    BY <1>2, <1>4
  <2>2. Message \in LogRecord
    BY <2>1, <1>1, ElementOfSeq DEF Message
  <2>3. Message.port \in Ports /\ Message.data \in RefereeCommand
    BY <2>2 DEF LogRecord
  <2>. QED
    BY <2>2, <2>3, WorldTypes
<1>. QED
  BY <1>2, <1>3, <1>4

LEMMA InitSlotsInv == Init => SlotsInv
<1> SUFFICES ASSUME Init PROVE SlotsInv
  OBVIOUS
<1>1. /\ issued \in [Ports -> Commands] /\ counter \in [Ports -> Counter]
  BY EmptySeq, TimeAssumption DEF Init, Counter, Commands
<1>2. /\ log \in Seq(LogRecord) /\ referee_ports \in Seq(0..(PortModulus - 1))
      /\ referee_commands \in Seq(Commands) /\ referee_events \in Seq(Events)
  BY EmptySeq DEF Init
<1>3. /\ pos \in 0..Len(log) /\ i \in 0..Len(referee_commands) /\ j \in Nat
      /\ t_last_stop \in Time
  BY WorldTypes DEF Init
<1>4. /\ \A key \in DOMAIN referee_map : referee_map[key] \in Nat
      /\ pc \in {"record", "load", "index", "done", "exit"}
  BY DEF Init
<1>5. TypeOK
  BY <1>1, <1>2, <1>3, <1>4 DEF TypeOK, Commands, Events
<1>6. Untouched /\ SlotsAligned
  BY DEF Init, Untouched, SlotsAligned
<1>. QED
  BY <1>5, <1>6 DEF SlotsInv

(* The referees and the network change nothing that the evaluator has.     *)
LEMMA WorldStep ==
  ASSUME SlotsInv,
         \E p \in Ports : \/ IssueCommand(p) \/ RestartReferee(p)
                          \/ RecordCommand(p) \/ RecordOther(p)
  PROVE  TypeOK' /\ pc = "record" /\ UNCHANGED <<tables, index, pc>>
<1>1. PICK p \in Ports : \/ IssueCommand(p) \/ RestartReferee(p)
                         \/ RecordCommand(p) \/ RecordOther(p)
  OBVIOUS
<1>t. TypeOK /\ issued \in [Ports -> Commands] /\ counter \in [Ports -> Counter]
  BY DEF SlotsInv, TypeOK, Commands
<1>c. \A n \in Counter : (n + 1) % CounterModulus \in Counter /\ 0 \in Counter
  BY TimeAssumption DEF Counter
<1>2. CASE IssueCommand(p)
  <2>1. PICK c \in Kinds, t \in Time :
          issued' = [issued EXCEPT ![p] =
            Append(@, [command |-> c, command_counter |-> counter[p],
                       command_timestamp |-> t])]
    BY <1>2 DEF IssueCommand
  <2>2. [command |-> c, command_counter |-> counter[p], command_timestamp |-> t]
          \in RefereeCommand
    BY <1>t, PortsAssumption DEF RefereeCommand
  <2>3. issued[p] \in Commands
    BY <1>t
  <2>4. Append(issued[p], [command |-> c, command_counter |-> counter[p],
                           command_timestamp |-> t]) \in Commands
    BY <2>2, <2>3, AppendProperties DEF Commands
  <2>5. issued' \in [Ports -> Commands]
    BY <2>1, <2>4, <1>t
  <2>6. counter' \in [Ports -> Counter]
    BY <1>2, <1>t, <1>c DEF IssueCommand
  <2>. QED
    BY <2>5, <2>6, <1>2, <1>t DEF IssueCommand, TypeOK, Commands
<1>3. CASE RestartReferee(p)
  <2>1. counter' \in [Ports -> Counter]
    BY <1>3, <1>t, <1>c DEF RestartReferee
  <2>. QED
    BY <2>1, <1>3, <1>t DEF RestartReferee, TypeOK
<1>4. CASE RecordCommand(p) \/ RecordOther(p)
  <2>1. PICK address \in Address, data \in RefereeCommand : WriteRecord(address, p, data)
    <3>1. CASE RecordCommand(p)
      <4>1. PICK n \in DOMAIN issued[p] : WriteRecord("referee", p, issued[p][n])
        BY <3>1 DEF RecordCommand
      <4>2. issued[p] \in Commands
        BY <1>t
      <4>3. n \in 1..Len(issued[p])
        BY <4>2 DEF Commands
      <4>4. issued[p][n] \in RefereeCommand
        BY <4>2, <4>3, ElementOfSeq DEF Commands
      <4>. QED
        BY <4>1, <4>4 DEF Address
    <3>2. CASE RecordOther(p)
      BY <3>2, WorldTypes, PortsAssumption DEF RecordOther, Address
    <3>. QED
      BY <1>4, <3>1, <3>2
  <2> DEFINE r == [address |-> address, port |-> p, data |-> data]
  <2>2. r \in LogRecord
    BY DEF LogRecord
  <2>3. log' = Append(log, r) /\ log \in Seq(LogRecord)
    BY <2>1, <1>t DEF WriteRecord, TypeOK
  <2> HIDE DEF r
  <2>4. log' \in Seq(LogRecord) /\ Len(log') = Len(log) + 1 /\ Len(log) \in Nat
    BY <2>2, <2>3, AppendProperties
  <2>5. pos' \in 0..Len(log')
    BY <2>1, <2>4, <1>t DEF WriteRecord, TypeOK
  <2>. QED
    BY <2>1, <2>4, <2>5, <1>t DEF WriteRecord, TypeOK
<1>. QED
  BY <1>1, <1>2, <1>3, <1>4

LEMMA OpenLogSlots == SlotsInv /\ OpenLog => SlotsInv'
<1> SUFFICES ASSUME SlotsInv, OpenLog PROVE SlotsInv'
  OBVIOUS
<1>t. TypeOK
  BY DEF SlotsInv
<1>1. Key(RefboxPort) = RefboxPort /\ RefboxPort \in 0..(PortModulus - 1)
  BY WorldTypes, PortsAssumption
<1>2. /\ referee_map' = [key \in {RefboxPort} |-> 0]
      /\ referee_commands' = << <<>> >> /\ referee_events' = << <<>> >>
      /\ referee_ports' = <<RefboxPort>>
      /\ pc' = "load" /\ i = 0 /\ j = 0
      /\ UNCHANGED <<world, pos, i, j, t_last_stop>>
  BY <1>1 DEF OpenLog, SlotsInv, Untouched
<1>3. referee_commands' \in Seq(Commands) /\ referee_events' \in Seq(Events)
  BY <1>2, EmptySeq DEF Commands, Events
<1>4. referee_ports' \in Seq(0..(PortModulus - 1))
  BY <1>1, <1>2
<1>5. TypeOK'
  BY <1>2, <1>3, <1>4, <1>t DEF TypeOK, Commands, Events
<1>6. Untouched' /\ SlotsAligned'
  BY <1>2 DEF Untouched, SlotsAligned
<1>. QED
  BY <1>5, <1>6 DEF SlotsInv

(* The slot that the map gives for a key is the key's place in the list.   *)
LEMMA SlotFound ==
  ASSUME SlotsInv, pc = "load", NEW key \in DOMAIN referee_map
  PROVE  /\ referee_map[key] + 1 \in 1..Len(referee_commands)
         /\ referee_ports[referee_map[key] + 1] = key
<1>1. PICK s \in DOMAIN referee_ports : referee_ports[s] = key
  BY DEF SlotsInv, SlotsAligned
<1>2. DOMAIN referee_ports = 1..Len(referee_commands) /\ referee_map[key] = s - 1
  BY <1>1 DEF SlotsInv, SlotsAligned, TypeOK
<1>. QED
  BY <1>1, <1>2

LEMMA LoadKnownSlots == SlotsInv /\ LoadKnown => SlotsInv'
<1> SUFFICES ASSUME SlotsInv, LoadKnown PROVE SlotsInv'
  OBVIOUS
<1>t. TypeOK
  BY DEF SlotsInv
<1> DEFINE slot == Slot(Message.port)
<1>1. /\ pc = "load" /\ pos < Len(log) /\ pos' = pos + 1
      /\ UNCHANGED <<world, referee_map, referee_ports, index, pc>>
      /\ \/ referee_commands' = referee_commands
         \/ referee_commands' =
              [referee_commands EXCEPT ![slot] = Append(referee_commands[slot], Message.data)]
  BY DEF LoadKnown
<1>2. slot \in 1..Len(referee_commands)
  BY <1>1, SlotFound DEF LoadKnown, Slot
<1> HIDE DEF slot
<1>3. Append(referee_commands[slot], Message.data) \in Commands
  BY <1>1, <1>2, <1>t, ListTypes, AppendProperties DEF Commands
<1>4. referee_commands' \in Seq(Commands) /\ Len(referee_commands') = Len(referee_commands)
  <2> DEFINE longer == Append(referee_commands[slot], Message.data)
  <2>1. referee_commands \in Seq(Commands)
    BY <1>t DEF TypeOK, Commands
  <2>2. longer \in Commands
    BY <1>3
  <2>3. \/ referee_commands' = referee_commands
        \/ referee_commands' = [referee_commands EXCEPT ![slot] = longer]
    BY <1>1
  <2> HIDE DEF longer
  <2>4. /\ [referee_commands EXCEPT ![slot] = longer] \in Seq(Commands)
        /\ Len([referee_commands EXCEPT ![slot] = longer]) = Len(referee_commands)
    BY <2>1, <2>2, <1>2, ExceptSeq
  <2>. QED
    BY <2>1, <2>3, <2>4, Zenon
<1>5. TypeOK'
  BY <1>1, <1>4, <1>t, ListTypes DEF TypeOK, Commands
<1>6. Untouched' /\ SlotsAligned'
  BY <1>1, <1>4 DEF SlotsInv, Untouched, SlotsAligned
<1>. QED
  BY <1>5, <1>6 DEF SlotsInv

LEMMA LoadNewSlots == SlotsInv /\ LoadNew => SlotsInv'
<1> SUFFICES ASSUME SlotsInv, LoadNew PROVE SlotsInv'
  OBVIOUS
<1>t. TypeOK
  BY DEF SlotsInv
<1> DEFINE key == Key(Message.port)
           n == Len(referee_commands)
<1>1. /\ pc = "load" /\ pos < Len(log) /\ pos' = pos + 1
      /\ key \notin DOMAIN referee_map
      /\ referee_map' = [x \in DOMAIN referee_map \cup {key} |->
                           IF x = key THEN n ELSE referee_map[x]]
      /\ referee_ports' = Append(referee_ports, key)
      /\ referee_commands' = Append(referee_commands, <<Message.data>>)
      /\ referee_events' = Append(referee_events, <<>>)
      /\ UNCHANGED <<world, i, j, t_last_stop, pc>>
  BY DEF LoadNew, NewIndex
<1>2. key \in 0..(PortModulus - 1) /\ Message.data \in RefereeCommand
  BY <1>1, <1>t, ListTypes
<1> HIDE DEF key
<1>3. /\ referee_commands \in Seq(Commands) /\ referee_events \in Seq(Events)
      /\ referee_ports \in Seq(0..(PortModulus - 1))
      /\ <<Message.data>> \in Commands /\ <<>> \in Events
  BY <1>2, <1>t, EmptySeq DEF TypeOK, Commands, Events
<1>4. /\ n \in Nat /\ Len(referee_events) = n /\ Len(referee_ports) = n
      /\ n > 0
  BY <1>1, <1>3 DEF SlotsInv, SlotsAligned
<1>5. /\ referee_commands' \in Seq(Commands) /\ Len(referee_commands') = n + 1
      /\ referee_events' \in Seq(Events) /\ Len(referee_events') = n + 1
      /\ referee_ports' \in Seq(0..(PortModulus - 1)) /\ Len(referee_ports') = n + 1
      /\ \A s \in 1..n : /\ referee_events'[s] = referee_events[s]
                         /\ referee_ports'[s] = referee_ports[s]
      /\ referee_events'[n + 1] = <<>> /\ referee_ports'[n + 1] = key
  BY <1>1, <1>2, <1>3, <1>4, AppendProperties
<1>6. /\ DOMAIN referee_ports = 1..n /\ DOMAIN referee_ports' = 1..(n + 1)
      /\ DOMAIN referee_events = 1..n /\ DOMAIN referee_events' = 1..(n + 1)
      /\ DOMAIN referee_map' = DOMAIN referee_map \cup {key}
  BY <1>1, <1>3, <1>4, <1>5
<1>7. /\ \A x \in DOMAIN referee_map : referee_map'[x] = referee_map[x]
      /\ referee_map'[key] = n
  BY <1>1
<1> HIDE DEF n
<1>8. TypeOK'
  <2>1. \A x \in DOMAIN referee_map' : referee_map'[x] \in Nat
    BY <1>4, <1>6, <1>7, <1>t DEF TypeOK
  <2>2. pos' \in 0..Len(log') /\ i' \in 0..Len(referee_commands')
    <3>1. i \in 0..n /\ Len(log) \in Nat /\ pos \in Nat
      BY <1>t, ListTypes DEF TypeOK, n
    <3>. QED
      BY <3>1, <1>1, <1>4, <1>5
  <2>. QED
    BY <2>1, <2>2, <1>1, <1>5, <1>t DEF TypeOK, Commands, Events
<1>9. SlotsAligned'
  <2>1. /\ DOMAIN referee_map = { referee_ports[s] : s \in 1..n }
        /\ \A s \in 1..n : referee_map[referee_ports[s]] = s - 1
        /\ referee_ports[1] = RefboxPort
    BY <1>1, <1>6 DEF SlotsInv, SlotsAligned
  <2>2. DOMAIN referee_map' = { referee_ports'[s] : s \in 1..(n + 1) }
    <3>1. { referee_ports'[s] : s \in 1..(n + 1) }
            = { referee_ports[s] : s \in 1..n } \cup {key}
      BY <1>4, <1>5
    <3>. QED
      BY <3>1, <2>1, <1>6
  <2>3. \A s \in 1..(n + 1) : referee_map'[referee_ports'[s]] = s - 1
    <3>1. \A s \in 1..n : referee_ports[s] \in DOMAIN referee_map
      BY <2>1
    <3>2. \A s \in 1..n : referee_map'[referee_ports'[s]] = s - 1
      BY <3>1, <2>1, <1>5, <1>7
    <3>3. referee_map'[referee_ports'[n + 1]] = (n + 1) - 1
      BY <1>4, <1>5, <1>7
    <3>. QED
      BY <3>2, <3>3, <1>4
  <2>4. referee_ports' # <<>> /\ referee_ports'[1] = RefboxPort
    BY <2>1, <1>4, <1>5
  <2>. QED
    BY <2>2, <2>3, <2>4, <1>5, <1>6 DEF SlotsAligned
<1>10. Untouched'
  BY <1>1, <1>4, <1>5, <1>6 DEF SlotsInv, Untouched
<1>. QED
  BY <1>8, <1>9, <1>10 DEF SlotsInv

(* Both indexing steps, with the event that the first of them makes.       *)
LEMMA IndexTypes ==
  ASSUME SlotsInv, Indexing
  PROVE  /\ i + 1 \in 1..Len(referee_commands) /\ i + 1 \in 1..Len(referee_events)
         /\ j + 1 \in 1..Len(referee_commands[i + 1])
         /\ IndexedCommand \in RefereeCommand
         /\ StopAfter(IndexedCommand) \in Time
<1>t. TypeOK
  BY DEF SlotsInv
<1>1. i + 1 \in 1..Len(referee_commands) /\ i + 1 \in 1..Len(referee_events)
  BY <1>t, ListTypes DEF Indexing, SlotsInv, SlotsAligned
<1>2. referee_commands[i + 1] \in Commands
  BY <1>1, <1>t, ListTypes
<1>3. j + 1 \in 1..Len(referee_commands[i + 1])
  BY <1>2, <1>t DEF Indexing, TypeOK, Commands
<1>4. IndexedCommand \in RefereeCommand
  BY <1>2, <1>3, ElementOfSeq DEF IndexedCommand, Commands
<1>5. StopAfter(IndexedCommand) \in Time
  BY <1>4, <1>t, WorldTypes DEF StopAfter, RefereeCommand, TypeOK
<1>. QED
  BY <1>1, <1>3, <1>4, <1>5

NewEvent ==
  [stop_timestamp    |-> t_last_stop,
   command_timestamp |-> IndexedCommand.command_timestamp,
   command_counter   |-> IndexedCommand.command_counter,
   command           |-> IndexedCommand.command]

LEMMA IndexEventSlots ==
  ASSUME SlotsInv, IndexEvent \/ IndexOther
  PROVE  SlotsInv'
<1>t. TypeOK
  BY DEF SlotsInv
<1>1. /\ pc = "index" /\ j' = j + 1 /\ t_last_stop' = StopAfter(IndexedCommand)
      /\ UNCHANGED <<world, pos, tables, i, pc>>
      /\ Indexing
  BY DEF IndexEvent, IndexOther, NextCommand, Indexing
<1>2. /\ i + 1 \in 1..Len(referee_events) /\ IndexedCommand \in RefereeCommand
      /\ StopAfter(IndexedCommand) \in Time
  BY <1>1, IndexTypes
<1>3. NewEvent \in RefereeEvent
  BY <1>2, <1>t DEF NewEvent, RefereeEvent, RefereeCommand, TypeOK
<1>4. \/ referee_events' = referee_events
      \/ referee_events' =
           [referee_events EXCEPT ![i + 1] = Append(referee_events[i + 1], NewEvent)]
  BY DEF IndexEvent, IndexOther, NewEvent
<1>5. Append(referee_events[i + 1], NewEvent) \in Events
  BY <1>2, <1>3, <1>t, ListTypes, AppendProperties DEF Events
<1>6. referee_events' \in Seq(Events) /\ Len(referee_events') = Len(referee_events)
  <2> DEFINE longer == Append(referee_events[i + 1], NewEvent)
  <2>1. referee_events \in Seq(Events)
    BY <1>t DEF TypeOK, Events
  <2>2. longer \in Events
    BY <1>5
  <2>3. \/ referee_events' = referee_events
        \/ referee_events' = [referee_events EXCEPT ![i + 1] = longer]
    BY <1>4
  <2> HIDE DEF longer
  <2>4. /\ [referee_events EXCEPT ![i + 1] = longer] \in Seq(Events)
        /\ Len([referee_events EXCEPT ![i + 1] = longer]) = Len(referee_events)
    BY <2>1, <2>2, <1>2, ExceptSeq
  <2>. QED
    BY <2>1, <2>3, <2>4, Zenon
<1>7. TypeOK'
  BY <1>1, <1>2, <1>6, <1>t DEF TypeOK, Events
<1>. QED
  BY <1>1, <1>6, <1>7 DEF SlotsInv, Untouched, SlotsAligned

LEMMA StepSlotsInv == SlotsInv /\ [Next]_vars => SlotsInv'
<1> SUFFICES ASSUME SlotsInv, [Next]_vars PROVE SlotsInv'
  OBVIOUS
<1>t. TypeOK
  BY DEF SlotsInv
<1>1. CASE \E p \in Ports : \/ IssueCommand(p) \/ RestartReferee(p)
                            \/ RecordCommand(p) \/ RecordOther(p)
  BY <1>1, WorldStep DEF SlotsInv, Untouched, SlotsAligned
<1>2. CASE OpenFails
  BY <1>2, <1>t DEF OpenFails, SlotsInv, TypeOK, Untouched, SlotsAligned
<1>3. CASE OpenLog
  BY <1>3, OpenLogSlots
<1>4. CASE LoadKnown
  BY <1>4, LoadKnownSlots
<1>5. CASE LoadNew
  BY <1>5, LoadNewSlots
<1>6. CASE SkipRecord
  <2>1. pos' \in 0..Len(log')
    BY <1>6, <1>t, ListTypes DEF SkipRecord
  <2>2. TypeOK'
    BY <2>1, <1>6, <1>t DEF SkipRecord, TypeOK
  <2>. QED
    BY <2>2, <1>6 DEF SkipRecord, SlotsInv, Untouched, SlotsAligned
<1>7. CASE EndOfLog
  BY <1>7, <1>t DEF EndOfLog, SlotsInv, TypeOK, Untouched, SlotsAligned
<1>8. CASE IndexEvent \/ IndexOther
  BY <1>8, IndexEventSlots
<1>9. CASE NextReferee
  <2>1. i' \in 0..Len(referee_commands') /\ t_last_stop' \in Time /\ j' \in Nat
    BY <1>9, <1>t, ListTypes, WorldTypes DEF NextReferee, TypeOK
  <2>. QED
    BY <2>1, <1>9, <1>t DEF NextReferee, SlotsInv, TypeOK, Untouched, SlotsAligned
<1>10. CASE IndexDone
  BY <1>10, <1>t DEF IndexDone, SlotsInv, TypeOK, Untouched, SlotsAligned
<1>11. CASE UNCHANGED vars
  BY <1>11, <1>t DEF vars, SlotsInv, TypeOK, Untouched, SlotsAligned
<1>. QED
  BY <1>1, <1>2, <1>3, <1>4, <1>5, <1>6, <1>7, <1>8, <1>9, <1>10, <1>11 DEF Next

LEMMA AlwaysSlotsInv == Spec => []SlotsInv
BY InitSlotsInv, StepSlotsInv, PTL DEF Spec

(* The lists, the map and all indexes into them keep their types.          *)
THEOREM RefereeLogTypeOK == Spec => []TypeOK
<1>1. SlotsInv => TypeOK
  BY DEF SlotsInv
<1>. QED
  BY <1>1, AlwaysSlotsInv, PTL

(* For every set of ports and every log, ports, commands and events stay   *)
(* indexed alike, the map inverts the list of ports, and the refbox is     *)
(* first.                                                                  *)
THEOREM SlotsStayAligned == Spec => []SlotsAligned
<1>1. SlotsInv => SlotsAligned
  BY DEF SlotsInv
<1>. QED
  BY <1>1, AlwaysSlotsInv, PTL
-----------------------------------------------------------------------------
(* What the loader keeps.  Kept says of one referee's list what the        *)
(* loader's comparison with the list's last command comes to; the lemmas   *)
(* about it are about one record of any log, the invariant lifts them to   *)
(* all slots.                                                              *)

(* Heard and Newer of a given log and position.                            *)
HeardIn(l, p, key) ==
  { n \in 1..p : l[n].address = "referee" /\ Key(l[n].port) = key }

NewerIn(l, p, key) ==
  { n \in HeardIn(l, p, key) : \A m \in HeardIn(l, p, key) :
      m < n => l[m].data.command_counter < l[n].data.command_counter }

Elements(s) == { s[n] : n \in DOMAIN s }

(* The list of the referee with this key after p records of the log l: it  *)
(* holds the newer commands, and its last one bounds all that were heard.  *)
Kept(referee, l, p, key) ==
  /\ CountersIncrease(referee)
  /\ Elements(referee) = { l[n].data : n \in NewerIn(l, p, key) }
  /\ referee = <<>> => HeardIn(l, p, key) = {}
  /\ \A m \in HeardIn(l, p, key) :
       l[m].data.command_counter <= referee[Len(referee)].command_counter

LEMMA CommandCounter ==
  /\ \A c \in RefereeCommand : c.command_counter \in Nat
  /\ \A l \in Seq(LogRecord) : \A n \in 1..Len(l) : l[n].data \in RefereeCommand
<1>1. \A c \in RefereeCommand : c.command_counter \in Nat
  BY TimeAssumption DEF RefereeCommand, Counter
<1>2. ASSUME NEW l \in Seq(LogRecord), NEW n \in 1..Len(l)
      PROVE  l[n].data \in RefereeCommand
  <2>1. l[n] \in LogRecord
    BY <1>2, ElementOfSeq
  <2>. QED
    BY <2>1 DEF LogRecord
<1>. QED
  BY <1>1, <1>2

(* A record of another referee, or of none.                                *)
LEMMA KeptOther ==
  ASSUME NEW l \in Seq(LogRecord), NEW p \in Nat, p < Len(l),
         NEW key, NEW referee,
         ~(l[p + 1].address = "referee" /\ Key(l[p + 1].port) = key),
         Kept(referee, l, p, key)
  PROVE  Kept(referee, l, p + 1, key)
<1>1. HeardIn(l, p + 1, key) = HeardIn(l, p, key)
  BY DEF HeardIn
<1>2. NewerIn(l, p + 1, key) = NewerIn(l, p, key)
  BY <1>1 DEF NewerIn
<1>. QED
  BY <1>1, <1>2 DEF Kept

(* A record of the referee: what is heard grows by it.                     *)
LEMMA HeardGrows ==
  ASSUME NEW l \in Seq(LogRecord), NEW p \in Nat, p < Len(l), NEW key,
         l[p + 1].address = "referee", Key(l[p + 1].port) = key
  PROVE  /\ HeardIn(l, p + 1, key) = HeardIn(l, p, key) \cup {p + 1}
         /\ \A m \in HeardIn(l, p, key) : m \in 1..p
         /\ \A n \in NewerIn(l, p + 1, key) : n # p + 1 => n \in NewerIn(l, p, key)
         /\ NewerIn(l, p, key) \subseteq NewerIn(l, p + 1, key)
         /\ p + 1 \in NewerIn(l, p + 1, key) <=>
              \A m \in HeardIn(l, p, key) :
                l[m].data.command_counter < l[p + 1].data.command_counter
<1>1. HeardIn(l, p + 1, key) = HeardIn(l, p, key) \cup {p + 1}
  BY DEF HeardIn
<1>2. \A m \in HeardIn(l, p, key) : m \in 1..p /\ m # p + 1 /\ m < p + 1 /\ ~(p + 1 < m)
  BY DEF HeardIn
<1>3. \A n \in NewerIn(l, p + 1, key) : n # p + 1 => n \in NewerIn(l, p, key)
  BY <1>1 DEF NewerIn
<1>4. NewerIn(l, p, key) \subseteq NewerIn(l, p + 1, key)
  BY <1>1, <1>2 DEF NewerIn
<1>5. p + 1 \in NewerIn(l, p + 1, key) <=>
        \A m \in HeardIn(l, p, key) :
          l[m].data.command_counter < l[p + 1].data.command_counter
  BY <1>1, <1>2 DEF NewerIn
<1>. QED
  BY <1>1, <1>2, <1>3, <1>4, <1>5

(* A record that is not newer than the last command kept is not newer than *)
(* all that was heard either.                                              *)
LEMMA KeptOlder ==
  ASSUME NEW l \in Seq(LogRecord), NEW p \in Nat, p < Len(l),
         NEW key, NEW referee \in Commands,
         l[p + 1].address = "referee", Key(l[p + 1].port) = key,
         ~IsNewer(referee, l[p + 1].data),
         Kept(referee, l, p, key)
  PROVE  Kept(referee, l, p + 1, key)
<1> DEFINE c == l[p + 1].data
           last == referee[Len(referee)]
<1>1. /\ Len(referee) \in Nat /\ Len(referee) \in 1..Len(referee)
      /\ DOMAIN referee = 1..Len(referee)
      /\ last \in RefereeCommand
      /\ ~(last.command_counter < c.command_counter)
      /\ referee # <<>>
  <2>1. referee # <<>> /\ ~(last.command_counter < c.command_counter)
    BY DEF IsNewer
  <2>2. Len(referee) \in 1..Len(referee)
    BY <2>1 DEF Commands
  <2>3. last \in RefereeCommand
    BY <2>2, ElementOfSeq DEF Commands
  <2>. QED
    BY <2>1, <2>2, <2>3 DEF Commands
<1>2. c \in RefereeCommand /\ c.command_counter \in Nat /\ last.command_counter \in Nat
  BY <1>1, CommandCounter
<1>3. c.command_counter <= last.command_counter
  BY <1>1, <1>2
<1>4. PICK n \in NewerIn(l, p, key) : l[n].data = last
  <2>1. last \in Elements(referee)
    BY <1>1 DEF Elements
  <2>. QED
    BY <2>1 DEF Kept
<1>5. n \in HeardIn(l, p, key)
  BY <1>4 DEF NewerIn
<1>6. p + 1 \notin NewerIn(l, p + 1, key)
  BY <1>1, <1>4, <1>5, HeardGrows
<1>7. NewerIn(l, p + 1, key) = NewerIn(l, p, key)
  <2>1. /\ \A x \in NewerIn(l, p + 1, key) : x # p + 1 => x \in NewerIn(l, p, key)
        /\ NewerIn(l, p, key) \subseteq NewerIn(l, p + 1, key)
    BY HeardGrows
  <2>. QED
    BY <1>6, <2>1
<1>8. \A m \in HeardIn(l, p + 1, key) :
        l[m].data.command_counter <= last.command_counter
  <2>1. HeardIn(l, p + 1, key) = HeardIn(l, p, key) \cup {p + 1}
    BY HeardGrows
  <2>2. \A m \in HeardIn(l, p, key) :
          l[m].data.command_counter <= last.command_counter
    BY DEF Kept
  <2>. QED
    BY <1>3, <2>1, <2>2
<1>. QED
  BY <1>1, <1>7, <1>8 DEF Kept

(* A record that is newer than the last command kept is newer than all     *)
(* that was heard.                                                         *)
LEMMA KeptNewer ==
  ASSUME NEW l \in Seq(LogRecord), NEW p \in Nat, p < Len(l),
         NEW key, NEW referee \in Commands,
         l[p + 1].address = "referee", Key(l[p + 1].port) = key,
         IsNewer(referee, l[p + 1].data),
         Kept(referee, l, p, key)
  PROVE  Kept(Append(referee, l[p + 1].data), l, p + 1, key)
<1> DEFINE c == l[p + 1].data
           last == referee[Len(referee)]
           n == Len(referee)
           longer == Append(referee, c)
<1>1. c \in RefereeCommand /\ c.command_counter \in Nat
  BY CommandCounter
<1>2. /\ n \in Nat /\ Len(longer) = n + 1
      /\ DOMAIN referee = 1..n /\ DOMAIN longer = 1..(n + 1)
      /\ \A x \in 1..n : longer[x] = referee[x]
      /\ longer[n + 1] = c /\ longer # <<>>
  BY <1>1, AppendProperties DEF Commands
<1>3. \A x \in 1..n : referee[x].command_counter \in Nat
  BY CommandCounter, ElementOfSeq DEF Commands
<1>4. \A x \in 1..n : referee[x].command_counter < c.command_counter
  <2>1. CASE referee = <<>>
    BY <2>1, <1>2
  <2>2. CASE referee # <<>>
    <3>1. n \in 1..n /\ last.command_counter < c.command_counter
      BY <2>2, <1>2 DEF IsNewer, Commands
    <3>2. \A x \in 1..n : x < n => referee[x].command_counter < last.command_counter
      BY <3>1, <1>2 DEF Kept, CountersIncrease
    <3>. QED
      BY <3>1, <3>2, <1>1, <1>3
  <2>. QED
    BY <2>1, <2>2
<1>5. \A m \in HeardIn(l, p, key) : l[m].data.command_counter < c.command_counter
  <2>1. CASE referee = <<>>
    BY <2>1 DEF Kept
  <2>2. CASE referee # <<>>
    <3>1. n \in 1..n /\ last.command_counter < c.command_counter
      BY <2>2, <1>2 DEF IsNewer, Commands
    <3>2. \A m \in HeardIn(l, p, key) :
            /\ l[m].data.command_counter \in Nat
            /\ l[m].data.command_counter <= last.command_counter
      BY CommandCounter DEF Kept, HeardIn
    <3>. QED
      BY <3>1, <3>2, <1>1, <1>3
  <2>. QED
    BY <2>1, <2>2
<1>6. /\ HeardIn(l, p + 1, key) = HeardIn(l, p, key) \cup {p + 1}
      /\ NewerIn(l, p + 1, key) = NewerIn(l, p, key) \cup {p + 1}
  <2>1. /\ HeardIn(l, p + 1, key) = HeardIn(l, p, key) \cup {p + 1}
        /\ \A x \in NewerIn(l, p + 1, key) : x # p + 1 => x \in NewerIn(l, p, key)
        /\ NewerIn(l, p, key) \subseteq NewerIn(l, p + 1, key)
    BY HeardGrows
  <2>2. p + 1 \in NewerIn(l, p + 1, key)
    BY <1>5, HeardGrows
  <2>. QED
    BY <2>1, <2>2
<1> HIDE DEF longer, n, last, c
<1>7. CountersIncrease(longer)
  <2> SUFFICES ASSUME NEW x \in 1..(n + 1), NEW y \in 1..(n + 1), x < y
               PROVE  longer[x].command_counter < longer[y].command_counter
    BY <1>2 DEF CountersIncrease
  <2>1. x \in 1..n
    BY <1>2
  <2>2. CASE y = n + 1
    BY <2>1, <2>2, <1>2, <1>4
  <2>3. CASE y # n + 1
    <3>1. y \in 1..n
      BY <2>3, <1>2
    <3>. QED
      BY <2>1, <3>1, <1>2 DEF Kept, CountersIncrease
  <2>. QED
    BY <2>2, <2>3
<1>8. Elements(longer) = { l[x].data : x \in NewerIn(l, p + 1, key) }
  <2>1. Elements(longer) = Elements(referee) \cup {c}
    BY <1>2 DEF Elements
  <2>2. Elements(referee) = { l[x].data : x \in NewerIn(l, p, key) }
    BY DEF Kept
  <2>3. l[p + 1].data = c
    BY DEF c
  <2>. QED
    BY <2>1, <2>2, <2>3, <1>6
<1>9. \A m \in HeardIn(l, p + 1, key) :
        l[m].data.command_counter <= longer[Len(longer)].command_counter
  <2>1. longer[Len(longer)] = c /\ l[p + 1].data = c
    BY <1>2 DEF c
  <2>2. \A m \in HeardIn(l, p, key) : l[m].data.command_counter \in Nat
    BY CommandCounter DEF HeardIn
  <2>. QED
    BY <2>1, <2>2, <1>1, <1>5, <1>6
<1>10. Kept(longer, l, p + 1, key)
  BY <1>2, <1>7, <1>8, <1>9 DEF Kept
<1>. QED
  BY <1>10 DEF longer, c

-----------------------------------------------------------------------------
(* The invariant of the loader: every record read found or made its slot,  *)
(* and every slot is Kept.                                                 *)
KeptInv ==
  /\ pc \in {"record", "exit"} => pos = 0
  /\ pc \in {"load", "index", "done"} =>
       /\ \A n \in 1..pos :
            log[n].address = "referee" => Key(log[n].port) \in DOMAIN referee_map
       /\ \A s \in 1..Len(referee_commands) :
            Kept(referee_commands[s], log, pos, referee_ports[s])

LEMMA OpenLogKept == SlotsInv /\ KeptInv /\ OpenLog => KeptInv'
<1> SUFFICES ASSUME SlotsInv, KeptInv, OpenLog PROVE KeptInv'
  OBVIOUS
<1>1. /\ referee_commands' = << <<>> >> /\ pos = 0 /\ pos' = 0 /\ pc' = "load"
      /\ log' = log
  BY DEF OpenLog, KeptInv
<1>2. \A key : HeardIn(log, 0, key) = {} /\ NewerIn(log, 0, key) = {}
  BY DEF HeardIn, NewerIn
<1>3. \A key : Kept(<<>>, log, 0, key)
  BY <1>2 DEF Kept, CountersIncrease, Elements
<1>4. \A s \in 1..Len(referee_commands') : referee_commands'[s] = <<>>
  BY <1>1
<1>. QED
  BY <1>1, <1>3, <1>4 DEF KeptInv

(* The record at hand is in the log and its data is a command.             *)
LEMMA AtHand ==
  ASSUME SlotsInv, KeptInv, pc = "load", pos < Len(log)
  PROVE  /\ log \in Seq(LogRecord) /\ pos \in Nat
         /\ Message = log[pos + 1] /\ Message.data \in RefereeCommand
         /\ Len(referee_commands) \in Nat
         /\ Len(referee_ports) = Len(referee_commands)
         /\ \A s \in 1..Len(referee_commands) : referee_commands[s] \in Commands
         /\ \A s \in 1..Len(referee_ports) : referee_ports[s] \in DOMAIN referee_map
         /\ \A s \in 1..Len(referee_ports) : referee_map[referee_ports[s]] = s - 1
<1>t. TypeOK
  BY DEF SlotsInv
<1>1. /\ log \in Seq(LogRecord) /\ pos \in Nat
      /\ Message.data \in RefereeCommand /\ Message = log[pos + 1]
      /\ Len(referee_commands) \in Nat
      /\ \A s \in 1..Len(referee_commands) : referee_commands[s] \in Commands
  BY <1>t, ListTypes DEF TypeOK, Message
<1>2. /\ Len(referee_ports) = Len(referee_commands)
      /\ DOMAIN referee_ports = 1..Len(referee_ports)
      /\ \A s \in DOMAIN referee_ports : referee_ports[s] \in DOMAIN referee_map
      /\ \A s \in DOMAIN referee_ports : referee_map[referee_ports[s]] = s - 1
  BY <1>t DEF SlotsInv, SlotsAligned, TypeOK
<1>. QED
  BY <1>1, <1>2

LEMMA LoadKnownKept == SlotsInv /\ KeptInv /\ LoadKnown => KeptInv'
<1> SUFFICES ASSUME SlotsInv, KeptInv, LoadKnown PROVE KeptInv'
  OBVIOUS
<1> DEFINE slot == Slot(Message.port)
           key == Key(Message.port)
           c == Message.data
           n == Len(referee_commands)
<1>1. /\ pc = "load" /\ pos < Len(log) /\ pos' = pos + 1 /\ pc' = "load"
      /\ Message.address = "referee" /\ key \in DOMAIN referee_map
      /\ UNCHANGED <<log, referee_map, referee_ports>>
      /\ referee_commands' =
           IF IsNewer(referee_commands[slot], c)
             THEN [referee_commands EXCEPT ![slot] = Append(referee_commands[slot], c)]
             ELSE referee_commands
  BY DEF LoadKnown
<1>2. /\ log \in Seq(LogRecord) /\ pos \in Nat /\ n \in Nat
      /\ Message = log[pos + 1] /\ c \in RefereeCommand
      /\ \A s \in 1..n : referee_commands[s] \in Commands
      /\ \A s \in 1..n : referee_map[referee_ports[s]] = s - 1
  BY <1>1, AtHand
<1>3. slot \in 1..n /\ referee_ports[slot] = key
  BY <1>1, SlotFound DEF Slot
<1>4. \A s \in 1..n : s # slot => referee_ports[s] # key
  BY <1>2, <1>3
<1>5. \A s \in 1..n : Kept(referee_commands[s], log, pos, referee_ports[s])
  BY <1>1 DEF KeptInv
<1>6. DOMAIN referee_commands = 1..n
  BY DEF SlotsInv, TypeOK
<1>7. Len(referee_commands') = n /\ \A s \in 1..n : s # slot =>
        referee_commands'[s] = referee_commands[s]
  <2>1. DOMAIN referee_commands' = 1..n /\ referee_commands' \in Seq(Commands)
    BY <1>1, <1>6, LoadKnownSlots DEF SlotsInv, TypeOK, Commands
  <2>2. Len(referee_commands') = n
    BY <2>1, <1>2
  <2>. QED
    BY <1>1, <1>6, <2>2
<1>8. Kept(referee_commands'[slot], log, pos + 1, key)
  <2> DEFINE referee == referee_commands[slot]
  <2>1. referee \in Commands /\ Kept(referee, log, pos, key)
    BY <1>2, <1>3, <1>5
  <2>2. log[pos + 1].address = "referee" /\ Key(log[pos + 1].port) = key
        /\ log[pos + 1].data = c
    BY <1>1, <1>2
  <2>3. CASE IsNewer(referee, c)
    <3>1. referee_commands'[slot] = Append(referee, c)
      BY <1>1, <1>3, <1>6, <2>3
    <3>2. Kept(Append(referee, log[pos + 1].data), log, pos + 1, key)
      <4> HIDE DEF referee, key, c
      <4>. QED
        BY <1>1, <1>2, <2>1, <2>2, <2>3, KeptNewer
    <3>. QED
      BY <3>1, <3>2, <2>2
  <2>4. CASE ~IsNewer(referee, c)
    <3>1. referee_commands'[slot] = referee
      BY <1>1, <2>4
    <3>2. Kept(referee, log, pos + 1, key)
      <4> HIDE DEF referee, key, c
      <4>. QED
        BY <1>1, <1>2, <2>1, <2>2, <2>4, KeptOlder
    <3>. QED
      BY <3>1, <3>2
  <2>. QED
    BY <2>3, <2>4
<1>9. \A s \in 1..n : s # slot =>
        Kept(referee_commands[s], log, pos + 1, referee_ports[s])
  BY <1>1, <1>2, <1>4, <1>5, KeptOther
<1>10. \A s \in 1..n : Kept(referee_commands'[s], log, pos + 1, referee_ports[s])
  BY <1>3, <1>7, <1>8, <1>9
<1>11. \A m \in 1..(pos + 1) :
         log[m].address = "referee" => Key(log[m].port) \in DOMAIN referee_map
  BY <1>1, <1>2 DEF KeptInv
<1>. QED
  BY <1>1, <1>7, <1>10, <1>11 DEF KeptInv

LEMMA LoadNewKept == SlotsInv /\ KeptInv /\ LoadNew => KeptInv'
<1> SUFFICES ASSUME SlotsInv, KeptInv, LoadNew PROVE KeptInv'
  OBVIOUS
<1> DEFINE key == Key(Message.port)
           c == Message.data
           n == Len(referee_commands)
<1>1. /\ pc = "load" /\ pos < Len(log) /\ pos' = pos + 1 /\ pc' = "load"
      /\ Message.address = "referee" /\ key \notin DOMAIN referee_map
      /\ log' = log /\ DOMAIN referee_map' = DOMAIN referee_map \cup {key}
      /\ referee_ports' = Append(referee_ports, key)
      /\ referee_commands' = Append(referee_commands, <<c>>)
  BY DEF LoadNew
<1>2. /\ log \in Seq(LogRecord) /\ pos \in Nat /\ n \in Nat
      /\ Message = log[pos + 1] /\ c \in RefereeCommand
      /\ Len(referee_ports) = n
      /\ \A s \in 1..n : referee_ports[s] \in DOMAIN referee_map
  BY <1>1, AtHand
<1>3. /\ \A m \in 1..pos :
           log[m].address = "referee" => Key(log[m].port) \in DOMAIN referee_map
      /\ \A s \in 1..n : Kept(referee_commands[s], log, pos, referee_ports[s])
  BY <1>1 DEF KeptInv
<1>4. /\ Len(referee_commands') = n + 1 /\ referee_commands'[n + 1] = <<c>>
      /\ referee_ports'[n + 1] = key
      /\ \A s \in 1..n : /\ referee_commands'[s] = referee_commands[s]
                         /\ referee_ports'[s] = referee_ports[s]
  <2>1. /\ referee_commands \in Seq(Commands) /\ <<c>> \in Commands
        /\ referee_ports \in Seq(0..(PortModulus - 1))
    BY <1>2 DEF SlotsInv, TypeOK, Commands
  <2>2. key \in 0..(PortModulus - 1)
    BY <1>1, ListTypes DEF SlotsInv
  <2> HIDE DEF key, c
  <2>. QED
    BY <2>1, <2>2, <1>1, <1>2, AppendProperties
<1>5. \A s \in 1..n :
        Kept(referee_commands'[s], log, pos + 1, referee_ports'[s])
  <2>1. \A s \in 1..n : referee_ports[s] # key
    BY <1>1, <1>2
  <2>2. \A s \in 1..n : Kept(referee_commands[s], log, pos + 1, referee_ports[s])
    BY <2>1, <1>1, <1>2, <1>3, KeptOther
  <2>. QED
    BY <2>2, <1>4
<1>6. Kept(referee_commands'[n + 1], log, pos + 1, referee_ports'[n + 1])
  <2>1. HeardIn(log, pos, key) = {} /\ NewerIn(log, pos, key) = {}
    BY <1>1, <1>3 DEF HeardIn, NewerIn
  <2>2. Kept(<<>>, log, pos, key)
    BY <2>1 DEF Kept, CountersIncrease, Elements
  <2>3. <<>> \in Commands /\ IsNewer(<<>>, c)
    BY DEF Commands, IsNewer
  <2>4. log[pos + 1].address = "referee" /\ Key(log[pos + 1].port) = key
        /\ log[pos + 1].data = c
    BY <1>1, <1>2
  <2>5. Kept(Append(<<>>, log[pos + 1].data), log, pos + 1, key)
    <3> HIDE DEF key, c
    <3>. QED
      BY <2>2, <2>3, <2>4, <1>1, <1>2, KeptNewer
  <2>6. Append(<<>>, c) = <<c>>
    OBVIOUS
  <2>. QED
    BY <2>4, <2>5, <2>6, <1>4
<1>7. \A s \in 1..(n + 1) :
        Kept(referee_commands'[s], log, pos + 1, referee_ports'[s])
  <2>1. \A s \in 1..(n + 1) : s \in 1..n \/ s = n + 1
    BY <1>2
  <2>. QED
    BY <2>1, <1>5, <1>6
<1>8. \A m \in 1..(pos + 1) :
        log[m].address = "referee" => Key(log[m].port) \in DOMAIN referee_map'
  BY <1>1, <1>2, <1>3
<1>. QED
  BY <1>1, <1>4, <1>7, <1>8 DEF KeptInv

LEMMA SkipKept == SlotsInv /\ KeptInv /\ SkipRecord => KeptInv'
<1> SUFFICES ASSUME SlotsInv, KeptInv, SkipRecord PROVE KeptInv'
  OBVIOUS
<1>1. /\ pc = "load" /\ pos < Len(log) /\ pos' = pos + 1
      /\ Message.address # "referee"
      /\ UNCHANGED <<log, referee_map, referee_ports, referee_commands, pc>>
  BY DEF SkipRecord
<1>2. log \in Seq(LogRecord) /\ pos \in Nat /\ Message = log[pos + 1]
  BY <1>1, AtHand
<1>3. \A s \in 1..Len(referee_commands) :
        Kept(referee_commands[s], log, pos + 1, referee_ports[s])
  BY <1>1, <1>2, KeptOther DEF KeptInv
<1>4. \A m \in 1..(pos + 1) :
        log[m].address = "referee" => Key(log[m].port) \in DOMAIN referee_map
  BY <1>1, <1>2 DEF KeptInv
<1>. QED
  BY <1>1, <1>3, <1>4 DEF KeptInv

LEMMA StepKeptInv == SlotsInv /\ KeptInv /\ [Next]_vars => KeptInv'
<1> SUFFICES ASSUME SlotsInv, KeptInv, [Next]_vars PROVE KeptInv'
  OBVIOUS
<1>1. CASE \E p \in Ports : \/ IssueCommand(p) \/ RestartReferee(p)
                            \/ RecordCommand(p) \/ RecordOther(p)
  <2>1. pc = "record" /\ pc' = "record" /\ pos' = pos
    BY <1>1, WorldStep DEF IssueCommand, RestartReferee, RecordCommand, RecordOther, WriteRecord
  <2>. QED
    BY <2>1 DEF KeptInv
<1>2. CASE OpenFails
  BY <1>2 DEF OpenFails, KeptInv
<1>3. CASE OpenLog
  BY <1>3, OpenLogKept
<1>4. CASE LoadKnown
  BY <1>4, LoadKnownKept
<1>5. CASE LoadNew
  BY <1>5, LoadNewKept
<1>6. CASE SkipRecord
  BY <1>6, SkipKept
<1>7. CASE EndOfLog \/ IndexEvent \/ IndexOther \/ NextReferee \/ IndexDone
  <2>1. /\ pc \in {"load", "index"} /\ pc' \in {"load", "index", "done"}
        /\ UNCHANGED <<log, pos, referee_map, referee_ports, referee_commands>>
    BY <1>7 DEF EndOfLog, IndexEvent, IndexOther, NextCommand, NextReferee,
                IndexDone, Indexing
  <2>. QED
    BY <2>1 DEF KeptInv
<1>8. CASE UNCHANGED vars
  BY <1>8 DEF vars, KeptInv
<1>. QED
  BY <1>1, <1>2, <1>3, <1>4, <1>5, <1>6, <1>7, <1>8 DEF Next

LEMMA AlwaysKeptInv == Spec => [](SlotsInv /\ KeptInv)
<1>1. Init => KeptInv
  BY DEF Init, KeptInv
<1>. QED
  BY <1>1, InitSlotsInv, StepSlotsInv, StepKeptInv, PTL DEF Spec

(* For every log, however packets were repeated, reordered or lost, and    *)
(* every number of referees: a slot holds, in order, the commands of its   *)
(* referee that were newer than all that was heard from it before, though  *)
(* LoadRefereeCommands compares with the last one it kept only.            *)
THEOREM KeepsNewer == Spec => []KeepsTheNewer
<1>1. ASSUME SlotsInv, KeptInv PROVE KeepsTheNewer
  <2> SUFFICES ASSUME NEW s \in DOMAIN referee_commands
               PROVE  /\ CountersIncrease(referee_commands[s])
                      /\ { referee_commands[s][n] : n \in DOMAIN referee_commands[s] }
                           = { log[n].data : n \in Newer(referee_ports[s]) }
    BY DEF KeepsTheNewer
  <2>1. pc \in {"load", "index", "done"}
    BY <1>1 DEF SlotsInv, Untouched, TypeOK
  <2>2. s \in 1..Len(referee_commands)
    BY <1>1 DEF SlotsInv, TypeOK
  <2>3. Kept(referee_commands[s], log, pos, referee_ports[s])
    BY <2>1, <2>2, <1>1 DEF KeptInv
  <2>4. Newer(referee_ports[s]) = NewerIn(log, pos, referee_ports[s])
    BY DEF Newer, Heard, NewerIn, HeardIn
  <2>. QED
    BY <2>3, <2>4 DEF Kept, Elements
<1>. QED
  BY <1>1, AlwaysKeptInv, PTL

-----------------------------------------------------------------------------
(* The invariant of the indexer: an event's counter is that of a command   *)
(* that was passed, so the next command's exceeds it.                      *)
Identified(s) ==
  /\ \A x \in 1..Len(referee_events[s]) :
       referee_events[s][x].command \in EventCommands
  /\ CountersIncrease(referee_events[s])

EventInv ==
  /\ i < Len(referee_commands) => j \in 0..Len(referee_commands[i + 1])
  /\ \A s \in 1..Len(referee_events) : i + 1 < s => referee_events[s] = <<>>
  /\ i < Len(referee_commands) =>
       \A x \in 1..Len(referee_events[i + 1]) : \E m \in 1..j :
         referee_events[i + 1][x].command_counter =
           referee_commands[i + 1][m].command_counter
  /\ \A s \in 1..Len(referee_events) : Identified(s)

(* Before the indexer starts there are no events.                          *)
LEMMA NoEventsYet ==
  ASSUME SlotsInv, pc \in {"record", "load", "exit"}
  PROVE  EventInv
<1>1. /\ i = 0 /\ j = 0
      /\ \A s \in 1..Len(referee_events) : referee_events[s] = <<>>
      /\ referee_commands # <<>> => Len(referee_events) = Len(referee_commands)
      /\ Len(referee_commands) \in Nat
      /\ \A s \in 1..Len(referee_commands) : Len(referee_commands[s]) \in Nat
  <2>1. TypeOK
    BY DEF SlotsInv
  <2>2. /\ DOMAIN referee_events = 1..Len(referee_events)
        /\ Len(referee_commands) \in Nat
        /\ \A s \in 1..Len(referee_commands) : Len(referee_commands[s]) \in Nat
    BY <2>1, ListTypes DEF Commands
  <2>3. referee_commands # <<>> => Len(referee_events) = Len(referee_commands)
    BY <2>1 DEF SlotsInv, SlotsAligned, Untouched
  <2>. QED
    BY <2>1, <2>2, <2>3 DEF SlotsInv, Untouched, TypeOK
<1>2. \A s \in 1..Len(referee_events) : Identified(s)
  BY <1>1 DEF Identified, CountersIncrease
<1>3. i < Len(referee_commands) =>
        /\ j \in 0..Len(referee_commands[i + 1])
        /\ referee_events[i + 1] = <<>>
  BY <1>1
<1>. QED
  BY <1>1, <1>2, <1>3 DEF EventInv

(* The command at hand has a greater counter than every event of its list. *)
LEMMA NextIsGreater ==
  ASSUME SlotsInv, KeptInv, EventInv, Indexing
  PROVE  /\ i + 1 \in 1..Len(referee_events)
         /\ j + 1 \in 1..Len(referee_commands[i + 1])
         /\ IndexedCommand \in RefereeCommand
         /\ \A x \in 1..Len(referee_events[i + 1]) :
              referee_events[i + 1][x].command_counter < IndexedCommand.command_counter
<1>1. /\ i + 1 \in 1..Len(referee_commands) /\ i + 1 \in 1..Len(referee_events)
      /\ j + 1 \in 1..Len(referee_commands[i + 1])
      /\ IndexedCommand \in RefereeCommand
  BY IndexTypes
<1>2. CountersIncrease(referee_commands[i + 1])
  BY <1>1 DEF KeptInv, Kept, Indexing
<1>3. /\ j \in Nat /\ DOMAIN referee_commands[i + 1] = 1..Len(referee_commands[i + 1])
      /\ Len(referee_commands[i + 1]) \in Nat
  BY <1>1, ListTypes DEF SlotsInv, Commands
<1>4. \A m \in 1..j :
        referee_commands[i + 1][m].command_counter < IndexedCommand.command_counter
  BY <1>1, <1>2, <1>3 DEF CountersIncrease, IndexedCommand
<1>5. \A x \in 1..Len(referee_events[i + 1]) : \E m \in 1..j :
        referee_events[i + 1][x].command_counter =
          referee_commands[i + 1][m].command_counter
  BY DEF EventInv, Indexing
<1>. QED
  BY <1>1, <1>4, <1>5

LEMMA IndexEventIdentified ==
  SlotsInv /\ KeptInv /\ EventInv /\ IndexEvent => EventInv'
<1> SUFFICES ASSUME SlotsInv, KeptInv, EventInv, IndexEvent PROVE EventInv'
  OBVIOUS
<1> DEFINE e == NewEvent
           old == referee_events[i + 1]
           longer == Append(old, e)
<1>t. TypeOK /\ TypeOK'
  BY IndexEventSlots DEF SlotsInv
<1>1. /\ Indexing /\ IndexedCommand.command \in EventCommands
      /\ referee_events' = [referee_events EXCEPT ![i + 1] = longer]
      /\ j' = j + 1 /\ UNCHANGED <<i, referee_commands, pc>>
  BY DEF IndexEvent, NextCommand, NewEvent
<1>2. /\ i + 1 \in 1..Len(referee_events)
      /\ j + 1 \in 1..Len(referee_commands[i + 1])
      /\ IndexedCommand \in RefereeCommand
      /\ \A x \in 1..Len(old) : old[x].command_counter < IndexedCommand.command_counter
  BY <1>1, NextIsGreater
<1>3. old \in Events /\ e \in RefereeEvent
  BY <1>2, <1>t, ListTypes DEF NewEvent, RefereeEvent, RefereeCommand, TypeOK
<1>4. /\ e.command \in EventCommands
      /\ e.command_counter = IndexedCommand.command_counter
  BY <1>1 DEF NewEvent
<1> HIDE DEF e
<1>5. /\ Len(old) \in Nat /\ DOMAIN old = 1..Len(old)
      /\ Len(longer) = Len(old) + 1 /\ DOMAIN longer = 1..(Len(old) + 1)
      /\ \A x \in 1..Len(old) : longer[x] = old[x]
      /\ longer[Len(old) + 1] = e
  BY <1>3, AppendProperties DEF Events
<1> HIDE DEF longer
<1>6. /\ Len(referee_events') = Len(referee_events)
      /\ referee_events'[i + 1] = longer
      /\ \A s \in 1..Len(referee_events) :
           s # i + 1 => referee_events'[s] = referee_events[s]
  <2>1. DOMAIN referee_events = 1..Len(referee_events)
    BY <1>t, ListTypes
  <2>2. DOMAIN referee_events' = 1..Len(referee_events)
    BY <1>1, <2>1
  <2>3. Len(referee_events') = Len(referee_events)
    BY <2>2, <1>t DEF TypeOK
  <2>. QED
    BY <2>1, <2>3, <1>1, <1>2
<1>7. /\ \A x \in 1..Len(longer) : longer[x].command \in EventCommands
      /\ CountersIncrease(longer)
  <2>1. /\ \A x \in 1..Len(old) : old[x].command \in EventCommands
        /\ CountersIncrease(old)
    BY <1>2 DEF EventInv, Identified
  <2>2. \A x \in 1..Len(longer) : x \in 1..Len(old) \/ x = Len(old) + 1
    BY <1>5
  <2>3. \A x \in 1..Len(longer) : longer[x].command \in EventCommands
    BY <2>1, <2>2, <1>4, <1>5
  <2>4. ASSUME NEW x \in DOMAIN longer, NEW y \in DOMAIN longer, x < y
        PROVE  longer[x].command_counter < longer[y].command_counter
    <3> HIDE DEF old
    <3>1. x \in 1..Len(old)
      BY <2>4, <1>5
    <3>2. CASE y = Len(old) + 1
      BY <3>1, <3>2, <1>2, <1>4, <1>5 DEF old
    <3>3. CASE y # Len(old) + 1
      <4>1. y \in 1..Len(old)
        BY <3>3, <1>5
      <4>. QED
        BY <2>4, <3>1, <4>1, <2>1, <1>5 DEF CountersIncrease
    <3>. QED
      BY <3>2, <3>3
  <2>. QED
    BY <2>3, <2>4 DEF CountersIncrease
<1>8. \A x \in 1..Len(longer) : \E m \in 1..(j + 1) :
        longer[x].command_counter = referee_commands[i + 1][m].command_counter
  <2>1. j \in Nat /\ j + 1 \in 1..(j + 1) /\ 1..j \subseteq 1..(j + 1)
    BY <1>t DEF TypeOK
  <2>2. \A x \in 1..Len(old) : \E m \in 1..j :
          old[x].command_counter = referee_commands[i + 1][m].command_counter
    BY <1>1 DEF EventInv, Indexing
  <2>3. longer[Len(old) + 1].command_counter =
          referee_commands[i + 1][j + 1].command_counter
    BY <1>4, <1>5 DEF IndexedCommand
  <2>4. \A x \in 1..Len(longer) : x \in 1..Len(old) \/ x = Len(old) + 1
    BY <1>5
  <2> HIDE DEF old
  <2>. QED
    BY <2>1, <2>2, <2>3, <2>4, <1>5
<1>9. \A s \in 1..Len(referee_events') : Identified(s)'
  BY <1>6, <1>7 DEF EventInv, Identified
<1>10. \A s \in 1..Len(referee_events') : i' + 1 < s => referee_events'[s] = <<>>
  <2>1. i \in Nat
    BY <1>t, ListTypes
  <2>. QED
    BY <2>1, <1>1, <1>6 DEF EventInv
<1>11. j' \in 0..Len(referee_commands'[i' + 1])
  <2>1. j \in Nat /\ Len(referee_commands[i + 1]) \in Nat
    BY <1>1, <1>t, IndexTypes, ListTypes DEF Commands
  <2>. QED
    BY <2>1, <1>1, <1>2
<1>12. \A x \in 1..Len(referee_events'[i' + 1]) : \E m \in 1..j' :
         referee_events'[i' + 1][x].command_counter =
           referee_commands'[i' + 1][m].command_counter
  BY <1>1, <1>6, <1>8
<1>. QED
  BY <1>9, <1>10, <1>11, <1>12 DEF EventInv

LEMMA StepEventInv ==
  SlotsInv /\ SlotsInv' /\ KeptInv /\ EventInv /\ [Next]_vars => EventInv'
<1> SUFFICES ASSUME SlotsInv, SlotsInv', KeptInv, EventInv, [Next]_vars
             PROVE  EventInv'
  OBVIOUS
<1>t. TypeOK
  BY DEF SlotsInv
<1>1. CASE pc' \in {"record", "load", "exit"}
  <2>1. (SlotsInv /\ pc \in {"record", "load", "exit"} => EventInv)'
    BY NoEventsYet, PTL
  <2>. QED
    BY <1>1, <2>1
<1>2. CASE IndexEvent
  BY <1>2, IndexEventIdentified
<1>3. CASE IndexOther
  <2>1. /\ Indexing /\ j' = j + 1
        /\ UNCHANGED <<i, referee_commands, referee_events>>
    BY <1>3 DEF IndexOther, NextCommand
  <2>2. /\ j + 1 \in 1..Len(referee_commands[i + 1]) /\ j \in Nat
        /\ Len(referee_commands[i + 1]) \in Nat
    BY <2>1, <1>t, IndexTypes, ListTypes DEF Commands
  <2>3. j' \in 0..Len(referee_commands[i + 1]) /\ 1..j \subseteq 1..j'
    BY <2>1, <2>2
  <2>. QED
    BY <2>1, <2>3 DEF EventInv, Identified, Indexing
<1>4. CASE NextReferee
  <2>1. /\ i < Len(referee_commands) /\ i' = i + 1 /\ j' = 0 /\ pc = "index"
        /\ UNCHANGED <<referee_commands, referee_events>>
    BY <1>4 DEF NextReferee
  <2>2. /\ i \in Nat /\ Len(referee_commands) \in Nat
        /\ Len(referee_events) = Len(referee_commands)
        /\ \A s \in 1..Len(referee_commands) : Len(referee_commands[s]) \in Nat
    BY <2>1, <1>t, ListTypes DEF SlotsInv, SlotsAligned, Commands
  <2>3. \A s \in 1..Len(referee_events) : i + 1 < s => referee_events[s] = <<>>
    BY DEF EventInv
  <2>4. i + 1 < Len(referee_commands) =>
          /\ 0 \in 0..Len(referee_commands[i + 1 + 1])
          /\ referee_events[i + 1 + 1] = <<>>
    BY <2>2, <2>3
  <2>5. \A s \in 1..Len(referee_events) : i + 1 + 1 < s => referee_events[s] = <<>>
    BY <2>2, <2>3
  <2>6. \A s \in 1..Len(referee_events) : Identified(s)
    BY DEF EventInv
  <2>. QED
    BY <2>1, <2>4, <2>5, <2>6 DEF EventInv, Identified
<1>5. CASE EndOfLog \/ IndexDone \/ UNCHANGED vars
  <2>1. UNCHANGED <<i, j, referee_commands, referee_events>>
    BY <1>5 DEF EndOfLog, IndexDone, vars
  <2>. QED
    BY <2>1 DEF EventInv, Identified
<1>6. CASE \E p \in Ports : \/ IssueCommand(p) \/ RestartReferee(p)
                            \/ RecordCommand(p) \/ RecordOther(p)
  BY <1>6, <1>1, WorldStep
<1>7. CASE OpenFails \/ OpenLog \/ LoadKnown \/ LoadNew \/ SkipRecord
  BY <1>7, <1>1 DEF OpenFails, OpenLog, LoadKnown, LoadNew, SkipRecord
<1>. QED
  BY <1>2, <1>3, <1>4, <1>5, <1>6, <1>7 DEF Next

LEMMA AlwaysEventInv == Spec => [](SlotsInv /\ KeptInv /\ EventInv)
<1>1. Init => EventInv
  BY InitSlotsInv, NoEventsYet DEF Init
<1>. QED
  BY <1>1, InitSlotsInv, StepSlotsInv, AlwaysKeptInv, StepEventInv, PTL DEF Spec

(* The lists handed to the comparison of autorefs hold events of the event *)
(* kinds whose counters identify them, for every log: LogsAssumption of    *)
(* Matching is what the loader and the indexer establish.                  *)
THEOREM EventsAreIdentified == Spec => []EventsIdentified
<1>1. ASSUME SlotsInv, EventInv PROVE EventsIdentified
  <2> SUFFICES ASSUME NEW s \in DOMAIN referee_events
               PROVE  referee_events[s] \in EventLists
    BY DEF EventsIdentified
  <2>1. s \in 1..Len(referee_events) /\ referee_events[s] \in Seq(RefereeEvent)
    BY <1>1, ListTypes DEF SlotsInv, Events
  <2>2. DOMAIN referee_events[s] = 1..Len(referee_events[s])
    BY <2>1
  <2>. QED
    BY <2>1, <2>2, <1>1 DEF EventInv, Identified, EventLists
<1>. QED
  BY <1>1, AlwaysEventInv, PTL
-----------------------------------------------------------------------------
(* What the indexer makes of it: its running STOP time against the         *)
(* definition without one, the order of the events in time, and that late  *)
(* packets never cost the newest command.                                  *)

(* StopsOf of a given list of commands.                                    *)
StopsIn(l, n) ==
  { m \in 1..(n - 1) :
      /\ l[m].command = "STOP"
      /\ \A x \in (m + 1)..(n - 1) : l[x].command \notin EventCommands \cup {"STOP"} }

(* The time t belongs to the STOP before the n-th command, or is 0.        *)
StopIs(t, l, n) ==
  /\ StopsIn(l, n) = {} => t = 0
  /\ \A m \in StopsIn(l, n) : t = l[m].command_timestamp

(* Event e is the one of the n-th command.                                 *)
EventOf(e, l, n) ==
  /\ l[n].command \in EventCommands
  /\ e.command = l[n].command
  /\ e.command_counter = l[n].command_counter
  /\ e.command_timestamp = l[n].command_timestamp
  /\ StopIs(e.stop_timestamp, l, n)

(* The events are those of the first n commands.                           *)
Follow(events, l, n) ==
  /\ \A m \in 1..n : l[m].command \in EventCommands =>
       \E x \in 1..Len(events) : EventOf(events[x], l, m)
  /\ \A x \in 1..Len(events) : \E m \in 1..n : EventOf(events[x], l, m)

(* What each kind of command does to the STOPs before the next one.        *)
LEMMA StopsNext ==
  ASSUME NEW l, NEW n \in Nat
  PROVE  /\ StopsIn(l, 1) = {}
         /\ l[n + 1].command = "STOP" => StopsIn(l, n + 2) = {n + 1}
         /\ l[n + 1].command \in EventCommands => StopsIn(l, n + 2) = {}
         /\ l[n + 1].command \notin EventCommands \cup {"STOP"} =>
              StopsIn(l, n + 2) = StopsIn(l, n + 1)
<1>1. StopsIn(l, 1) = {}
  BY DEF StopsIn
<1> DEFINE Quiet(x) == l[x].command \notin EventCommands \cup {"STOP"}
<1>2. \A m : m \in StopsIn(l, n + 2) <=>
        m \in 1..(n + 1) /\ l[m].command = "STOP" /\ \A x \in (m + 1)..(n + 1) : Quiet(x)
  BY DEF StopsIn
<1>3. \A m : m \in StopsIn(l, n + 1) <=>
        m \in 1..n /\ l[m].command = "STOP" /\ \A x \in (m + 1)..n : Quiet(x)
  BY DEF StopsIn
<1>4. \A m \in 1..n : n + 1 \in (m + 1)..(n + 1)
  OBVIOUS
<1>5. ASSUME l[n + 1].command = "STOP" PROVE StopsIn(l, n + 2) = {n + 1}
  <2>1. n + 1 \in StopsIn(l, n + 2)
    BY <1>2, <1>5
  <2>2. ~Quiet(n + 1)
    BY <1>5
  <2>3. \A m \in StopsIn(l, n + 2) : m = n + 1
    BY <1>2, <1>4, <2>2
  <2>. QED
    BY <2>1, <2>3
<1>6. ASSUME l[n + 1].command \in EventCommands PROVE StopsIn(l, n + 2) = {}
  <2>1. ~Quiet(n + 1) /\ l[n + 1].command # "STOP"
    BY <1>6 DEF EventCommands
  <2>. QED
    BY <1>2, <1>4, <2>1
<1>7. ASSUME Quiet(n + 1) PROVE StopsIn(l, n + 2) = StopsIn(l, n + 1)
  <2>1. l[n + 1].command # "STOP"
    BY <1>7
  <2>2. \A m \in 1..n : (\A x \in (m + 1)..(n + 1) : Quiet(x))
                          <=> (\A x \in (m + 1)..n : Quiet(x))
    <3> HIDE DEF Quiet
    <3>. QED
      BY <1>7
  <2> HIDE DEF Quiet
  <2>3. \A m : m \in StopsIn(l, n + 2) <=> m \in StopsIn(l, n + 1)
    BY <1>2, <1>3, <2>1, <2>2
  <2>. QED
    BY <2>3
<1>. QED
  BY <1>1, <1>5, <1>6, <1>7

(* The running time of IndexRefereeEvents is that of the STOP before.      *)
LEMMA StopAfterIs ==
  ASSUME NEW l, NEW n \in Nat, StopIs(t_last_stop, l, n + 1)
  PROVE  StopIs(StopAfter(l[n + 1]), l, n + 2)
<1> DEFINE c == l[n + 1]
<1>1. CASE c.command = "STOP"
  <2>1. StopAfter(c) = c.command_timestamp
    BY <1>1 DEF StopAfter, EventCommands
  <2>2. StopsIn(l, n + 2) = {n + 1}
    BY <1>1, StopsNext
  <2>. QED
    BY <2>1, <2>2 DEF StopIs
<1>2. CASE c.command \in EventCommands
  <2>1. StopAfter(c) = 0
    BY <1>2 DEF StopAfter, EventCommands
  <2>2. StopsIn(l, n + 2) = {}
    BY <1>2, StopsNext
  <2>. QED
    BY <2>1, <2>2 DEF StopIs
<1>3. CASE c.command \notin EventCommands \cup {"STOP"}
  <2>1. StopAfter(c) = t_last_stop
    BY <1>3 DEF StopAfter
  <2>2. StopsIn(l, n + 2) = StopsIn(l, n + 1)
    BY <1>3, StopsNext
  <2>. QED
    BY <2>1, <2>2 DEF StopIs
<1>. QED
  BY <1>1, <1>2, <1>3

(* One more command, with its event or without one.                        *)
LEMMA FollowNext ==
  ASSUME NEW events \in Events, NEW l, NEW n \in Nat, Follow(events, l, n),
         NEW e, EventOf(e, l, n + 1)
  PROVE  Follow(Append(events, e), l, n + 1)
<1> DEFINE longer == Append(events, e)
<1>1. /\ Len(events) \in Nat /\ Len(longer) = Len(events) + 1
      /\ \A x \in 1..Len(events) : longer[x] = events[x]
      /\ longer[Len(events) + 1] = e
  BY DEF Events
<1> HIDE DEF longer
<1>2. /\ Len(longer) \in Nat
      /\ \A x \in 1..Len(events) : x \in 1..Len(longer)
      /\ Len(events) + 1 \in 1..Len(longer)
      /\ \A x \in 1..Len(longer) : x \in 1..Len(events) \/ x = Len(events) + 1
  BY <1>1
<1>3. /\ \A m \in 1..(n + 1) : m \in 1..n \/ m = n + 1
      /\ \A m \in 1..n : m \in 1..(n + 1)
      /\ n + 1 \in 1..(n + 1)
  OBVIOUS
<1>4. ASSUME NEW m \in 1..(n + 1), l[m].command \in EventCommands
      PROVE  \E x \in 1..Len(longer) : EventOf(longer[x], l, m)
  <2>1. CASE m \in 1..n
    <3>1. PICK x \in 1..Len(events) : EventOf(events[x], l, m)
      BY <1>4, <2>1 DEF Follow
    <3>. QED
      BY <3>1, <1>1, <1>2
  <2>2. CASE m = n + 1
    BY <2>2, <1>1, <1>2
  <2>. QED
    BY <1>3, <2>1, <2>2
<1>5. ASSUME NEW x \in 1..Len(longer)
      PROVE  \E m \in 1..(n + 1) : EventOf(longer[x], l, m)
  <2>1. CASE x \in 1..Len(events)
    <3>1. PICK m \in 1..n : EventOf(events[x], l, m)
      BY <2>1 DEF Follow
    <3>. QED
      BY <3>1, <2>1, <1>1, <1>3
  <2>2. CASE x = Len(events) + 1
    BY <2>2, <1>1, <1>3
  <2>. QED
    BY <1>2, <2>1, <2>2
<1>6. Follow(longer, l, n + 1)
  BY <1>4, <1>5 DEF Follow
<1>. QED
  BY <1>6 DEF longer

LEMMA FollowSkip ==
  ASSUME NEW events, NEW l, NEW n \in Nat, Follow(events, l, n),
         l[n + 1].command \notin EventCommands
  PROVE  Follow(events, l, n + 1)
<1>1. /\ \A m \in 1..(n + 1) : m \in 1..n \/ m = n + 1
      /\ \A m \in 1..n : m \in 1..(n + 1)
  OBVIOUS
<1>. QED
  BY <1>1 DEF Follow

-----------------------------------------------------------------------------
(* The invariant of the indexer: the lists of the referees before i are    *)
(* complete, that of referee i up to command j, and the running time is    *)
(* that of the STOP an event of command j would take.                      *)
FollowInv ==
  /\ pc \in {"record", "load"} => t_last_stop = 0
  /\ pc = "done" => i = Len(referee_commands)
  /\ pc \in {"index", "done"} =>
       /\ \A s \in 1..Len(referee_commands) : s <= i =>
            Follow(referee_events[s], referee_commands[s], Len(referee_commands[s]))
       /\ i < Len(referee_commands) =>
            /\ Follow(referee_events[i + 1], referee_commands[i + 1], j)
            /\ StopIs(t_last_stop, referee_commands[i + 1], j + 1)

(* The list of a referee that comes next is empty.                         *)
LEMMA FollowNothing ==
  ASSUME NEW l
  PROVE  Follow(<<>>, l, 0) /\ StopIs(0, l, 0 + 1)
<1>1. StopsIn(l, 0 + 1) = {}
  BY StopsNext
<1>. QED
  BY <1>1 DEF Follow, StopIs

LEMMA IndexStepFollow ==
  SlotsInv /\ EventInv /\ FollowInv /\ (IndexEvent \/ IndexOther) => FollowInv'
<1> SUFFICES ASSUME SlotsInv, EventInv, FollowInv, IndexEvent \/ IndexOther
             PROVE  FollowInv'
  OBVIOUS
<1> DEFINE l == referee_commands[i + 1]
           old == referee_events[i + 1]
           c == IndexedCommand
<1>t. TypeOK
  BY DEF SlotsInv
<1>1. /\ Indexing /\ pc = "index" /\ pc' = "index"
      /\ i' = i /\ j' = j + 1 /\ referee_commands' = referee_commands
      /\ t_last_stop' = StopAfter(c)
  BY DEF IndexEvent, IndexOther, NextCommand, Indexing
<1>2. /\ i + 1 \in 1..Len(referee_commands) /\ i + 1 \in 1..Len(referee_events)
      /\ c \in RefereeCommand /\ c = l[j + 1]
  BY <1>1, IndexTypes DEF IndexedCommand
<1>3. /\ i \in Nat /\ j \in Nat /\ Len(referee_commands) \in Nat
      /\ old \in Events /\ DOMAIN referee_events = 1..Len(referee_events)
      /\ i < Len(referee_commands)
      /\ Len(referee_events) = Len(referee_commands)
  BY <1>1, <1>2, <1>t, ListTypes DEF Indexing, SlotsInv, SlotsAligned
<1>4. Follow(old, l, j) /\ StopIs(t_last_stop, l, j + 1)
  BY <1>1, <1>3 DEF FollowInv
<1>5. StopIs(StopAfter(c), l, j + 2)
  BY <1>2, <1>3, <1>4, StopAfterIs
<1>6. Follow(referee_events'[i + 1], l, j + 1)
  <2>1. CASE IndexEvent
    <3>1. /\ c.command \in EventCommands
          /\ referee_events' = [referee_events EXCEPT ![i + 1] = Append(old, NewEvent)]
      BY <2>1 DEF IndexEvent, NewEvent
    <3>2. referee_events'[i + 1] = Append(old, NewEvent)
      BY <1>2, <1>3, <3>1
    <3>3. EventOf(NewEvent, l, j + 1)
      BY <1>2, <1>4, <3>1 DEF EventOf, NewEvent
    <3>4. Follow(Append(old, NewEvent), l, j + 1)
      <4> HIDE DEF old, l
      <4>. QED
        BY <1>3, <1>4, <3>3, FollowNext
    <3>. QED
      BY <3>2, <3>4
  <2>2. CASE IndexOther
    <3>1. l[j + 1].command \notin EventCommands /\ referee_events' = referee_events
      BY <2>2, <1>2 DEF IndexOther
    <3>. QED
      BY <3>1, <1>3, <1>4, FollowSkip
  <2>. QED
    BY <2>1, <2>2
<1>7. \A s \in 1..Len(referee_commands) : s <= i =>
        referee_events'[s] = referee_events[s]
  BY <1>3 DEF IndexEvent, IndexOther
<1>8. \A s \in 1..Len(referee_commands) : s <= i =>
        Follow(referee_events[s], referee_commands[s], Len(referee_commands[s]))
  BY <1>1 DEF FollowInv
<1>9. j' + 1 = j + 2
  BY <1>1, <1>3
<1> HIDE DEF l, old, c
<1>10. /\ Follow(referee_events'[i' + 1], referee_commands'[i' + 1], j')
       /\ StopIs(t_last_stop', referee_commands'[i' + 1], j' + 1)
  BY <1>1, <1>5, <1>6, <1>9 DEF l
<1>11. \A s \in 1..Len(referee_commands') : s <= i' =>
         Follow(referee_events'[s], referee_commands'[s], Len(referee_commands'[s]))
  BY <1>1, <1>7, <1>8
<1>. QED
  BY <1>1, <1>10, <1>11 DEF FollowInv

LEMMA NextRefereeFollow ==
  SlotsInv /\ EventInv /\ FollowInv /\ NextReferee => FollowInv'
<1> SUFFICES ASSUME SlotsInv, EventInv, FollowInv, NextReferee PROVE FollowInv'
  OBVIOUS
<1>t. TypeOK
  BY DEF SlotsInv
<1>1. /\ pc = "index" /\ pc' = "index" /\ i < Len(referee_commands)
      /\ j = Len(referee_commands[i + 1])
      /\ i' = i + 1 /\ j' = 0 /\ t_last_stop' = 0
      /\ referee_commands' = referee_commands /\ referee_events' = referee_events
  BY DEF NextReferee
<1>2. /\ i \in Nat /\ Len(referee_commands) \in Nat
      /\ Len(referee_events) = Len(referee_commands)
  BY <1>1, <1>t, ListTypes DEF SlotsInv, SlotsAligned
<1>3. \A s \in 1..Len(referee_commands) : s <= i + 1 =>
        Follow(referee_events[s], referee_commands[s], Len(referee_commands[s]))
  <2>1. \A s \in 1..Len(referee_commands) : s <= i + 1 => s <= i \/ s = i + 1
    BY <1>2
  <2>. QED
    BY <1>1, <2>1 DEF FollowInv
<1>4. i + 1 < Len(referee_commands) => referee_events[i + 1 + 1] = <<>>
  BY <1>2 DEF EventInv
<1>5. i' < Len(referee_commands') =>
        /\ Follow(referee_events'[i' + 1], referee_commands'[i' + 1], j')
        /\ StopIs(t_last_stop', referee_commands'[i' + 1], j' + 1)
  BY <1>1, <1>4, FollowNothing
<1>6. \A s \in 1..Len(referee_commands') : s <= i' =>
         Follow(referee_events'[s], referee_commands'[s], Len(referee_commands'[s]))
  BY <1>1, <1>3
<1>. QED
  BY <1>1, <1>5, <1>6 DEF FollowInv

LEMMA EndOfLogFollow ==
  SlotsInv /\ FollowInv /\ EndOfLog => FollowInv'
<1> SUFFICES ASSUME SlotsInv, FollowInv, EndOfLog PROVE FollowInv'
  OBVIOUS
<1>t. TypeOK
  BY DEF SlotsInv
<1>1. /\ pc = "load" /\ pc' = "index" /\ UNCHANGED <<tables, index>>
      /\ i = 0 /\ j = 0 /\ t_last_stop = 0
      /\ \A s \in DOMAIN referee_events : referee_events[s] = <<>>
  BY DEF EndOfLog, FollowInv, SlotsInv, Untouched
<1>2. /\ Len(referee_commands) \in Nat
      /\ DOMAIN referee_events = 1..Len(referee_commands)
  BY <1>1, <1>t, ListTypes DEF SlotsInv, SlotsAligned
<1>3. \A s \in 1..Len(referee_commands) : ~(s <= i)
  BY <1>1
<1>4. i < Len(referee_commands) =>
        /\ Follow(referee_events[i + 1], referee_commands[i + 1], j)
        /\ StopIs(t_last_stop, referee_commands[i + 1], j + 1)
  <2>1. i < Len(referee_commands) => referee_events[i + 1] = <<>>
    BY <1>1, <1>2
  <2>. QED
    BY <1>1, <2>1, FollowNothing
<1>5. i' < Len(referee_commands') =>
        /\ Follow(referee_events'[i' + 1], referee_commands'[i' + 1], j')
        /\ StopIs(t_last_stop', referee_commands'[i' + 1], j' + 1)
  BY <1>1, <1>4
<1>6. \A s \in 1..Len(referee_commands') : ~(s <= i')
  BY <1>1, <1>3
<1>. QED
  BY <1>1, <1>5, <1>6 DEF FollowInv

LEMMA StepFollowInv ==
  SlotsInv /\ EventInv /\ FollowInv /\ [Next]_vars => FollowInv'
<1> SUFFICES ASSUME SlotsInv, EventInv, FollowInv, [Next]_vars
             PROVE  FollowInv'
  OBVIOUS
<1>1. CASE \E p \in Ports : \/ IssueCommand(p) \/ RestartReferee(p)
                            \/ RecordCommand(p) \/ RecordOther(p)
  <2>1. pc = "record" /\ UNCHANGED <<tables, index, pc>>
    BY <1>1, WorldStep
  <2>. QED
    BY <2>1 DEF FollowInv
<1>2. CASE OpenFails
  BY <1>2 DEF OpenFails, FollowInv
<1>3. CASE OpenLog \/ LoadKnown \/ LoadNew \/ SkipRecord
  <2>1. pc \in {"record", "load"} /\ pc' = "load" /\ UNCHANGED <<i, t_last_stop>>
    BY <1>3 DEF OpenLog, LoadKnown, LoadNew, SkipRecord
  <2>. QED
    BY <2>1 DEF FollowInv
<1>4. CASE EndOfLog
  BY <1>4, EndOfLogFollow
<1>5. CASE IndexEvent \/ IndexOther
  BY <1>5, IndexStepFollow
<1>6. CASE NextReferee
  BY <1>6, NextRefereeFollow
<1>7. CASE IndexDone
  BY <1>7 DEF IndexDone, FollowInv
<1>8. CASE UNCHANGED vars
  BY <1>8 DEF vars, FollowInv
<1>. QED
  BY <1>1, <1>2, <1>3, <1>4, <1>5, <1>6, <1>7, <1>8 DEF Next

LEMMA AlwaysFollowInv == Spec => [](SlotsInv /\ KeptInv /\ EventInv /\ FollowInv)
<1>1. Init => FollowInv
  BY DEF Init, FollowInv
<1>. QED
  BY <1>1, AlwaysEventInv, StepFollowInv, PTL DEF Spec

(* The event lists are what the definition without a running time makes of *)
(* the commands, for every number of referees and commands: an event per   *)
(* event command that has a STOP, with the time of the last STOP before it *)
(* that no other event has used up, and none of any other command.         *)
THEOREM EventsFollow == Spec => []EventsFollowCommands
<1>1. ASSUME SlotsInv, FollowInv PROVE EventsFollowCommands
  <2> SUFFICES ASSUME pc = "done" PROVE EventsFollowCommands
    BY DEF EventsFollowCommands
  <2>t. TypeOK
    BY <1>1 DEF SlotsInv
  <2>1. ASSUME NEW s \in DOMAIN referee_commands
        PROVE  /\ DOMAIN referee_commands[s] = 1..Len(referee_commands[s])
               /\ DOMAIN referee_events[s] = 1..Len(referee_events[s])
               /\ Follow(referee_events[s], referee_commands[s], Len(referee_commands[s]))
    <3>1. s \in 1..Len(referee_commands) /\ i = Len(referee_commands)
      BY <1>1, <2>t, ListTypes DEF FollowInv
    <3>2. Len(referee_events) = Len(referee_commands) /\ i \in Nat
      BY <1>1, <2>t, ListTypes DEF SlotsInv, SlotsAligned
    <3>3. referee_commands[s] \in Commands /\ referee_events[s] \in Events
      BY <2>t, <3>1, <3>2, ListTypes
    <3>4. s <= i
      BY <3>1, <3>2
    <3>. QED
      BY <1>1, <3>1, <3>3, <3>4 DEF FollowInv, Commands, Events
  <2>2. \A s, n : StopsOf(s, n) = StopsIn(referee_commands[s], n)
    BY DEF StopsOf, StopsIn
  <2>3. ASSUME NEW s \in DOMAIN referee_commands
        PROVE  /\ \A n \in DOMAIN referee_commands[s] :
                    referee_commands[s][n].command \in EventCommands =>
                      \E x \in DOMAIN referee_events[s] :
                        EventOf(referee_events[s][x], referee_commands[s], n)
               /\ \A x \in DOMAIN referee_events[s] :
                    \E n \in DOMAIN referee_commands[s] :
                      EventOf(referee_events[s][x], referee_commands[s], n)
    BY <2>1 DEF Follow
  <2>4. \A s, n, e : EventOf(e, referee_commands[s], n) =>
          /\ referee_commands[s][n].command \in EventCommands
          /\ e.command = referee_commands[s][n].command
          /\ e.command_counter = referee_commands[s][n].command_counter
          /\ e.command_timestamp = referee_commands[s][n].command_timestamp
          /\ \A m \in StopsOf(s, n) :
               e.stop_timestamp = referee_commands[s][m].command_timestamp
    BY <2>2 DEF EventOf, StopIs
  <2> DEFINE same(s, e, n) ==
               /\ e.command = referee_commands[s][n].command
               /\ e.command_counter = referee_commands[s][n].command_counter
               /\ e.command_timestamp = referee_commands[s][n].command_timestamp
               /\ \A m \in StopsOf(s, n) :
                    e.stop_timestamp = referee_commands[s][m].command_timestamp
             found(s) == { n \in DOMAIN referee_commands[s] :
                             referee_commands[s][n].command \in EventCommands }
  <2>5. SUFFICES ASSUME NEW s \in DOMAIN referee_commands
                 PROVE  /\ \A n \in found(s) : StopsOf(s, n) # {} =>
                             \E x \in DOMAIN referee_events[s] :
                               same(s, referee_events[s][x], n)
                        /\ \A x \in DOMAIN referee_events[s] : \E n \in found(s) :
                             same(s, referee_events[s][x], n)
    BY Zenon DEF EventsFollowCommands
  <2>6. \A n, e : EventOf(e, referee_commands[s], n) =>
          same(s, e, n) /\ referee_commands[s][n].command \in EventCommands
    BY <2>4
  <2> HIDE DEF same
  <2>. QED
    BY <2>3, <2>6
<1>. QED
  BY <1>1, AlwaysFollowInv, PTL

-----------------------------------------------------------------------------
(* Where the log comes from: a record holds a command its referee issued,  *)
(* or nothing that parses; a referee's own times do not go back.           *)
Genuine(r) ==
  \/ r.data = Unparsed
  \/ \E m \in 1..Len(issued[r.port]) : r.data = issued[r.port][m]

IssuedInTime(p) ==
  \A m, n \in 1..Len(issued[p]) :
    m <= n => issued[p][m].command_timestamp <= issued[p][n].command_timestamp

LogInv ==
  /\ \A n \in 1..Len(log) : log[n] \in LogRecord /\ Genuine(log[n])
  /\ \A p \in Ports : issued[p] \in Commands /\ IssuedInTime(p)

LEMMA TimesAreNumbers ==
  /\ \A c \in RefereeCommand :
       c.command_timestamp \in Nat /\ c.command_counter \in Nat
  /\ \A e \in RefereeEvent :
       /\ e.command_timestamp \in Nat /\ e.stop_timestamp \in Nat
       /\ e.command_counter \in Nat
<1>1. Time \subseteq Nat /\ Counter \subseteq Nat
  BY TimeAssumption DEF Time, Counter
<1>. QED
  BY <1>1 DEF RefereeCommand, RefereeEvent

(* A referee's list grows at its end, by a command that is not earlier.    *)
LEMMA IssueInTime ==
  ASSUME NEW old \in Commands, NEW c \in RefereeCommand,
         \A m, n \in 1..Len(old) :
           m <= n => old[m].command_timestamp <= old[n].command_timestamp,
         old # <<>> => old[Len(old)].command_timestamp <= c.command_timestamp
  PROVE  /\ Append(old, c) \in Commands
         /\ \A m \in 1..Len(old) : Append(old, c)[m] = old[m]
         /\ 1..Len(old) \subseteq 1..Len(Append(old, c))
         /\ \A m, n \in 1..Len(Append(old, c)) : m <= n =>
              Append(old, c)[m].command_timestamp <= Append(old, c)[n].command_timestamp
<1> DEFINE longer == Append(old, c)
           k == Len(old)
<1>1. /\ longer \in Commands /\ k \in Nat /\ Len(longer) = k + 1
      /\ \A m \in 1..k : longer[m] = old[m]
      /\ longer[k + 1] = c
      /\ \A m \in 1..k : old[m] \in RefereeCommand
  BY AppendProperties, ElementOfSeq DEF Commands
<1>2. /\ c.command_timestamp \in Nat
      /\ \A m \in 1..k : old[m].command_timestamp \in Nat
  BY <1>1, TimesAreNumbers
<1>3. \A m \in 1..k : old[m].command_timestamp <= c.command_timestamp
  <2>1. ASSUME NEW m \in 1..k PROVE old[m].command_timestamp <= c.command_timestamp
    <3>1. old # <<>> /\ k \in 1..k /\ m <= k
      BY <1>1
    <3>2. /\ old[m].command_timestamp <= old[k].command_timestamp
          /\ old[k].command_timestamp <= c.command_timestamp
      BY <3>1
    <3>. QED
      BY <3>1, <3>2, <1>2
  <2>. QED
    BY <2>1
<1> HIDE DEF longer
<1>4. \A m, n \in 1..Len(longer) : m <= n =>
        longer[m].command_timestamp <= longer[n].command_timestamp
  <2> SUFFICES ASSUME NEW m \in 1..(k + 1), NEW n \in 1..(k + 1), m <= n
               PROVE  longer[m].command_timestamp <= longer[n].command_timestamp
    BY <1>1
  <2>1. CASE n = k + 1
    <3>1. m \in 1..k \/ m = k + 1
      BY <1>1
    <3>. QED
      BY <2>1, <3>1, <1>1, <1>2, <1>3
  <2>2. CASE n # k + 1
    <3>1. m \in 1..k /\ n \in 1..k
      BY <2>2, <1>1
    <3>. QED
      BY <3>1, <1>1
  <2>. QED
    BY <2>1, <2>2
<1>5. 1..k \subseteq 1..Len(longer)
  BY <1>1
<1>. QED
  BY <1>1, <1>4, <1>5 DEF longer

LEMMA IssueLogInv ==
  ASSUME SlotsInv, LogInv, NEW p \in Ports, IssueCommand(p)
  PROVE  LogInv'
<1>t. /\ TypeOK /\ issued \in [Ports -> Commands] /\ counter \in [Ports -> Counter]
      /\ Time \subseteq Nat
  BY TimeAssumption DEF SlotsInv, TypeOK, Commands, Time
<1>1. PICK c \in Kinds, t \in Time \ {0} :
        /\ issued[p] # <<>> => issued[p][Len(issued[p])].command_timestamp <= t
        /\ issued' = [issued EXCEPT ![p] =
             Append(issued[p], [command |-> c, command_counter |-> counter[p],
                                command_timestamp |-> t])]
  BY DEF IssueCommand
<1> DEFINE new == [command |-> c, command_counter |-> counter[p],
                   command_timestamp |-> t]
           old == issued[p]
           longer == Append(old, new)
<1>2. new \in RefereeCommand /\ new.command_timestamp = t
  BY <1>t, PortsAssumption DEF RefereeCommand
<1>3. old \in Commands /\ IssuedInTime(p)
  BY <1>t DEF LogInv
<1>4. old # <<>> => old[Len(old)].command_timestamp <= new.command_timestamp
  BY <1>1, <1>2
<1>5. issued' = [issued EXCEPT ![p] = longer] /\ log' = log
  BY <1>1 DEF IssueCommand
<1> HIDE DEF new
<1>6. /\ longer \in Commands
      /\ \A m \in 1..Len(old) : longer[m] = old[m]
      /\ 1..Len(old) \subseteq 1..Len(longer)
      /\ \A m, n \in 1..Len(longer) : m <= n =>
           longer[m].command_timestamp <= longer[n].command_timestamp
  BY <1>2, <1>3, <1>4, IssueInTime DEF IssuedInTime
<1>7. /\ issued'[p] = longer
      /\ \A q \in Ports : q # p => issued'[q] = issued[q]
  BY <1>5, <1>t
<1> HIDE DEF longer
<1>8. \A q \in Ports : issued'[q] \in Commands /\ IssuedInTime(q)'
  <2>1. issued'[p] \in Commands /\ IssuedInTime(p)'
    BY <1>6, <1>7 DEF IssuedInTime
  <2>2. ASSUME NEW q \in Ports, q # p PROVE issued'[q] \in Commands /\ IssuedInTime(q)'
    BY <2>2, <1>7 DEF LogInv, IssuedInTime
  <2>. QED
    BY <2>1, <2>2
<1>9. ASSUME NEW n \in 1..Len(log) PROVE log[n] \in LogRecord /\ Genuine(log[n])'
  <2>1. log[n] \in LogRecord /\ Genuine(log[n])
    BY DEF LogInv
  <2>2. log[n].port \in Ports
    BY <2>1 DEF LogRecord
  <2>3. CASE log[n].data = Unparsed
    BY <2>1, <2>3, <1>5 DEF Genuine
  <2>4. CASE log[n].data # Unparsed
    <3>1. PICK m \in 1..Len(issued[log[n].port]) : log[n].data = issued[log[n].port][m]
      BY <2>1, <2>4 DEF Genuine
    <3>2. /\ m \in 1..Len(issued'[log[n].port])
          /\ issued'[log[n].port][m] = issued[log[n].port][m]
      BY <2>2, <3>1, <1>6, <1>7
    <3>. QED
      BY <2>1, <3>1, <3>2, <1>5 DEF Genuine
  <2>. QED
    BY <2>1, <2>3, <2>4
<1>. QED
  BY <1>5, <1>8, <1>9 DEF LogInv

LEMMA WriteLogInv ==
  ASSUME SlotsInv, LogInv, NEW p \in Ports, RecordCommand(p) \/ RecordOther(p)
  PROVE  LogInv'
<1>t. TypeOK /\ log \in Seq(LogRecord) /\ issued \in [Ports -> Commands]
  BY DEF SlotsInv, TypeOK, Commands
<1>1. PICK address \in Address, data \in RefereeCommand :
        /\ WriteRecord(address, p, data)
        /\ data = Unparsed \/ \E m \in 1..Len(issued[p]) : data = issued[p][m]
  <2>1. CASE RecordCommand(p)
    <3>1. PICK n \in DOMAIN issued[p] : WriteRecord("referee", p, issued[p][n])
      BY <2>1 DEF RecordCommand
    <3>2. issued[p] \in Commands
      BY <1>t
    <3>3. n \in 1..Len(issued[p]) /\ issued[p][n] \in RefereeCommand
      BY <3>1, <3>2, ElementOfSeq DEF Commands
    <3>. QED
      BY <3>1, <3>3 DEF Address
  <2>2. CASE RecordOther(p)
    BY <2>2, WorldTypes, PortsAssumption DEF RecordOther, Address
  <2>. QED
    BY <2>1, <2>2
<1> DEFINE r == [address |-> address, port |-> p, data |-> data]
<1>2. r \in LogRecord /\ Genuine(r)
  BY <1>1 DEF LogRecord, Genuine
<1>3. log' = Append(log, r) /\ issued' = issued
  BY <1>1 DEF WriteRecord
<1> HIDE DEF r
<1>4. /\ Len(log) \in Nat /\ Len(log') = Len(log) + 1
      /\ \A n \in 1..Len(log) : log'[n] = log[n]
      /\ log'[Len(log) + 1] = r
  BY <1>2, <1>3, <1>t, AppendProperties
<1>5. \A x : Genuine(x) => Genuine(x)'
  BY <1>3 DEF Genuine
<1>6. ASSUME NEW n \in 1..Len(log') PROVE log'[n] \in LogRecord /\ Genuine(log'[n])
  <2>1. CASE n \in 1..Len(log)
    BY <2>1, <1>4 DEF LogInv
  <2>2. CASE n = Len(log) + 1
    BY <2>2, <1>2, <1>4
  <2>. QED
    BY <2>1, <2>2, <1>4
<1>7. \A n \in 1..Len(log') : Genuine(log[n])'
  <2>1. ASSUME NEW n \in 1..Len(log') PROVE Genuine(log[n])'
    <3>1. Genuine(log'[n])
      BY <1>6
    <3>. QED
      BY <3>1, <1>3 DEF Genuine
  <2>. QED
    BY <2>1
<1>8. \A q \in Ports : issued'[q] \in Commands /\ IssuedInTime(q)'
  BY <1>3 DEF LogInv, IssuedInTime
<1>. QED
  BY <1>6, <1>7, <1>8 DEF LogInv

LEMMA StepLogInv == SlotsInv /\ LogInv /\ [Next]_vars => LogInv'
<1> SUFFICES ASSUME SlotsInv, LogInv, [Next]_vars PROVE LogInv'
  OBVIOUS
<1>1. ASSUME NEW p \in Ports, IssueCommand(p) PROVE LogInv'
  BY <1>1, IssueLogInv
<1>2. ASSUME NEW p \in Ports, RecordCommand(p) \/ RecordOther(p) PROVE LogInv'
  BY <1>2, WriteLogInv
<1>3. CASE \/ \E p \in Ports : RestartReferee(p)
           \/ OpenFails \/ OpenLog \/ LoadKnown \/ LoadNew \/ SkipRecord \/ EndOfLog
           \/ IndexEvent \/ IndexOther \/ NextReferee \/ IndexDone \/ UNCHANGED vars
  <2>1. log' = log /\ issued' = issued
    BY <1>3 DEF RestartReferee, OpenFails, OpenLog, LoadKnown, LoadNew, SkipRecord,
                EndOfLog, IndexEvent, IndexOther, NextCommand, NextReferee, IndexDone,
                vars
  <2>. QED
    BY <2>1 DEF LogInv, Genuine, IssuedInTime
<1>. QED
  BY <1>1, <1>2, <1>3 DEF Next

LEMMA AlwaysLogInv ==
  Spec => [](SlotsInv /\ KeptInv /\ EventInv /\ FollowInv /\ LogInv)
<1>1. Init => LogInv
  BY EmptySeq DEF Init, LogInv, IssuedInTime, Commands
<1>. QED
  BY <1>1, InitSlotsInv, AlwaysFollowInv, StepLogInv, PTL DEF Spec

-----------------------------------------------------------------------------
TimesGrow(l) ==
  \A x, y \in 1..Len(l) : x < y => l[x].command_timestamp <= l[y].command_timestamp

Senders(s) == { p \in Ports : Key(p) = referee_ports[s] /\ issued[p] # <<>> }

(* Of a list with increasing counters and times that do not decrease, the  *)
(* events are ordered as the single pass over two lists expects.           *)
LEMMA FollowOrdered ==
  ASSUME NEW l \in Commands, NEW events \in Events, NEW n \in Nat, n <= Len(l),
         Follow(events, l, n), CountersIncrease(events),
         CountersIncrease(l), TimesGrow(l),
         NEW y \in 1..Len(events)
  PROVE  /\ events[y].stop_timestamp <= events[y].command_timestamp
         /\ \A x \in 1..(y - 1) : InTime(events[x], events[y])
<1> DEFINE f == events[y]
<1>1. /\ Len(l) \in Nat /\ DOMAIN l = 1..Len(l)
      /\ Len(events) \in Nat /\ DOMAIN events = 1..Len(events)
      /\ \A m \in 1..Len(l) : l[m] \in RefereeCommand
      /\ \A x \in 1..Len(events) : events[x] \in RefereeEvent
  BY ElementOfSeq DEF Commands, Events
<1>2. PICK b \in 1..n : EventOf(f, l, b)
  BY DEF Follow
<1>3. /\ \A m \in 1..Len(l) :
           l[m].command_timestamp \in Nat /\ l[m].command_counter \in Nat
      /\ f.command_timestamp \in Nat /\ f.stop_timestamp \in Nat
  BY <1>1, TimesAreNumbers
<1>4. b \in 1..Len(l) /\ f.command_timestamp = l[b].command_timestamp
  BY <1>1, <1>2 DEF EventOf
<1>5. \A m \in StopsIn(l, b) :
        /\ m \in 1..Len(l) /\ m < b
        /\ f.stop_timestamp = l[m].command_timestamp
        /\ l[m].command = "STOP"
        /\ \A x \in (m + 1)..(b - 1) : l[x].command \notin EventCommands
  BY <1>1, <1>2, <1>4 DEF StopsIn, EventOf, StopIs
<1>6. f.stop_timestamp # 0 => StopsIn(l, b) # {}
  BY <1>2 DEF EventOf, StopIs
<1> HIDE DEF f
<1>7. f.stop_timestamp <= f.command_timestamp
  <2>1. CASE f.stop_timestamp = 0
    BY <2>1, <1>3
  <2>2. CASE f.stop_timestamp # 0
    <3>1. PICK m \in StopsIn(l, b) : TRUE
      BY <2>2, <1>6
    <3>. QED
      BY <3>1, <1>4, <1>5 DEF TimesGrow
  <2>. QED
    BY <2>1, <2>2
<1>8. ASSUME NEW x \in 1..(y - 1) PROVE InTime(events[x], f)
  <2> DEFINE e == events[x]
  <2>1. x \in 1..Len(events) /\ x < y
    BY <1>1
  <2>2. PICK a \in 1..n : EventOf(e, l, a)
    BY <2>1 DEF Follow
  <2>3. /\ a \in 1..Len(l) /\ l[a].command \in EventCommands
        /\ e.command_timestamp = l[a].command_timestamp
        /\ e.command_counter = l[a].command_counter
        /\ f.command_counter = l[b].command_counter
    BY <1>1, <1>2, <2>2 DEF EventOf
  <2>4. e.command_counter < f.command_counter
    BY <2>1, <1>1 DEF CountersIncrease, f
  <2> HIDE DEF e
  <2>5. l[a].command_counter < l[b].command_counter
    BY <2>3, <2>4
  <2>6. a < b
    <3>1. b < a => l[b].command_counter < l[a].command_counter
      BY <2>3, <1>1, <1>4 DEF CountersIncrease
    <3>2. l[a].command_counter \in Nat /\ l[b].command_counter \in Nat
      BY <2>3, <1>3, <1>4
    <3>3. a \in Nat /\ b \in Nat
      BY <2>3, <1>1, <1>4
    <3>4. a # b
      BY <2>5, <3>2
    <3>5. ~(b < a)
      BY <2>5, <3>1, <3>2
    <3>. QED
      BY <3>3, <3>4, <3>5
  <2>7. e.command_timestamp <= f.command_timestamp
    BY <2>3, <2>6, <1>4 DEF TimesGrow
  <2>8. CASE f.stop_timestamp # 0
    <3>1. PICK m \in StopsIn(l, b) : TRUE
      BY <2>8, <1>6
    <3>2. m \in 1..Len(l) /\ m < b /\ l[m].command = "STOP"
      BY <1>5
    <3>3. ~(a \in (m + 1)..(b - 1)) /\ a # m
      BY <2>3, <3>2, <1>5 DEF EventCommands
    <3>4. a < m
      BY <2>6, <3>2, <3>3
    <3>. QED
      BY <2>3, <2>7, <3>2, <3>4, <1>5 DEF TimesGrow, InTime, e
  <2>. QED
    BY <2>7, <2>8 DEF InTime, e
<1>. QED
  BY <1>7, <1>8 DEF f

(* What a slot holds came from a sender of its port, or does not parse.    *)
LEMMA FromSender ==
  ASSUME SlotsInv, KeptInv, LogInv, pc \in {"load", "index", "done"},
         NEW s \in 1..Len(referee_commands),
         NEW x \in 1..Len(referee_commands[s])
  PROVE  \E n \in HeardIn(log, pos, referee_ports[s]) :
           /\ n \in 1..Len(log) /\ log[n] \in LogRecord
           /\ referee_commands[s][x] = log[n].data
           /\ \/ log[n].data = Unparsed
              \/ /\ log[n].port \in Senders(s)
                 /\ \E m \in 1..Len(issued[log[n].port]) :
                      log[n].data = issued[log[n].port][m]
<1>t. TypeOK
  BY DEF SlotsInv
<1>1. referee_commands[s] \in Commands
  BY <1>t, ListTypes
<1>2. referee_commands[s][x] \in Elements(referee_commands[s])
  BY <1>1 DEF Elements, Commands
<1>3. PICK n \in NewerIn(log, pos, referee_ports[s]) : referee_commands[s][x] = log[n].data
  BY <1>2 DEF KeptInv, Kept
<1>4. n \in HeardIn(log, pos, referee_ports[s])
  BY <1>3 DEF NewerIn
<1>5. n \in 1..Len(log)
  BY <1>4, <1>t DEF HeardIn, TypeOK
<1>6. log[n] \in LogRecord /\ Genuine(log[n]) /\ Key(log[n].port) = referee_ports[s]
  BY <1>4, <1>5 DEF LogInv, HeardIn
<1>7. log[n].port \in Ports /\ issued[log[n].port] \in Commands
  BY <1>6 DEF LogRecord, LogInv
<1>8. ASSUME log[n].data # Unparsed
      PROVE  /\ log[n].port \in Senders(s)
             /\ \E m \in 1..Len(issued[log[n].port]) :
                  log[n].data = issued[log[n].port][m]
  <2>1. PICK m \in 1..Len(issued[log[n].port]) : log[n].data = issued[log[n].port][m]
    BY <1>6, <1>8 DEF Genuine
  <2>2. issued[log[n].port] # <<>>
    BY <2>1, <1>7
  <2>. QED
    BY <2>1, <2>2, <1>6, <1>7 DEF Senders
<1>. QED
  BY <1>3, <1>4, <1>5, <1>6, <1>8

(* One sender whose counter was not set back: later commands of a slot     *)
(* were issued later.                                                      *)
LEMMA SlotTimes ==
  ASSUME SlotsInv, KeptInv, LogInv, pc \in {"load", "index", "done"},
         NEW s \in 1..Len(referee_commands),
         \A p \in Senders(s) : Senders(s) = {p} /\ CountersIncrease(issued[p])
  PROVE  TimesGrow(referee_commands[s])
<1> DEFINE l == referee_commands[s]
<1>t. TypeOK
  BY DEF SlotsInv
<1>1. /\ l \in Commands /\ DOMAIN l = 1..Len(l) /\ CountersIncrease(l)
      /\ \A x \in 1..Len(l) : l[x] \in RefereeCommand
  <2>1. l \in Commands
    BY <1>t, ListTypes
  <2>. QED
    BY <2>1, ElementOfSeq DEF KeptInv, Kept, Commands
<1>2. \A x \in 1..Len(l) : l[x].command_timestamp \in Nat /\ l[x].command_counter \in Nat
  BY <1>1, TimesAreNumbers
<1>3. \A x \in 1..Len(l) :
        \/ l[x] = Unparsed
        \/ \E p \in Senders(s) : \E m \in 1..Len(issued[p]) : l[x] = issued[p][m]
  BY FromSender
<1>4. Unparsed.command_timestamp = 0 /\ Unparsed.command_counter = 0
  BY DEF Unparsed
<1> HIDE DEF l
<1> SUFFICES ASSUME NEW x \in 1..Len(l), NEW y \in 1..Len(l), x < y
             PROVE  l[x].command_timestamp <= l[y].command_timestamp
  BY DEF TimesGrow, l
<1>5. l[x].command_counter < l[y].command_counter
  BY <1>1 DEF CountersIncrease
<1>6. CASE l[x] = Unparsed
  BY <1>2, <1>4, <1>6
<1>7. l[y] # Unparsed
  BY <1>2, <1>4, <1>5
<1>8. CASE l[x] # Unparsed
  <2>1. PICK p \in Senders(s) : \E a \in 1..Len(issued[p]) : l[x] = issued[p][a]
    BY <1>3, <1>8
  <2>2. PICK q \in Senders(s) : \E b \in 1..Len(issued[q]) : l[y] = issued[q][b]
    BY <1>3, <1>7
  <2>a. PICK a \in 1..Len(issued[p]) : l[x] = issued[p][a]
    BY <2>1
  <2>b. PICK b \in 1..Len(issued[q]) : l[y] = issued[q][b]
    BY <2>2
  <2>3. q = p /\ CountersIncrease(issued[p]) /\ p \in Ports
    BY <2>1, <2>2 DEF Senders
  <2>4. issued[p] \in Commands /\ IssuedInTime(p)
    BY <2>3 DEF LogInv
  <2>5. DOMAIN issued[p] = 1..Len(issued[p]) /\ b \in 1..Len(issued[p])
    BY <2>b, <2>3, <2>4 DEF Commands
  <2>6. issued[p][a].command_counter < issued[p][b].command_counter
    BY <2>a, <2>b, <2>3, <1>5
  <2>7. /\ issued[p][a].command_counter \in Nat
        /\ issued[p][b].command_counter \in Nat
    BY <1>2, <2>a, <2>b, <2>3
  <2>8. ~(b < a)
    BY <2>a, <2>3, <2>5, <2>6, <2>7 DEF CountersIncrease
  <2>9. a <= b
    BY <2>a, <2>5, <2>8
  <2>10. issued[p][a].command_timestamp <= issued[p][b].command_timestamp
    BY <2>a, <2>4, <2>5, <2>9 DEF IssuedInTime
  <2>. QED
    BY <2>a, <2>b, <2>3, <2>10
<1>. QED
  BY <1>6, <1>8

(* At any moment of indexing a referee's events follow its first commands. *)
LEMMA SomeFollow ==
  ASSUME SlotsInv, EventInv, FollowInv, pc \in {"index", "done"},
         NEW s \in 1..Len(referee_commands)
  PROVE  \E n \in 0..Len(referee_commands[s]) :
           Follow(referee_events[s], referee_commands[s], n)
<1>t. TypeOK
  BY DEF SlotsInv
<1>1. /\ i \in Nat /\ Len(referee_commands) \in Nat
      /\ Len(referee_events) = Len(referee_commands)
      /\ Len(referee_commands[s]) \in Nat
  <2>1. Len(referee_events) = Len(referee_commands)
    BY DEF SlotsInv, SlotsAligned
  <2>2. referee_commands[s] \in Commands
    BY <1>t, ListTypes
  <2>. QED
    BY <2>1, <2>2, <1>t, ListTypes DEF Commands
<1>2. CASE s <= i
  BY <1>1, <1>2 DEF FollowInv
<1>3. CASE s = i + 1
  <2>1. i < Len(referee_commands)
    BY <1>1, <1>3
  <2>. QED
    BY <2>1, <1>1, <1>3 DEF FollowInv, EventInv
<1>4. CASE i + 1 < s
  <2>1. referee_events[s] = <<>>
    BY <1>1, <1>4 DEF EventInv
  <2>. QED
    BY <2>1, <1>1, FollowNothing
<1>. QED
  BY <1>1, <1>2, <1>3, <1>4

(* Of a referee that has its port to itself and whose counter was not set  *)
(* back, the events never go back in time, however its packets were lost,  *)
(* repeated and reordered: each event is over when the next one's STOP is  *)
(* given, as EvaluateAutorefs presumes of both its lists.                  *)
THEOREM EventsStayOrdered == Spec => []EventsOrdered
<1>1. ASSUME SlotsInv, KeptInv, EventInv, FollowInv, LogInv PROVE EventsOrdered
  <2> SUFFICES ASSUME NEW s \in DOMAIN referee_events,
                      \A p \in Senders(s) : Senders(s) = {p} /\ CountersIncrease(issued[p])
               PROVE  \A y \in DOMAIN referee_events[s] :
                        /\ referee_events[s][y].stop_timestamp
                             <= referee_events[s][y].command_timestamp
                        /\ \A x \in 1..(y - 1) :
                             InTime(referee_events[s][x], referee_events[s][y])
    BY Zenon DEF EventsOrdered, Senders
  <2>t. TypeOK
    BY <1>1 DEF SlotsInv
  <2>1. CASE pc \in {"record", "load", "exit"}
    BY <2>1, <1>1 DEF SlotsInv, Untouched
  <2>2. CASE pc \in {"index", "done"}
    <3>1. s \in 1..Len(referee_commands) /\ s \in 1..Len(referee_events)
      BY <2>2, <2>t, <1>1, ListTypes DEF SlotsInv, SlotsAligned
    <3>2. /\ referee_commands[s] \in Commands /\ referee_events[s] \in Events
          /\ Len(referee_commands[s]) \in Nat
          /\ DOMAIN referee_events[s] = 1..Len(referee_events[s])
      BY <3>1, <2>t, ListTypes DEF Commands, Events
    <3>3. PICK n \in 0..Len(referee_commands[s]) :
            Follow(referee_events[s], referee_commands[s], n)
      BY <2>2, <3>1, <1>1, SomeFollow
    <3>4. CountersIncrease(referee_events[s]) /\ CountersIncrease(referee_commands[s])
      BY <2>2, <3>1, <1>1 DEF EventInv, Identified, KeptInv, Kept
    <3>5. TimesGrow(referee_commands[s])
      BY <2>2, <3>1, <1>1, SlotTimes
    <3>6. n \in Nat /\ n <= Len(referee_commands[s])
      BY <3>2, <3>3
    <3>. QED
      BY <3>2, <3>3, <3>4, <3>5, <3>6, FollowOrdered
  <2>. QED
    BY <2>1, <2>2, <2>t DEF TypeOK
<1>. QED
  BY <1>1, AlwaysLogInv, PTL

-----------------------------------------------------------------------------
(* A late, lost or repeated packet never costs the newest command of a     *)
(* referee that has its port to itself, whatever is lost, repeated and     *)
(* reordered, though LoadRefereeCommands drops whatever does not exceed    *)
(* the last command it kept.                                               *)
THEOREM NewestStays == Spec => []NewestLoaded
<1>1. ASSUME SlotsInv, KeptInv, LogInv PROVE NewestLoaded
  <2>t. TypeOK
    BY <1>1 DEF SlotsInv
  <2> SUFFICES ASSUME NEW p \in Ports, NEW n \in Heard(Key(p)),
                      \A m \in Heard(Key(p)) :
                        log[m].port = p /\ log[m].data # Unparsed,
                      CountersIncrease(issued[p]),
                      log[n].data = issued[p][Len(issued[p])]
               PROVE  /\ Key(p) \in DOMAIN referee_map
                      /\ referee_commands[Slot(p)][Len(referee_commands[Slot(p)])]
                           = log[n].data
    BY DEF NewestLoaded
  <2> DEFINE key == Key(p)
             l == referee_commands[Slot(p)]
             last == l[Len(l)]
             mine == issued[p]
  <2>1. n \in 1..pos /\ log[n].address = "referee" /\ Key(log[n].port) = key
    BY DEF Heard
  <2>2. pc \in {"load", "index", "done"}
    <3>1. pos \in Nat /\ pos # 0
      BY <2>1, <2>t, ListTypes
    <3>. QED
      BY <3>1, <2>t, <1>1 DEF KeptInv, TypeOK
  <2>3. key \in DOMAIN referee_map
    BY <2>1, <2>2, <1>1 DEF KeptInv
  <2>4. PICK s \in DOMAIN referee_ports : referee_ports[s] = key
    BY <2>2, <2>3, <1>1 DEF SlotsInv, SlotsAligned
  <2>5. s \in 1..Len(referee_commands) /\ Slot(p) = s
    <3>1. DOMAIN referee_ports = 1..Len(referee_commands) /\ referee_map[key] = s - 1
      BY <2>2, <2>4, <2>t, <1>1 DEF SlotsInv, SlotsAligned, TypeOK
    <3>. QED
      BY <2>4, <3>1 DEF Slot
  <2>6. Kept(l, log, pos, key) /\ HeardIn(log, pos, key) = Heard(key)
    BY <2>2, <2>4, <2>5, <1>1 DEF KeptInv, HeardIn, Heard
  <2>7. /\ l \in Commands /\ l # <<>>
        /\ Len(l) \in 1..Len(l)
        /\ log[n].data.command_counter <= last.command_counter
    <3>1. l \in Commands
      BY <2>5, <2>t, ListTypes
    <3>2. l # <<>> /\ log[n].data.command_counter <= last.command_counter
      BY <2>6 DEF Kept
    <3>. QED
      BY <3>1, <3>2 DEF Commands
  <2>8. PICK x \in HeardIn(log, pos, referee_ports[s]) :
          /\ last = log[x].data
          /\ \/ log[x].data = Unparsed
             \/ \E m \in 1..Len(issued[log[x].port]) :
                  log[x].data = issued[log[x].port][m]
    BY <2>2, <2>5, <2>7, <1>1, FromSender
  <2>9. log[x].port = p /\ log[x].data # Unparsed
    BY <2>4, <2>6, <2>8
  <2>10. PICK m \in 1..Len(mine) : last = mine[m]
    BY <2>8, <2>9
  <2>11. /\ mine \in Commands /\ Len(mine) \in 1..Len(mine)
         /\ DOMAIN mine = 1..Len(mine)
         /\ \A a \in 1..Len(mine) : mine[a].command_counter \in Nat
    <3>1. mine \in Commands
      BY <1>1 DEF LogInv
    <3>2. \A a \in 1..Len(mine) : mine[a] \in RefereeCommand
      BY <3>1, ElementOfSeq DEF Commands
    <3>. QED
      BY <3>1, <3>2, <2>10, TimesAreNumbers DEF Commands
  <2>12. mine[Len(mine)].command_counter <= mine[m].command_counter
    BY <2>7, <2>10
  <2>13. m = Len(mine)
    <3>1. ~(m < Len(mine))
      BY <2>10, <2>11, <2>12 DEF CountersIncrease
    <3>. QED
      BY <2>10, <2>11, <3>1
  <2>. QED
    BY <2>3, <2>10, <2>13
<1>. QED
  BY <1>1, AlwaysLogInv, PTL
=============================================================================
