----------------------------- MODULE RefereeLog -----------------------------
(***************************************************************************)
(* From the referees' packets to the evaluator's lists: the referees issue *)
(* commands, the network drops, repeats and reorders the packets that      *)
(* carry them, the logger writes what arrives, and LoadRefereeCommands and *)
(* IndexRefereeEvents turn the log into one list of commands and one list  *)
(* of events per referee, the human refbox first.                          *)
(*                                                                         *)
(* A record of the log is whole here: the reader stops at a torn one.      *)
(***************************************************************************)
EXTENDS RefereeEvents

CONSTANTS
  Ports,        (* the ports that referees send to (an int in the log)     *)
  RefboxPort,   (* kRefboxPort, the human referee's                        *)
  PortModulus,  (* uint16_t keys of referee_map: 2^16                      *)
  Kinds,        (* the commands that referees issue                        *)
  Groups,       (* the groups other packets were logged from               *)
  MaxIssued,    (* bound: commands issued by one referee                   *)
  MaxLog        (* bound: records in the log                               *)

ASSUME PortsAssumption ==
  /\ Ports \subseteq Nat
  /\ PortModulus \in Nat \ {0}
  /\ RefboxPort \in Ports /\ RefboxPort < PortModulus
  /\ Kinds \subseteq Command
  /\ Groups \subseteq {"referee", "vision", "other"}
  /\ MaxIssued \in Nat
  /\ MaxLog \in Nat

VARIABLES
  issued,   (* the commands each referee has issued                        *)
  counter,  (* the counter of its next command                             *)
  log,      (* the log file: a sequence of UDPMessageWrapper               *)
  pos,      (* records of the log that have been read                      *)
  referee_map, referee_ports, referee_commands, referee_events,
  i, j,     (* IndexRefereeEvents: referee and command, 0-based            *)
  t_last_stop,
  pc

world == <<issued, counter, log>>
tables == <<referee_map, referee_ports, referee_commands>>
index == <<referee_events, i, j, t_last_stop>>
vars == <<world, pos, tables, index, pc>>

(* The key of referee_map, and in the kernel the socket: 16 bits.          *)
Key(port) == port % PortModulus

(* Where a packet came from, as far as the evaluator tells addresses apart:*)
(* kRefereeMulticast, kVisionMulticast, any other group that was logged.   *)
Address == {"referee", "vision", "other"}

(* What parsing yields when the payload is no SSL_Referee message: the     *)
(* result of ParseFromString is not looked at and the fields that were not *)
(* found have their defaults.                                              *)
Unparsed == [command |-> "HALT", command_counter |-> 0, command_timestamp |-> 0]

LogRecord == [address: Address, port: Ports, data: RefereeCommand]

Init ==
  /\ issued = [p \in Ports |-> <<>>]
  /\ counter = [p \in Ports |-> 0]
  /\ log = <<>>
  /\ pos = 0
  /\ referee_map = [key \in {} |-> 0]
  /\ referee_ports = <<>>
  /\ referee_commands = <<>>
  /\ referee_events = <<>>
  /\ i = 0
  /\ j = 0
  /\ t_last_stop = 0
  /\ pc = "record"

-----------------------------------------------------------------------------
(* The match.                                                              *)

(* command_counter is "the number of commands issued since startup (mod    *)
(* 2^32)"; a referee's own clock does not go back.                         *)
IssueCommand(p) ==
  /\ pc = "record"
  /\ Len(issued[p]) < MaxIssued
  /\ \E c \in Kinds, t \in Time \ {0} :
       /\ issued[p] # <<>> => issued[p][Len(issued[p])].command_timestamp <= t
       /\ issued' = [issued EXCEPT ![p] =
            Append(@, [command |-> c, command_counter |-> counter[p],
                       command_timestamp |-> t])]
  /\ counter' = [counter EXCEPT ![p] = (@ + 1) % CounterModulus]
  /\ UNCHANGED <<log, pos, tables, index, pc>>

(* The referee's program is started again.                                 *)
RestartReferee(p) ==
  /\ pc = "record"
  /\ counter[p] # 0
  /\ counter' = [counter EXCEPT ![p] = 0]
  /\ UNCHANGED <<issued, log, pos, tables, index, pc>>

WriteRecord(address, port, data) ==
  /\ pc = "record"
  /\ Len(log) < MaxLog
  /\ log' = Append(log, [address |-> address, port |-> port, data |-> data])
  /\ UNCHANGED <<issued, counter, pos, tables, index, pc>>

(* A packet of p arrives, however often it was sent and however late.      *)
RecordCommand(p) ==
  \E n \in DOMAIN issued[p] : WriteRecord("referee", p, issued[p][n])

(* Vision, another group, or foreign bytes on a referee's address.         *)
RecordOther(p) ==
  \E address \in Groups : WriteRecord(address, p, Unparsed)

-----------------------------------------------------------------------------
(* LoadRefereeCommands                                                     *)

OpenFails ==
  /\ pc = "record"
  /\ pc' = "exit"
  /\ UNCHANGED <<world, pos, tables, index>>

(* The refbox gets the first slot before anything is read.                 *)
OpenLog ==
  /\ pc = "record"
  /\ referee_map' = [key \in {Key(RefboxPort)} |-> 0]
  /\ referee_commands' = << <<>> >>
  /\ referee_events' = << <<>> >>
  /\ referee_ports' = Append(referee_ports, Key(RefboxPort))
  /\ pc' = "load"
  /\ UNCHANGED <<world, pos, i, j, t_last_stop>>

Message == log[pos + 1]

(* Mutants of the next one: a repeated packet counts as new; every packet  *)
(* does; only the next command does.                                       *)
IsNotOlder(referee, c) ==
  \/ referee = <<>>
  \/ referee[Len(referee)].command_counter <= c.command_counter

AlwaysNewer(referee, c) == TRUE

IsNext(referee, c) ==
  \/ referee = <<>>
  \/ referee[Len(referee)].command_counter + 1 = c.command_counter

IsNewer(referee, c) ==
  \/ referee = <<>>
  \/ referee[Len(referee)].command_counter < c.command_counter

Slot(port) == referee_map[Key(port)] + 1

(* The record is a referee's and the referee has its slot.                 *)
LoadKnown ==
  /\ pc = "load"
  /\ pos < Len(log)
  /\ Message.address = "referee"
  /\ Key(Message.port) \in DOMAIN referee_map
  /\ LET slot == Slot(Message.port)
     IN  referee_commands' =
           IF IsNewer(referee_commands[slot], Message.data)
             THEN [referee_commands EXCEPT ![slot] = Append(@, Message.data)]
             ELSE referee_commands
  /\ pos' = pos + 1
  /\ UNCHANGED <<world, referee_map, referee_ports, index, pc>>

(* Mutant of the next one: the size is taken after the new list is pushed. *)
SizeAfterPush == Len(referee_commands) + 1

NewIndex == Len(referee_commands)

(* "This referee has not been seen before, allocate space for it."         *)
LoadNew ==
  /\ pc = "load"
  /\ pos < Len(log)
  /\ Message.address = "referee"
  /\ LET key == Key(Message.port)
     IN  /\ key \notin DOMAIN referee_map
         /\ referee_map' =
              [x \in DOMAIN referee_map \cup {key} |->
                 IF x = key THEN NewIndex ELSE referee_map[x]]
         /\ referee_ports' = Append(referee_ports, key)
  /\ referee_commands' = Append(referee_commands, <<Message.data>>)
  /\ referee_events' = Append(referee_events, <<>>)
  /\ pos' = pos + 1
  /\ UNCHANGED <<world, i, j, t_last_stop, pc>>

SkipRecord ==
  /\ pc = "load"
  /\ pos < Len(log)
  /\ Message.address # "referee"
  /\ pos' = pos + 1
  /\ UNCHANGED <<world, tables, index, pc>>

EndOfLog ==
  /\ pc = "load"
  /\ pos = Len(log)
  /\ pc' = "index"
  /\ UNCHANGED <<world, pos, tables, index>>

-----------------------------------------------------------------------------
(* IndexRefereeEvents: the event list of referee i grows while j walks its *)
(* commands; t_last_stop is the time of a STOP no event has used, or 0.    *)

Indexing ==
  /\ pc = "index"
  /\ i < Len(referee_commands)
  /\ j < Len(referee_commands[i + 1])

IndexedCommand == referee_commands[i + 1][j + 1]

(* Mutants of the next one: an event does not use the STOP up; any command *)
(* does.                                                                   *)
StopKept(c) == IF c.command = "STOP" THEN c.command_timestamp ELSE t_last_stop

StopForgotten(c) == IF c.command = "STOP" THEN c.command_timestamp ELSE 0

StopAfter(c) ==
  CASE c.command = "STOP" -> c.command_timestamp
    [] c.command \in EventCommands -> 0
    [] OTHER -> t_last_stop

NextCommand ==
  /\ t_last_stop' = StopAfter(IndexedCommand)
  /\ j' = j + 1
  /\ UNCHANGED <<world, pos, tables, i, pc>>

IndexEvent ==
  /\ Indexing
  /\ IndexedCommand.command \in EventCommands
  /\ referee_events' = [referee_events EXCEPT ![i + 1] =
       Append(@, [stop_timestamp    |-> t_last_stop,
                  command_timestamp |-> IndexedCommand.command_timestamp,
                  command_counter   |-> IndexedCommand.command_counter,
                  command           |-> IndexedCommand.command])]
  /\ NextCommand

(* A STOP, or a command that is ignored.                                   *)
IndexOther ==
  /\ Indexing
  /\ IndexedCommand.command \notin EventCommands
  /\ UNCHANGED referee_events
  /\ NextCommand

NextReferee ==
  /\ pc = "index"
  /\ i < Len(referee_commands)
  /\ j = Len(referee_commands[i + 1])
  /\ i' = i + 1
  /\ j' = 0
  /\ t_last_stop' = 0
  /\ UNCHANGED <<world, pos, tables, referee_events, pc>>

IndexDone ==
  /\ pc = "index"
  /\ i = Len(referee_commands)
  /\ pc' = "done"
  /\ UNCHANGED <<world, pos, tables, index>>

Next ==
  \/ \E p \in Ports : \/ IssueCommand(p) \/ RestartReferee(p)
                      \/ RecordCommand(p) \/ RecordOther(p)
  \/ OpenFails \/ OpenLog
  \/ LoadKnown \/ LoadNew \/ SkipRecord \/ EndOfLog
  \/ IndexEvent \/ IndexOther \/ NextReferee \/ IndexDone

Spec == Init /\ [][Next]_vars
-----------------------------------------------------------------------------
(* Types of the lists, the map and the indexes into them.                  *)
TypeOK ==
  /\ issued \in [Ports -> Seq(RefereeCommand)]
  /\ counter \in [Ports -> Counter]
  /\ log \in Seq(LogRecord)
  /\ pos \in 0..Len(log)
  /\ \A key \in DOMAIN referee_map : referee_map[key] \in Nat
  /\ referee_ports \in Seq(0..(PortModulus - 1))
  /\ referee_commands \in Seq(Seq(RefereeCommand))
  /\ referee_events \in Seq(Seq(RefereeEvent))
  /\ i \in 0..Len(referee_commands)
  /\ j \in Nat
  /\ t_last_stop \in Time
  /\ pc \in {"record", "load", "index", "done", "exit"}

(* Commands, events and ports are indexed alike, and referee_map inverts   *)
(* referee_ports: one slot per 16-bit key that was heard, none without a   *)
(* key, the refbox's first ("to ensure that it will correspond to the      *)
(* first entry").  Ports with the same low 16 bits have one key, and their *)
(* referees one slot.                                                      *)
SlotsAligned ==
  pc \in {"load", "index", "done"} =>
    /\ Len(referee_events) = Len(referee_commands)
    /\ Len(referee_ports) = Len(referee_commands)
    /\ DOMAIN referee_map = { referee_ports[s] : s \in DOMAIN referee_ports }
    /\ \A s \in DOMAIN referee_ports : referee_map[referee_ports[s]] = s - 1
    /\ referee_ports # <<>> /\ referee_ports[1] = RefboxPort

(* Positions of the records read so far that belong to a referee.          *)
Heard(key) ==
  { n \in 1..pos : log[n].address = "referee" /\ Key(log[n].port) = key }

(* Those whose counter exceeds all that was heard from it before.          *)
Newer(key) ==
  { n \in Heard(key) : \A m \in Heard(key) :
      m < n => log[m].data.command_counter < log[n].data.command_counter }

(* What is kept of a log with repeated, late and lost packets: of every    *)
(* referee exactly the commands that were newer than all before, in order. *)
(* The code compares with the last one kept only.                          *)
KeepsTheNewer ==
  \A s \in DOMAIN referee_commands :
    LET referee == referee_commands[s]
        newer == Newer(referee_ports[s])
    IN  /\ CountersIncrease(referee)
        /\ { referee[n] : n \in DOMAIN referee } = { log[n].data : n \in newer }

(* A late, lost or repeated packet never costs a newer command: unless the *)
(* counter was set back in between, the newest command of a referee that   *)
(* has its port to itself is kept whenever its packet is in the log.       *)
NewestLoaded ==
  \A p \in Ports : \A n \in Heard(Key(p)) :
    ( /\ \A m \in Heard(Key(p)) : log[m].port = p /\ log[m].data # Unparsed
      /\ CountersIncrease(issued[p])
      /\ log[n].data = issued[p][Len(issued[p])] )
    => /\ Key(p) \in DOMAIN referee_map
       /\ LET referee == referee_commands[Slot(p)]
          IN  referee[Len(referee)] = log[n].data

(* The lists handed to the comparison: an event carries a command of the   *)
(* event kinds, and its counter identifies it within the list.             *)
EventsIdentified ==
  \A s \in DOMAIN referee_events : referee_events[s] \in EventLists

(* The STOP before command n that no other event command has used up, if   *)
(* there is one.                                                           *)
StopsOf(s, n) ==
  { m \in 1..(n - 1) :
      /\ referee_commands[s][m].command = "STOP"
      /\ \A x \in (m + 1)..(n - 1) :
           referee_commands[s][x].command \notin EventCommands \cup {"STOP"} }

(* IndexRefereeEvents against a definition without a running time: every   *)
(* event command that has a STOP makes an event with that STOP's time, and *)
(* no other command makes one.  For an event command without a STOP it     *)
(* leaves open what the comment of RefereeEvent says: see                  *)
(* EventsFollowAStop.                                                      *)
EventsFollowCommands ==
  pc = "done" =>
    \A s \in DOMAIN referee_commands :
      LET referee == referee_commands[s]
          found == { n \in DOMAIN referee : referee[n].command \in EventCommands }
          same(e, n) ==
            /\ e.command = referee[n].command
            /\ e.command_counter = referee[n].command_counter
            /\ e.command_timestamp = referee[n].command_timestamp
            /\ \A m \in StopsOf(s, n) :
                 e.stop_timestamp = referee[m].command_timestamp
      IN  /\ \A n \in found : StopsOf(s, n) # {} =>
               \E x \in DOMAIN referee_events[s] : same(referee_events[s][x], n)
          /\ \A x \in DOMAIN referee_events[s] : \E n \in found :
               same(referee_events[s][x], n)

(* Events of one referee follow each other in time, each from its STOP to  *)
(* its command, unless its counter has been set back or several senders    *)
(* share the port: what the single pass over two lists relies on.          *)
InTime(e, f) ==
  /\ e.command_timestamp <= f.command_timestamp
  /\ f.stop_timestamp = 0 \/ e.command_timestamp <= f.stop_timestamp

EventsOrdered ==
  \A s \in DOMAIN referee_events :
    LET senders == { p \in Ports : Key(p) = referee_ports[s] /\ issued[p] # <<>> }
    IN  (\A p \in senders : senders = {p} /\ CountersIncrease(issued[p])) =>
          \A n \in DOMAIN referee_events[s] :
            LET e == referee_events[s][n]
            IN  /\ e.stop_timestamp <= e.command_timestamp
                /\ \A m \in 1..(n - 1) : InTime(referee_events[s][m], e)

-----------------------------------------------------------------------------
(* What the source's comment says and the code does not keep.              *)

(* 'An "event" is a stop command, followed by one of the following         *)
(* commands': the command of every event comes after a STOP of the same    *)
(* referee.                                                                *)
EventsFollowAStop ==
  \A s \in DOMAIN referee_events : \A x \in DOMAIN referee_events[s] :
    \E m, n \in DOMAIN referee_commands[s] :
      /\ m < n
      /\ referee_commands[s][m].command = "STOP"
      /\ referee_commands[s][n].command_counter = referee_events[s][x].command_counter

=============================================================================
