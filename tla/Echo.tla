-------------------------------- MODULE Echo --------------------------------
(***************************************************************************)
(* The test program of netraw.cpp: EchoServer, EchoClient and the Net::UDP *)
(* sockets they use, over a network that loses, repeats and reorders.      *)
(*                                                                         *)
(* The lines of the client's input are numbered; a datagram is the number  *)
(* of the line it carries, in both directions.                             *)
(***************************************************************************)
EXTENDS Integers, Sequences, FiniteSets

CONSTANTS
  NumLines,
  SocketBuffer,  (* bound: datagrams that wait in one socket               *)
  MaxRepeated    (* bound: datagrams the network repeats                   *)

ASSUME EchoAssumption ==
  NumLines \in Nat /\ SocketBuffer \in Nat \ {0} /\ MaxRepeated \in Nat

Node == {"server", "client"}
Lines == 1..NumLines

VARIABLES
  counters,  (* each socket's sent_packets and recv_packets                *)
  queue,     (* the datagrams that wait in each socket                     *)
  inFlight,  (* the pairs of a receiver and a datagram on their way        *)
  repeated,  (* how many datagrams the network delivered and kept          *)
  server,    (* "wait", "recv", "send", or "unopened"                      *)
  echo,      (* the server's msg                                           *)
  client,    (* the client's next step                                     *)
  line,      (* how many lines it has read                                 *)
  msg,       (* its msg                                                    *)
  replies,   (* what it has printed                                        *)
  silent     (* the lines after which recv found nothing                   *)

netVars == <<counters, queue, inFlight, repeated>>
serverVars == <<server, echo>>
clientVars == <<client, line, msg, replies, silent>>
vars == <<netVars, serverVars, clientVars>>

Closed == [sent_packets |-> 0, recv_packets |-> 0]

Init ==
  /\ counters = [n \in Node |-> Closed]
  /\ queue = [n \in Node |-> <<>>]
  /\ inFlight = {}
  /\ repeated = 0
  /\ server = "unopened"
  /\ echo = 0
  /\ client = "fgets"
  /\ line = 0
  /\ msg = 0
  /\ replies = <<>>
  /\ silent = {}
-----------------------------------------------------------------------------
(* Net::UDP.                                                               *)

(* send: sendto may fail, and counts only if it does not.  Two equal       *)
(* datagrams under way count as one, as if the other was lost.             *)
Send(n, to, m) ==
  \/ /\ inFlight' = inFlight \cup {<<to, m>>}
     /\ counters' = [counters EXCEPT ![n].sent_packets = @ + 1]
  \/ UNCHANGED <<inFlight, counters>>

(* Mutant of the next one: the datagram stays in the socket.               *)
RecvPeeks(n) ==
  /\ queue[n] # <<>>
  /\ counters' = [counters EXCEPT ![n].recv_packets = @ + 1]
  /\ UNCHANGED queue

(* recv that finds a datagram.                                             *)
Recv(n) ==
  /\ queue[n] # <<>>
  /\ queue' = [queue EXCEPT ![n] = Tail(@)]
  /\ counters' = [counters EXCEPT ![n].recv_packets = @ + 1]

(* Mutant of the next one: the socket is left blocking.                    *)
RecvBlocks(n) == FALSE

(* recv that returns -1: the sockets are not blocking.                     *)
RecvFails(n) ==
  /\ queue[n] = <<>>
  /\ UNCHANGED <<queue, counters>>

(* close resets the counters.                                              *)
Close(n) ==
  /\ counters' = [counters EXCEPT ![n] = Closed]
  /\ queue' = [queue EXCEPT ![n] = <<>>]
-----------------------------------------------------------------------------
(* EchoServer.  It may be started at any time; until then, and if its bind *)
(* fails, nobody is at the port.                                           *)
ServerOpen ==
  /\ server = "unopened"
  /\ server' = "wait"
  /\ UNCHANGED <<netVars, echo, clientVars>>

ServerWait ==
  /\ server = "wait"
  /\ queue["server"] # <<>>
  /\ server' = "recv"
  /\ UNCHANGED <<netVars, echo, clientVars>>

ServerRecv ==
  /\ server = "recv"
  /\ Recv("server")
  /\ echo' = Head(queue["server"])
  /\ server' = "send"
  /\ UNCHANGED <<inFlight, repeated, clientVars>>

ServerSend ==
  /\ server = "send"
  /\ Send("server", "client", echo)
  /\ server' = "wait"
  /\ UNCHANGED <<queue, repeated, echo, clientVars>>
-----------------------------------------------------------------------------
(* EchoClient: its socket is opened before the first line.                 *)

ReadLine ==
  /\ client = "fgets"
  /\ line < NumLines
  /\ line' = line + 1
  /\ msg' = line + 1
  /\ client' = "send"
  /\ UNCHANGED <<netVars, serverVars, replies, silent>>

EndOfInput ==
  /\ client = "fgets"
  /\ line = NumLines
  /\ Close("client")
  /\ client' = "done"
  /\ UNCHANGED <<inFlight, repeated, serverVars, line, msg, replies, silent>>

ClientSend ==
  /\ client = "send"
  /\ Send("client", "server", msg)
  /\ client' = "wait"
  /\ UNCHANGED <<queue, repeated, serverVars, line, msg, replies, silent>>

(* wait(1000) is over when there is a datagram, or after a second: nobody  *)
(* looks at which.                                                         *)
ClientWait ==
  /\ client = "wait"
  /\ client' = "recv"
  /\ UNCHANGED <<netVars, serverVars, line, msg, replies, silent>>

ClientRecv ==
  /\ client = "recv"
  /\ Recv("client")
  /\ msg' = Head(queue["client"])
  /\ client' = "print"
  /\ UNCHANGED <<inFlight, repeated, serverVars, line, replies, silent>>

(* Mutant of the next one: the line is sent once more.                     *)
ResendsOnTimeout ==
  /\ client = "recv"
  /\ RecvFails("client")
  /\ client' = "send"
  /\ UNCHANGED <<inFlight, repeated, serverVars, line, msg, replies, silent>>

(* Nothing came: msg still holds the line, and msg[-1] = 0 writes before   *)
(* the array, which may stop the process.                                  *)
ClientNoReply ==
  /\ client = "recv"
  /\ RecvFails("client")
  /\ silent' = silent \cup {line}
  /\ client' \in {"print", "crashed"}
  /\ UNCHANGED <<inFlight, repeated, serverVars, line, msg, replies>>

PrintReply ==
  /\ client = "print"
  /\ replies' = Append(replies, msg)
  /\ client' = "fgets"
  /\ UNCHANGED <<netVars, serverVars, line, msg, silent>>
-----------------------------------------------------------------------------
(* The network (external).                                                 *)

Listens(n) ==
  IF n = "server" THEN server # "unopened" ELSE client \notin {"done", "crashed"}

Deliver ==
  \E p \in inFlight :
    /\ Listens(p[1])
    /\ Len(queue[p[1]]) < SocketBuffer
    /\ queue' = [queue EXCEPT ![p[1]] = Append(@, p[2])]
    /\ \/ /\ inFlight' = inFlight \ {p}
          /\ UNCHANGED repeated
       \/ /\ repeated < MaxRepeated
          /\ repeated' = repeated + 1
          /\ UNCHANGED inFlight
    /\ UNCHANGED <<counters, serverVars, clientVars>>

Lose ==
  /\ \E p \in inFlight : inFlight' = inFlight \ {p}
  /\ UNCHANGED <<counters, queue, repeated, serverVars, clientVars>>

ServerNext == ServerOpen \/ ServerWait \/ ServerRecv \/ ServerSend
ClientNext ==
  \/ ReadLine \/ EndOfInput \/ ClientSend \/ ClientWait
  \/ ClientRecv \/ ClientNoReply \/ PrintReply

Next == ServerNext \/ ClientNext \/ Deliver \/ Lose

Spec == Init /\ [][Next]_vars

(* The client's waits end by the clock; nothing is assumed of the server   *)
(* or the network.                                                         *)
FairSpec == Spec /\ WF_vars(ClientNext)
-----------------------------------------------------------------------------
(* Types of the variables.                                                 *)
TypeOK ==
  /\ counters \in [Node -> [sent_packets: Nat, recv_packets: Nat]]
  /\ \A n \in Node : Len(queue[n]) <= SocketBuffer
  /\ inFlight \subseteq Node \X Lines
  /\ repeated \in 0..MaxRepeated
  /\ server \in {"unopened", "wait", "recv", "send"}
  /\ echo \in 0..NumLines
  /\ client \in {"fgets", "send", "wait", "recv", "print", "done", "crashed"}
  /\ line \in 0..NumLines
  /\ msg \in 0..line
  /\ replies \in Seq(Lines)
  /\ silent \subseteq 1..line

(* The client pairs lines with replies by their order alone.  A reply that *)
(* belongs to an earlier line is printed only after a line that had no     *)
(* reply in time, or if the network repeats datagrams; none is printed     *)
(* before its line.                                                        *)
StaleReplyHasCause ==
  \A i \in DOMAIN replies :
    /\ replies[i] <= i
    /\ replies[i] = i \/ repeated > 0 \/ \E j \in silent : j < i

(* Every datagram is accounted for.  Those under way in either direction   *)
(* are at most one more than the client's unanswered lines and what the    *)
(* network repeats, so that is how far it can fall behind; and each socket *)
(* counts no more than the other counted and the network repeated.         *)
Underway ==
  Cardinality(inFlight) + Len(queue["server"]) + Len(queue["client"])
    + (IF server = "send" THEN 1 ELSE 0)
LateRepliesBounded ==
  /\ TypeOK
  /\ Underway <= Cardinality(silent) + repeated
                 + (IF client \in {"wait", "recv"} THEN 1 ELSE 0)
  /\ client # "done" =>
       LET c == counters["client"]
           s == counters["server"]
       IN  /\ s.recv_packets <= c.sent_packets + repeated
           /\ s.sent_packets <= s.recv_packets
           /\ c.recv_packets <= s.sent_packets + repeated

(* The client never waits for good, though every datagram may be lost and  *)
(* no server may run: it gets to the end of its input, unless the write to *)
(* msg[-1] after a line that had no reply in time stops it before.         *)
ClientEnds == <>(client = "done" \/ (client = "crashed" /\ line \in silent))
=============================================================================
