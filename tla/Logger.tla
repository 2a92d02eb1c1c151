------------------------------- MODULE Logger -------------------------------
(***************************************************************************)
(* The logger: the main thread opens the log, starts one logger thread per *)
(* stream, waits for SIGINT, deletes the loggers and closes the log.  A    *)
(* logger thread opens its socket, joins its group and writes each         *)
(* datagram it receives as two fwrites, a size and a payload, under        *)
(* logging_mutex_.                                                         *)
(*                                                                         *)
(* Streams are numbered in the order their loggers are constructed: 1 is   *)
(* SSL-Vision, 2 the refbox, the rest come from the command line.          *)
(***************************************************************************)
EXTENDS Integers, Sequences, FiniteSets

CONSTANTS
  NumStreams,
  Group,        (* the address of each stream                              *)
  Port,         (* its port                                                *)
  Multicast,    (* the addresses that are multicast groups                 *)
  Empty,        (* the datagrams that carry no bytes, by arrival number    *)
  OSFailures,   (* whether calls to the system may fail                  *)
  StartTime,    (* the wall clock when the logger starts                   *)
  ClockSteps,   (* by how much it may differ from one reading to the next  *)
  MaxSent,      (* bound: datagrams sent to one stream                     *)
  SocketBuffer  (* bound: datagrams that wait in one socket                *)

Streams == 1..NumStreams

ASSUME StreamsAssumption ==
  /\ NumStreams \in Nat
  /\ DOMAIN Group = Streams
  /\ DOMAIN Port = Streams
  /\ OSFailures \in BOOLEAN
  /\ StartTime \in Nat \ {0}
  /\ ClockSteps \subseteq Int
  /\ MaxSent \in Nat
  /\ SocketBuffer \in Nat

VARIABLES
  run_,
  log_file_,      (* the FILE*: "unopened", "open", "closed" or "null"     *)
  file,           (* what has been written to it: size and data chunks     *)
  logging_mutex_, (* the stream whose thread holds it, or 0                *)
  main,           (* the main thread's next step                           *)
  spawned,        (* loggers constructed                                   *)
  deleted,        (* loggers deleted                                       *)
  thread,         (* each logger thread's next step                        *)
  socket,         (* "closed"; "bound" or not to its port; then "joined"   *)
                  (* or, if not bound, "deaf"                              *)
  queue,          (* datagrams waiting in each socket                      *)
  arrived,        (* how many ever got into each socket                    *)
  sent,           (* how many were sent to each stream                     *)
  held,           (* the datagram and time each thread is about to write   *)
  clock,          (* CLOCK_REALTIME at its last reading                    *)
  setBack         (* history: by how much it was set back in all           *)

network == <<socket, queue, arrived, sent>>
mainVars == <<main, spawned, deleted>>
fileVars == <<log_file_, file>>
time == <<clock, setBack>>
vars == <<run_, fileVars, logging_mutex_, mainVars, thread, network, held, time>>

(* A datagram: the stream it was sent to and its arrival number in the     *)
(* socket it was read from.                                                *)
Datagram == [stream: Streams, n: Nat]
NoDatagram == [stream |-> 0, n |-> 0]
NotHeld == [datagram |-> NoDatagram, timestamp |-> 0, setBack |-> 0]

(* Both writes of the record that stream t's thread makes of r; setBack is *)
(* history, not a part of the record.                                      *)
Chunk(kind, t, r) ==
  [kind |-> kind, logger |-> t, datagram |-> r.datagram,
   timestamp |-> r.timestamp, setBack |-> r.setBack]

Running == main \notin {"exited", "crashed"}

Init ==
  /\ run_ = TRUE
  /\ log_file_ = "unopened"
  /\ file = <<>>
  /\ logging_mutex_ = 0
  /\ main = "fopen"
  /\ spawned = 0
  /\ deleted = 0
  /\ thread = [t \in Streams |-> "none"]
  /\ socket = [t \in Streams |-> "closed"]
  /\ queue = [t \in Streams |-> <<>>]
  /\ arrived = [t \in Streams |-> 0]
  /\ sent = [t \in Streams |-> 0]
  /\ held = [t \in Streams |-> NotHeld]
  /\ clock = StartTime
  /\ setBack = 0

-----------------------------------------------------------------------------
(* The main thread.                                                        *)

OpenLog ==
  /\ main = "fopen"
  /\ log_file_' \in {"open"} \cup (IF OSFailures THEN {"null"} ELSE {})
  /\ main' = "spawn"
  /\ UNCHANGED <<run_, file, logging_mutex_, spawned, deleted, thread, network,
                 held, time>>

(* new ProtobufLogger: nobody looks at what pthread_create returns.        *)
SpawnLogger ==
  /\ main = "spawn"
  /\ spawned < NumStreams
  /\ spawned' = spawned + 1
  /\ \E start \in {"open"} \cup (IF OSFailures THEN {"ended"} ELSE {}) :
       thread' = [thread EXCEPT ![spawned + 1] = start]
  /\ UNCHANGED <<run_, fileVars, logging_mutex_, main, deleted, network, held, time>>

AllSpawned ==
  /\ main = "spawn"
  /\ spawned = NumStreams
  /\ main' = "loop"
  /\ UNCHANGED <<run_, fileVars, logging_mutex_, spawned, deleted, thread,
                 network, held, time>>

(* Mutant of the next one: another condition ends the wait.                *)
LeaveIdleLoop ==
  /\ main = "loop"
  /\ ~run_ \/ \A t \in Streams : thread[t] = "recv"
  /\ main' = "delete"
  /\ UNCHANGED <<run_, fileVars, logging_mutex_, spawned, deleted, thread,
                 network, held, time>>

(* while (run_) usleep(kSleepPeriod)                                       *)
LeaveLoop ==
  /\ main = "loop"
  /\ ~run_
  /\ main' = "delete"
  /\ UNCHANGED <<run_, fileVars, logging_mutex_, spawned, deleted, thread,
                 network, held, time>>

(* Mutant of the next one: the join that is commented out.                 *)
DeleteJoins == deleted < NumStreams /\ thread[deleted + 1] = "ended"

MayDelete == deleted < NumStreams

(* ~ProtobufLogger: the join is commented out.                             *)
DeleteLogger ==
  /\ main = "delete"
  /\ MayDelete
  /\ deleted' = deleted + 1
  /\ UNCHANGED <<run_, fileVars, logging_mutex_, main, spawned, thread, network,
                 held, time>>

(* fclose(log_file_): without logging_mutex_, and fatal on NULL.           *)
CloseLog ==
  /\ main = "delete"
  /\ deleted = NumStreams
  /\ IF log_file_ = "null"
       THEN main' = "crashed" /\ UNCHANGED log_file_
       ELSE main' = "return" /\ log_file_' = "closed"
  /\ UNCHANGED <<run_, file, logging_mutex_, spawned, deleted, thread, network,
                 held, time>>

(* Returning from main ends the process and every thread in it.            *)
Return ==
  /\ main = "return"
  /\ main' = "exited"
  /\ UNCHANGED <<run_, fileVars, logging_mutex_, spawned, deleted, thread,
                 network, held, time>>

(* SIGINT, in whatever thread; its handler is installed before fopen.      *)
SigIntHandler ==
  /\ Running
  /\ run_' = FALSE
  /\ UNCHANGED <<fileVars, logging_mutex_, mainVars, thread, network, held, time>>

-----------------------------------------------------------------------------
(* A logger thread.                                                        *)

Goto(t, from, to) ==
  /\ Running
  /\ thread[t] = from
  /\ thread' = [thread EXCEPT ![t] = to]

(* Net::UDP::open fails when there is no socket; it does not look at what  *)
(* bind returns.                                                           *)
OpenSocket(t) ==
  /\ \/ /\ Goto(t, "open", "join")
        /\ \E s \in {"bound"} \cup (IF OSFailures THEN {"unbound"} ELSE {}) :
             socket' = [socket EXCEPT ![t] = s]
     \/ /\ OSFailures
        /\ Goto(t, "open", "ended")
        /\ UNCHANGED socket
  /\ UNCHANGED <<run_, fileVars, logging_mutex_, mainVars, queue, arrived, sent,
                 held, time>>

(* addMulticast fails for an address that is no group, or when the system  *)
(* refuses: the thread returns and ~UDP closes the socket.                 *)
JoinGroup(t) ==
  /\ \/ /\ Group[t] \in Multicast
        /\ Goto(t, "join", "check")
        /\ socket' = [socket EXCEPT ![t] =
             IF @ = "bound" THEN "joined" ELSE "deaf"]
     \/ /\ Group[t] \notin Multicast \/ OSFailures
        /\ Goto(t, "join", "ended")
        /\ socket' = [socket EXCEPT ![t] = "closed"]
  /\ UNCHANGED <<run_, fileVars, logging_mutex_, mainVars, queue, arrived, sent,
                 held, time>>

CheckRun(t) ==
  /\ run_
  /\ Goto(t, "check", "recv")
  /\ UNCHANGED <<run_, fileVars, logging_mutex_, mainVars, network, held, time>>

LeaveThread(t) ==
  /\ ~run_
  /\ Goto(t, "check", "ended")
  /\ socket' = [socket EXCEPT ![t] = "closed"]
  /\ UNCHANGED <<run_, fileVars, logging_mutex_, mainVars, queue, arrived, sent,
                 held, time>>

(* Mutants of the next two: the datagram is read but not taken; a thread   *)
(* that is told to stop in recv leaves without writing.                    *)
Peeked(q) == q
SkippedOrStopped(datagram) == datagram.n \in Empty \/ ~run_

Taken(q) == Tail(q)
Skipped(datagram) == datagram.n \in Empty

(* client.recv blocks until there is a datagram, whatever becomes of run_; *)
(* one without bytes is dropped.                                           *)
Receive(t) ==
  /\ queue[t] # <<>>
  /\ LET datagram == Head(queue[t])
     IN  IF Skipped(datagram)
           THEN /\ Goto(t, "recv", "check")
                /\ UNCHANGED held
           ELSE /\ Goto(t, "recv", "stamp")
                /\ held' = [held EXCEPT ![t].datagram = datagram]
  /\ queue' = [queue EXCEPT ![t] = Taken(@)]
  /\ UNCHANGED <<run_, fileVars, logging_mutex_, mainVars, socket, arrived, sent,
                 time>>

(* Mutant of the next one: the time is read once, before the loop.         *)
FirstTime(t) == IF held[t].timestamp = 0 THEN clock' ELSE held[t].timestamp

(* clock_gettime(CLOCK_REALTIME): the wall clock, which may repeat a value *)
(* and which the system may set, but never back to 1970.                   *)
GetTimeUSec(t) == clock'

(* The time is read, and the record serialized, before the lock is taken.  *)
SetTimestamp(t) ==
  /\ Goto(t, "stamp", "lock")
  /\ \E step \in ClockSteps :
       /\ clock + step > 0
       /\ clock' = clock + step
       /\ setBack' = IF step < 0 THEN setBack - step ELSE setBack
  /\ held' = [held EXCEPT ![t].timestamp = GetTimeUSec(t),
                          ![t].setBack = setBack']
  /\ UNCHANGED <<run_, fileVars, logging_mutex_, mainVars, network>>

(* Mutant of the next one: the lock is not waited for.                     *)
NoWait == TRUE

MutexFree == logging_mutex_ = 0

Lock(t) ==
  /\ MutexFree
  /\ Goto(t, "lock", "size")
  /\ logging_mutex_' = t
  /\ UNCHANGED <<run_, fileVars, mainVars, network, held, time>>

(* fwrite: on a FILE that fclose has freed the bytes are lost or the       *)
(* process crashes, on NULL it crashes.                                    *)
Write(t, kind, from, to) ==
  /\ \/ /\ log_file_ = "open"
        /\ Goto(t, from, to)
        /\ file' = Append(file, Chunk(kind, t, held[t]))
        /\ UNCHANGED main
     \/ /\ log_file_ = "closed"
        /\ Goto(t, from, to)
        /\ UNCHANGED <<file, main>>
     \/ /\ log_file_ \in {"closed", "null"}
        /\ Running
        /\ thread[t] = from
        /\ main' = "crashed"
        /\ UNCHANGED <<thread, file>>
  /\ UNCHANGED <<run_, log_file_, logging_mutex_, spawned, deleted, network,
                 held, time>>

WriteSize(t) == Write(t, "size", "size", "payload")
WritePayload(t) == Write(t, "data", "payload", "unlock")

(* ~ScopedLock, at the end of the block.                                   *)
Unlock(t) ==
  /\ Goto(t, "unlock", "check")
  /\ logging_mutex_' = 0
  /\ UNCHANGED <<run_, fileVars, mainVars, network, held, time>>

(* A thread that is not in its loop yet reads its logger's address and     *)
(* port, and in verbose mode one that has received a datagram does.  Those *)
(* of a deleted logger are freed memory: the values have no effect any     *)
(* more (main deletes loggers when run_ is FALSE), the read may crash.     *)
UseDeleted(t) ==
  /\ Running
  /\ t <= deleted
  /\ thread[t] \in {"open", "join", "stamp"}
  /\ main' = "crashed"
  /\ UNCHANGED <<run_, fileVars, logging_mutex_, spawned, deleted, thread,
                 network, held, time>>

-----------------------------------------------------------------------------
(* The kernel (external).  A datagram sent to stream s reaches every       *)
(* socket bound to its port, on any address, once somebody on this host    *)
(* has joined its group, unless that socket's buffer is full.              *)
Reached(s) ==
  { t \in Streams :
      /\ socket[t] \in {"bound", "joined"}
      /\ Port[t] = Port[s]
      /\ Len(queue[t]) < SocketBuffer
      /\ \/ Group[s] \notin Multicast
         \/ \E u \in Streams :
              socket[u] \in {"joined", "deaf"} /\ Group[u] = Group[s] }

Arrive(s) ==
  /\ Running
  /\ sent[s] < MaxSent
  /\ sent' = [sent EXCEPT ![s] = @ + 1]
  /\ arrived' = [t \in Streams |->
       IF t \in Reached(s) THEN arrived[t] + 1 ELSE arrived[t]]
  /\ queue' = [t \in Streams |->
       IF t \in Reached(s)
         THEN Append(queue[t], [stream |-> s, n |-> arrived[t] + 1])
         ELSE queue[t]]
  /\ UNCHANGED <<run_, fileVars, logging_mutex_, mainVars, thread, socket, held,
                 time>>

MainNext ==
  \/ OpenLog \/ SpawnLogger \/ AllSpawned
  \/ LeaveLoop \/ DeleteLogger \/ CloseLog \/ Return

ThreadNext(t) ==
  \/ OpenSocket(t) \/ JoinGroup(t)
  \/ CheckRun(t) \/ LeaveThread(t) \/ Receive(t) \/ SetTimestamp(t)
  \/ Lock(t) \/ WriteSize(t) \/ WritePayload(t) \/ Unlock(t)
  \/ UseDeleted(t)

Next ==
  \/ MainNext
  \/ \E t \in Streams : ThreadNext(t)
  \/ SigIntHandler
  \/ \E s \in Streams : Arrive(s)

Spec == Init /\ [][Next]_vars

(* The scheduler runs the main thread, which never blocks.  Nothing is     *)
(* assumed of the network, of the user, or of the logger threads.          *)
FairSpec == Spec /\ WF_vars(MainNext)
-----------------------------------------------------------------------------
(* Types of the variables.                                                 *)
TypeOK ==
  /\ run_ \in BOOLEAN
  /\ log_file_ \in {"unopened", "open", "closed", "null"}
  /\ file \in Seq([kind: {"size", "data"}, logger: Streams,
                   datagram: Datagram, timestamp: Nat, setBack: Nat])
  /\ logging_mutex_ \in 0..NumStreams
  /\ main \in {"fopen", "spawn", "loop", "delete", "return", "exited", "crashed"}
  /\ spawned \in 0..NumStreams
  /\ deleted \in 0..NumStreams
  /\ thread \in [Streams -> {"none", "open", "join", "check", "recv", "stamp",
                             "lock", "size", "payload", "unlock", "ended"}]
  /\ socket \in [Streams -> {"closed", "unbound", "bound", "joined", "deaf"}]
  /\ queue \in [Streams -> Seq(Datagram)]
  /\ arrived \in [Streams -> Nat]
  /\ sent \in [Streams -> Nat]
  /\ held \in [Streams -> [datagram: Datagram \cup {NoDatagram},
                           timestamp: Nat, setBack: Nat]]
  /\ clock \in Nat \ {0}
  /\ setBack \in Nat

(* Every size in the log is followed by the payload of the same record;    *)
(* only the last one may lack it, and then a thread is still to write it   *)
(* or the log was closed on it.  No schedule of the threads interleaves    *)
(* two records: what ReadUDPMessageWrapper relies on.                      *)
RecordsWhole ==
  /\ \A p \in DOMAIN file :
       IF p % 2 = 1 THEN file[p].kind = "size"
       ELSE file[p] = [file[p - 1] EXCEPT !.kind = "data"]
  /\ Len(file) % 2 = 1 =>
       \/ \E t \in Streams : thread[t] = "payload"
       \/ log_file_ = "closed"

Written(t) == { p \in DOMAIN file : file[p].kind = "data" /\ file[p].logger = t }

(* When a record's time was read, on the clock as it would be had nobody   *)
(* set it back.                                                            *)
ReadAt(p) == file[p].timestamp + file[p].setBack

(* Each logger writes the datagrams of its socket in the order they        *)
(* arrived, each once and none with an earlier time: a timestamp is behind *)
(* an earlier one of its stream only by what the clock was set back        *)
(* between.                                                                *)
StreamOrder ==
  \A t \in Streams : \A p, q \in Written(t) : p < q =>
    /\ file[p].datagram.n < file[q].datagram.n
    /\ ReadAt(p) <= ReadAt(q)

(* "logs all received packets": while the log is open, a datagram that has *)
(* left its socket and was not empty is in the log or in its thread's      *)
(* hands.                                                                  *)
ReceivedIsLogged ==
  log_file_ = "open" =>
    \A t \in Streams : \A n \in 1..(arrived[t] - Len(queue[t])) :
      \/ n \in Empty
      \/ \E p \in Written(t) : file[p].datagram.n = n
      \/ thread[t] \in {"stamp", "lock", "size", "payload"}
           /\ held[t].datagram.n = n

(* Records get their time before they get their place.  Behind a record    *)
(* come at most as many as there are other loggers, one of each, whose     *)
(* time was read before its own: but for the clock being set back, how     *)
(* often playback's timestamps can step back.                              *)
LateRecordsBounded ==
  \A t, u \in Streams : \A p \in Written(t) :
    Cardinality({ q \in Written(u) : p < q /\ ReadAt(q) < ReadAt(p) })
      <= (IF t = u THEN 0 ELSE 1)

(* Nobody waits for the threads when the log is closed and the loggers are *)
(* deleted.  That is safe until SIGINT: no thread crashes on a closed file *)
(* or a deleted logger before, only for want of a log file.                *)
CrashesOnlyInShutdown == main = "crashed" => (~run_ \/ log_file_ = "null")

(* The file is a LogFile to its readers: whole records that are appended   *)
(* and never change, and behind them one whose payload is still missing.   *)
RecordOf(chunk) ==
  [logger |-> chunk.logger, datagram |-> chunk.datagram,
   timestamp |-> chunk.timestamp]
Log ==
  INSTANCE LogFile WITH
    Records <- [logger: Streams, datagram: Datagram, timestamp: Nat \ {0}],
    records <- [p \in 1..(Len(file) \div 2) |-> RecordOf(file[2 * p])],
    half <- IF Len(file) % 2 = 1 THEN RecordOf(file[Len(file)])
            ELSE [timestamp |-> 0]
ImplementsLogFile == Log!SpecLog

(* SIGINT ends the process although every logger thread may be blocked in  *)
(* recv for good: nothing in the shutdown waits for a datagram.            *)
SigIntEndsLogger == ~run_ ~> ~Running
=============================================================================
