---------------------------- MODULE LoggerProofs ----------------------------
(***************************************************************************)
(* Proofs about Logger, for every number of streams, every choice of       *)
(* addresses, and with and without failing system calls: records are       *)
(* whole, Logger implements LogFile, and no datagram of a stream is lost,  *)
(* doubled or overtaken between its socket and the file.                   *)
(***************************************************************************)
EXTENDS Logger, SequenceTheorems, FiniteSetTheorems, TLAPS

USE DEF network, mainVars, fileVars, time

ThreadStep ==
  {"none", "open", "join", "check", "recv", "stamp", "lock", "size",
   "payload", "unlock", "ended"}
FileChunk ==
  [kind: {"size", "data"}, logger: Streams, datagram: Datagram, timestamp: Nat,
   setBack: Nat]
HeldRecord == [datagram: Datagram \cup {NoDatagram}, timestamp: Nat, setBack: Nat]

LEMMA StreamsType == NumStreams \in Nat /\ Streams \subseteq Nat /\ 0 \notin Streams
BY StreamsAssumption DEF Streams

(* A thread beyond recv has a datagram in its hands.                       *)
HoldsOne ==
  \A t \in Streams :
    thread[t] \in {"stamp", "lock", "size", "payload"} =>
      held[t].datagram \in Datagram

(* The loggers that are not constructed yet have no thread.                *)
Unspawned == \A t \in Streams : spawned < t => thread[t] = "none"

LoggerInv == TypeOK /\ HoldsOne /\ Unspawned

LEMMA InitLoggerInv == Init => LoggerInv
<1> SUFFICES ASSUME Init PROVE LoggerInv
  OBVIOUS
<1>1. NumStreams \in Nat
  BY StreamsType
<1>2. /\ run_ \in BOOLEAN
      /\ log_file_ \in {"unopened", "open", "closed", "null"}
      /\ main \in {"fopen", "spawn", "loop", "delete", "return", "exited", "crashed"}
  BY DEF Init
<1>3. file \in Seq(FileChunk)
  BY EmptySeq DEF Init
<1>4. /\ logging_mutex_ \in 0..NumStreams /\ spawned \in 0..NumStreams
      /\ deleted \in 0..NumStreams /\ clock \in Nat \ {0} /\ setBack \in Nat
  BY <1>1, StreamsAssumption DEF Init
<1>5. /\ thread \in [Streams -> ThreadStep]
      /\ socket \in [Streams -> {"closed", "unbound", "bound", "joined", "deaf"}]
  BY DEF Init, ThreadStep
<1>6. queue \in [Streams -> Seq(Datagram)]
  BY EmptySeq DEF Init
<1>7. arrived \in [Streams -> Nat] /\ sent \in [Streams -> Nat]
  BY DEF Init
<1>8. held \in [Streams -> HeldRecord]
  BY DEF Init, NotHeld, HeldRecord
<1>9. HoldsOne
  BY DEF Init, HoldsOne
<1>10. Unspawned
  BY DEF Init, Unspawned
<1>. QED
  BY <1>2, <1>3, <1>4, <1>5, <1>6, <1>7, <1>8, <1>9, <1>10, Zenon
     DEF LoggerInv, TypeOK, FileChunk, ThreadStep, HeldRecord

LEMMA QueueTypes ==
  ASSUME TypeOK, NEW t \in Streams, queue[t] # <<>>
  PROVE  Head(queue[t]) \in Datagram /\ Tail(queue[t]) \in Seq(Datagram)
<1>1. queue[t] \in Seq(Datagram)
  BY DEF TypeOK
<1>. QED
  BY <1>1, HeadTailProperties

(* On the clock as it would be had nobody set it back, a reading is never  *)
(* before the one before it.                                               *)
Now == clock + setBack

LEMMA ClockReading ==
  ASSUME TypeOK, NEW t \in Streams, SetTimestamp(t)
  PROVE  clock' \in Nat \ {0} /\ setBack' \in Nat /\ Now <= Now'
<1>1. clock \in Nat /\ setBack \in Nat
  BY DEF TypeOK
<1>2. PICK step \in ClockSteps :
        /\ clock + step > 0 /\ clock' = clock + step
        /\ setBack' = IF step < 0 THEN setBack - step ELSE setBack
  BY DEF SetTimestamp
<1>3. step \in Int
  BY StreamsAssumption
<1>. QED
  BY <1>1, <1>2, <1>3 DEF Now

LEMMA StepLoggerInv == LoggerInv /\ [Next]_vars => LoggerInv'
<1> SUFFICES ASSUME LoggerInv, [Next]_vars PROVE LoggerInv'
  OBVIOUS
<1>t. TypeOK /\ HoldsOne /\ Unspawned
  BY DEF LoggerInv
<1>s. NumStreams \in Nat
  BY StreamsType
<1>1. CASE OpenLog
  BY <1>1, <1>t DEF OpenLog, LoggerInv, TypeOK, HoldsOne, Unspawned
<1>2. CASE SpawnLogger
  <2>1. PICK start \in {"open", "ended"} :
          thread' = [thread EXCEPT ![spawned + 1] = start]
    BY <1>2 DEF SpawnLogger
  <2>2. thread' \in [Streams -> ThreadStep]
    BY <2>1, <1>t DEF TypeOK, ThreadStep
  <2>3. spawned' \in 0..NumStreams
    BY <1>2, <1>t, <1>s DEF SpawnLogger, TypeOK
  <2>4. \A t \in Streams : thread'[t] = thread[t] \/ thread'[t] \in {"open", "ended"}
    BY <2>1, <1>t DEF TypeOK
  <2>5. HoldsOne'
    BY <2>4, <1>2, <1>t DEF SpawnLogger, HoldsOne
  <2>6. Unspawned'
    BY <2>1, <1>2, <1>t, <1>s, StreamsType DEF SpawnLogger, Unspawned, TypeOK
  <2>. QED
    BY <2>2, <2>3, <2>5, <2>6, <1>2, <1>t DEF SpawnLogger, LoggerInv, TypeOK, ThreadStep
<1>3. CASE AllSpawned
  BY <1>3, <1>t DEF AllSpawned, LoggerInv, TypeOK, HoldsOne, Unspawned
<1>4. CASE LeaveLoop
  BY <1>4, <1>t DEF LeaveLoop, LoggerInv, TypeOK, HoldsOne, Unspawned
<1>5. CASE DeleteLogger
  BY <1>5, <1>t, <1>s DEF DeleteLogger, MayDelete, LoggerInv, TypeOK, HoldsOne, Unspawned
<1>6. CASE CloseLog
  BY <1>6, <1>t DEF CloseLog, LoggerInv, TypeOK, HoldsOne, Unspawned
<1>7. CASE Return
  BY <1>7, <1>t DEF Return, LoggerInv, TypeOK, HoldsOne, Unspawned
<1>8. CASE SigIntHandler
  BY <1>8, <1>t DEF SigIntHandler, LoggerInv, TypeOK, HoldsOne, Unspawned
<1>9. ASSUME NEW t \in Streams, OpenSocket(t) PROVE LoggerInv'
  BY <1>9, <1>t DEF OpenSocket, Goto, LoggerInv, TypeOK, HoldsOne, Unspawned
<1>10. ASSUME NEW t \in Streams, JoinGroup(t) PROVE LoggerInv'
  BY <1>10, <1>t DEF JoinGroup, Goto, LoggerInv, TypeOK, HoldsOne, Unspawned
<1>11. ASSUME NEW t \in Streams, CheckRun(t) PROVE LoggerInv'
  BY <1>11, <1>t DEF CheckRun, Goto, LoggerInv, TypeOK, HoldsOne, Unspawned
<1>12. ASSUME NEW t \in Streams, LeaveThread(t) PROVE LoggerInv'
  BY <1>12, <1>t DEF LeaveThread, Goto, LoggerInv, TypeOK, HoldsOne, Unspawned
<1>13. ASSUME NEW t \in Streams, Receive(t) PROVE LoggerInv'
  <2>1. Head(queue[t]) \in Datagram /\ Tail(queue[t]) \in Seq(Datagram)
    BY <1>13, <1>t, QueueTypes DEF Receive
  <2>2. queue' \in [Streams -> Seq(Datagram)]
    BY <2>1, <1>13, <1>t DEF Receive, Taken, TypeOK
  <2>3. held' \in [Streams -> HeldRecord]
    <3>1. /\ held \in [Streams -> HeldRecord]
          /\ \/ held' = held
             \/ held' = [held EXCEPT ![t].datagram = Head(queue[t])]
      BY <1>13, <1>t DEF Receive, TypeOK, HeldRecord
    <3>. QED
      BY <3>1, <2>1 DEF HeldRecord
  <2>4. thread' \in [Streams -> ThreadStep]
    BY <1>13, <1>t DEF Receive, Goto, TypeOK, ThreadStep
  <2>5. HoldsOne'
    BY <2>1, <1>13, <1>t DEF Receive, Goto, TypeOK, HoldsOne
  <2>6. Unspawned'
    BY <1>13, <1>t DEF Receive, Goto, TypeOK, Unspawned
  <2>. QED
    BY <2>2, <2>3, <2>4, <2>5, <2>6, <1>13, <1>t
       DEF Receive, LoggerInv, TypeOK, HeldRecord, ThreadStep
<1>14. ASSUME NEW t \in Streams, SetTimestamp(t) PROVE LoggerInv'
  <2>1. clock' \in Nat \ {0} /\ setBack' \in Nat
    BY <1>14, <1>t, ClockReading
  <2>2. held' \in [Streams -> HeldRecord]
    <3>1. /\ held \in [Streams -> HeldRecord]
          /\ held' = [held EXCEPT ![t].timestamp = clock', ![t].setBack = setBack']
      BY <1>14, <1>t DEF SetTimestamp, GetTimeUSec, TypeOK, HeldRecord
    <3>. QED
      BY <2>1, <3>1 DEF HeldRecord
  <2>4. thread' \in [Streams -> ThreadStep]
    BY <1>14, <1>t DEF SetTimestamp, Goto, TypeOK, ThreadStep
  <2>3. HoldsOne' /\ Unspawned'
    BY <1>14, <1>t DEF SetTimestamp, Goto, TypeOK, HoldsOne, Unspawned
  <2>. QED
    BY <2>1, <2>2, <2>3, <2>4, <1>14, <1>t
       DEF SetTimestamp, LoggerInv, TypeOK, HeldRecord, ThreadStep
<1>15. ASSUME NEW t \in Streams, Lock(t) PROVE LoggerInv'
  BY <1>15, <1>t, <1>s DEF Lock, Goto, LoggerInv, TypeOK, HoldsOne, Unspawned, Streams
<1>16. ASSUME NEW t \in Streams, WriteSize(t) \/ WritePayload(t) PROVE LoggerInv'
  <2>1. PICK kind \in {"size", "data"}, from \in {"size", "payload"},
             to \in {"payload", "unlock"} : Write(t, kind, from, to)
    BY <1>16 DEF WriteSize, WritePayload
  <2>2. thread[t] \in {"size", "payload"}
    BY <2>1 DEF Write, Goto
  <2>3. \A c \in {"size", "data"} : Chunk(c, t, held[t]) \in FileChunk
    BY <2>2, <1>t DEF Chunk, FileChunk, TypeOK, HoldsOne
  <2>4. file' \in Seq(FileChunk)
    <3>1. /\ file \in Seq(FileChunk)
          /\ file' = file \/ file' = Append(file, Chunk(kind, t, held[t]))
      BY <2>1, <1>t DEF Write, TypeOK, FileChunk
    <3>. QED
      BY <3>1, <2>3, AppendProperties
  <2>5. thread' \in [Streams -> ThreadStep] /\ HoldsOne' /\ Unspawned'
    BY <2>1, <2>2, <1>t DEF Write, Goto, TypeOK, ThreadStep, HoldsOne, Unspawned
  <2>6. main' \in {"fopen", "spawn", "loop", "delete", "return", "exited", "crashed"}
    BY <2>1, <1>t DEF Write, TypeOK
  <2>. QED
    BY <2>1, <2>4, <2>5, <2>6, <1>t DEF Write, LoggerInv, TypeOK, FileChunk, ThreadStep
<1>17. ASSUME NEW t \in Streams, Unlock(t) PROVE LoggerInv'
  BY <1>17, <1>t, <1>s DEF Unlock, Goto, LoggerInv, TypeOK, HoldsOne, Unspawned
<1>18. ASSUME NEW s \in Streams, Arrive(s) PROVE LoggerInv'
  <2>1. \A t \in Streams :
          /\ arrived[t] + 1 \in Nat
          /\ [stream |-> s, n |-> arrived[t] + 1] \in Datagram
    BY <1>t DEF TypeOK, Datagram
  <2>2. \A t \in Streams :
          Append(queue[t], [stream |-> s, n |-> arrived[t] + 1]) \in Seq(Datagram)
    BY <2>1, <1>t, AppendProperties DEF TypeOK
  <2>3. queue' \in [Streams -> Seq(Datagram)]
    BY <2>2, <1>18, <1>t DEF Arrive, TypeOK
  <2>4. arrived' \in [Streams -> Nat] /\ sent' \in [Streams -> Nat]
    BY <2>1, <1>18, <1>t DEF Arrive, TypeOK
  <2>. QED
    BY <2>3, <2>4, <1>18, <1>t DEF Arrive, LoggerInv, TypeOK, HoldsOne, Unspawned
<1>19. CASE UNCHANGED vars
  BY <1>19, <1>t DEF vars, LoggerInv, TypeOK, HoldsOne, Unspawned
<1>20. ASSUME NEW t \in Streams, UseDeleted(t) PROVE LoggerInv'
  BY <1>20, <1>t DEF UseDeleted, LoggerInv, TypeOK, HoldsOne, Unspawned
<1>. QED
  BY <1>1, <1>2, <1>3, <1>4, <1>5, <1>6, <1>7, <1>8, <1>9, <1>10, <1>11, <1>12,
     <1>13, <1>14, <1>15, <1>16, <1>17, <1>18, <1>19, <1>20
     DEF Next, MainNext, ThreadNext

(* Type correctness: what is written is always a received datagram.        *)
THEOREM LoggerTypeOK == Spec => []TypeOK
<1>1. LoggerInv => TypeOK
  BY DEF LoggerInv
<1>. QED
  BY <1>1, InitLoggerInv, StepLoggerInv, PTL DEF Spec
-----------------------------------------------------------------------------
(* Before fopen nothing is written and no thread runs; logging_mutex_ is   *)
(* held by exactly the thread that is inside the block it guards; and as   *)
(* long as the log is open, its last size lacks its payload only while the *)
(* thread that wrote it still holds the same record.                       *)
InBlock == {"size", "payload", "unlock"}

BeforeOpen ==
  /\ log_file_ = "unopened" => main = "fopen"
  /\ main = "fopen" => log_file_ = "unopened" /\ \A t \in Streams : thread[t] = "none"
  /\ log_file_ \in {"unopened", "null"} => file = <<>>

MutexInv == \A t \in Streams : thread[t] \in InBlock <=> logging_mutex_ = t

Pairs ==
  \A p \in DOMAIN file :
    IF p % 2 = 1 THEN file[p].kind = "size"
    ELSE file[p] = [file[p - 1] EXCEPT !.kind = "data"]

LastRecord ==
  log_file_ = "open" =>
    IF Len(file) % 2 = 1
      THEN \E t \in Streams :
             thread[t] = "payload" /\ file[Len(file)] = Chunk("size", t, held[t])
      ELSE \A t \in Streams : thread[t] # "payload"

WholeInv == BeforeOpen /\ MutexInv /\ Pairs /\ LastRecord

(* A thread that stays out of the block, or in it without writing, leaves  *)
(* the records as they are.                                                *)
LEMMA OutsideBlock ==
  ASSUME TypeOK, WholeInv, NEW t \in Streams, NEW step \in ThreadStep \ InBlock,
         thread[t] \notin InBlock, thread[t] # "none",
         thread' = [thread EXCEPT ![t] = step],
         \A u \in Streams \ {t} : held'[u] = held[u],
         UNCHANGED <<fileVars, logging_mutex_, main>>
  PROVE  WholeInv'
<1>1. /\ thread'[t] = step
      /\ \A u \in Streams \ {t} : thread'[u] = thread[u]
  BY DEF TypeOK
<1>2. BeforeOpen'
  BY DEF WholeInv, BeforeOpen
<1>3. MutexInv'
  BY <1>1 DEF WholeInv, MutexInv
<1>4. Pairs'
  BY DEF WholeInv, Pairs
<1>5. LastRecord'
  BY <1>1 DEF WholeInv, LastRecord, InBlock, Chunk
<1>. QED
  BY <1>2, <1>3, <1>4, <1>5 DEF WholeInv

(* The main thread's steps between fopen and fclose.                       *)
LEMMA MainOnly ==
  ASSUME WholeInv, main # "fopen", main' # "fopen", log_file_' = log_file_,
         UNCHANGED <<file, thread, logging_mutex_, held>>
  PROVE  WholeInv'
BY DEF WholeInv, BeforeOpen, MutexInv, Pairs, LastRecord, Chunk

LEMMA InitWholeInv == Init => WholeInv
<1> SUFFICES ASSUME Init PROVE WholeInv
  OBVIOUS
<1>1. \A t \in Streams : thread[t] = "none"
  BY DEF Init
<1>2. 0 \notin Streams
  BY StreamsType
<1>3. file = <<>> /\ main = "fopen" /\ log_file_ = "unopened" /\ logging_mutex_ = 0
  BY DEF Init
<1>4. BeforeOpen
  BY <1>1, <1>3 DEF BeforeOpen
<1>5. MutexInv
  BY <1>1, <1>2, <1>3 DEF MutexInv, InBlock
<1>. QED
  BY <1>3, <1>4, <1>5 DEF WholeInv, Pairs, LastRecord

(* fwrite of a size: the log had only whole records, for nobody else is    *)
(* inside the block.                                                       *)
LEMMA StepWriteSize ==
  ASSUME TypeOK, WholeInv, NEW t \in Streams, WriteSize(t)
  PROVE  WholeInv'
<1>1. /\ thread[t] = "size" /\ logging_mutex_ = t
      /\ \A u \in Streams \ {t} : thread[u] \notin InBlock
      /\ UNCHANGED <<log_file_, logging_mutex_, held>>
  BY DEF WriteSize, Write, Goto, WholeInv, MutexInv, InBlock
<1>2. \A u \in Streams : thread[u] # "payload"
  BY <1>1 DEF InBlock
<1>3. main # "fopen" /\ main' # "fopen"
  BY <1>1 DEF WriteSize, Write, WholeInv, BeforeOpen
<1>4. CASE log_file_ = "open"
  <2>1. /\ thread' = [thread EXCEPT ![t] = "payload"]
        /\ file' = Append(file, Chunk("size", t, held[t])) /\ UNCHANGED main
    BY <1>4 DEF WriteSize, Write, Goto
  <2>2. /\ Len(file) \in Nat /\ DOMAIN file = 1..Len(file)
        /\ DOMAIN file' = 1..(Len(file) + 1) /\ Len(file') = Len(file) + 1
        /\ \A p \in 1..Len(file) : file'[p] = file[p]
        /\ file'[Len(file) + 1] = Chunk("size", t, held[t])
    BY <2>1 DEF TypeOK
  <2>3. Len(file) % 2 # 1
    BY <1>2, <1>4 DEF WholeInv, LastRecord
  <2>4. (Len(file) + 1) % 2 = 1
    BY <2>2, <2>3
  <2>5. Pairs'
    <3> SUFFICES ASSUME NEW p \in DOMAIN file'
                 PROVE  IF p % 2 = 1 THEN file'[p].kind = "size"
                        ELSE file'[p] = [file'[p - 1] EXCEPT !.kind = "data"]
      BY DEF Pairs
    <3>1. CASE p = Len(file) + 1
      BY <3>1, <2>2, <2>4 DEF Chunk
    <3>2. CASE p \in 1..Len(file) /\ p % 2 = 1
      BY <3>2, <2>2 DEF WholeInv, Pairs
    <3>3. CASE p \in 1..Len(file) /\ p % 2 # 1
      <4>1. p - 1 \in 1..Len(file)
        BY <3>3, <2>2
      <4>. QED
        BY <4>1, <3>3, <2>2 DEF WholeInv, Pairs
    <3>. QED
      BY <3>1, <3>2, <3>3, <2>2
  <2>6. LastRecord'
    BY <2>1, <2>2, <2>4, <1>1 DEF LastRecord, TypeOK
  <2>7. MutexInv' /\ BeforeOpen'
    BY <2>1, <1>1, <1>3, <1>4 DEF MutexInv, BeforeOpen, WholeInv, TypeOK, InBlock
  <2>. QED
    BY <2>5, <2>6, <2>7 DEF WholeInv
<1>5. CASE log_file_ # "open"
  <2>1. UNCHANGED file /\ thread' \in {thread, [thread EXCEPT ![t] = "payload"]}
    BY <1>5 DEF WriteSize, Write, Goto
  <2>2. MutexInv'
    BY <2>1, <1>1 DEF MutexInv, WholeInv, TypeOK, InBlock
  <2>. QED
    BY <2>1, <2>2, <1>1, <1>3, <1>5 DEF WholeInv, BeforeOpen, Pairs, LastRecord
<1>. QED
  BY <1>4, <1>5

(* fwrite of a payload: the last chunk is the size of the same record.     *)
LEMMA StepWritePayload ==
  ASSUME TypeOK, WholeInv, NEW t \in Streams, WritePayload(t)
  PROVE  WholeInv'
<1>1. /\ thread[t] = "payload" /\ logging_mutex_ = t
      /\ \A u \in Streams \ {t} : thread[u] \notin InBlock
      /\ UNCHANGED <<log_file_, logging_mutex_, held>>
  BY DEF WritePayload, Write, Goto, WholeInv, MutexInv, InBlock
<1>3. main # "fopen" /\ main' # "fopen"
  BY <1>1 DEF WritePayload, Write, WholeInv, BeforeOpen
<1>4. CASE log_file_ = "open"
  <2>1. /\ thread' = [thread EXCEPT ![t] = "unlock"]
        /\ file' = Append(file, Chunk("data", t, held[t])) /\ UNCHANGED main
    BY <1>4 DEF WritePayload, Write, Goto
  <2>2. /\ Len(file) \in Nat /\ DOMAIN file = 1..Len(file)
        /\ DOMAIN file' = 1..(Len(file) + 1) /\ Len(file') = Len(file) + 1
        /\ \A p \in 1..Len(file) : file'[p] = file[p]
        /\ file'[Len(file) + 1] = Chunk("data", t, held[t])
    BY <2>1 DEF TypeOK
  <2>3. Len(file) % 2 = 1 /\ file[Len(file)] = Chunk("size", t, held[t])
    BY <1>1, <1>4 DEF WholeInv, LastRecord, InBlock
  <2>4. (Len(file) + 1) % 2 # 1 /\ Len(file) \in 1..Len(file)
    BY <2>2, <2>3
  <2>5. Pairs'
    <3> SUFFICES ASSUME NEW p \in DOMAIN file'
                 PROVE  IF p % 2 = 1 THEN file'[p].kind = "size"
                        ELSE file'[p] = [file'[p - 1] EXCEPT !.kind = "data"]
      BY DEF Pairs
    <3>1. CASE p = Len(file) + 1
      <4>1. file'[p - 1] = Chunk("size", t, held[t])
        BY <3>1, <2>2, <2>3, <2>4
      <4>. QED
        BY <4>1, <3>1, <2>2, <2>4 DEF Chunk
    <3>2. CASE p \in 1..Len(file) /\ p % 2 = 1
      BY <3>2, <2>2 DEF WholeInv, Pairs
    <3>3. CASE p \in 1..Len(file) /\ p % 2 # 1
      <4>1. p - 1 \in 1..Len(file)
        BY <3>3, <2>2
      <4>. QED
        BY <4>1, <3>3, <2>2 DEF WholeInv, Pairs
    <3>. QED
      BY <3>1, <3>2, <3>3, <2>2
  <2>6. LastRecord'
    BY <2>1, <2>2, <2>4, <1>1 DEF LastRecord, TypeOK, InBlock
  <2>7. MutexInv' /\ BeforeOpen'
    BY <2>1, <1>1, <1>3, <1>4 DEF MutexInv, BeforeOpen, WholeInv, TypeOK, InBlock
  <2>. QED
    BY <2>5, <2>6, <2>7 DEF WholeInv
<1>5. CASE log_file_ # "open"
  <2>1. UNCHANGED file /\ thread' \in {thread, [thread EXCEPT ![t] = "unlock"]}
    BY <1>5 DEF WritePayload, Write, Goto
  <2>2. MutexInv'
    BY <2>1, <1>1 DEF MutexInv, WholeInv, TypeOK, InBlock
  <2>. QED
    BY <2>1, <2>2, <1>1, <1>3, <1>5 DEF WholeInv, BeforeOpen, Pairs, LastRecord
<1>. QED
  BY <1>4, <1>5

LEMMA StepWholeInv == LoggerInv /\ WholeInv /\ [Next]_vars => WholeInv'
<1> SUFFICES ASSUME LoggerInv, WholeInv, [Next]_vars PROVE WholeInv'
  OBVIOUS
<1>t. TypeOK
  BY DEF LoggerInv
<1>1. CASE OpenLog
  <2>1. /\ file = <<>> /\ UNCHANGED <<file, thread, logging_mutex_>>
        /\ main' = "spawn" /\ log_file_' \in {"open", "null"}
        /\ \A t \in Streams : thread[t] = "none"
    BY <1>1 DEF OpenLog, WholeInv, BeforeOpen
  <2>2. DOMAIN file' = {} /\ Len(file') % 2 # 1
    BY <2>1
  <2>. QED
    BY <2>1, <2>2 DEF WholeInv, BeforeOpen, MutexInv, Pairs, LastRecord
<1>2. CASE SpawnLogger
  <2>1. PICK start \in {"open", "ended"} :
          thread' = [thread EXCEPT ![spawned + 1] = start]
    BY <1>2 DEF SpawnLogger
  <2>2. /\ main = "spawn" /\ UNCHANGED <<fileVars, logging_mutex_, main, held>>
        /\ spawned + 1 \in Streams /\ thread[spawned + 1] = "none"
    BY <1>2, <1>t, StreamsType DEF SpawnLogger, LoggerInv, Unspawned, TypeOK, Streams
  <2>. QED
    BY <2>1, <2>2, <1>t DEF WholeInv, BeforeOpen, MutexInv, Pairs, LastRecord, InBlock,
       TypeOK, Chunk
<1>3. CASE AllSpawned \/ LeaveLoop \/ DeleteLogger \/ Return
  BY <1>3, MainOnly DEF AllSpawned, LeaveLoop, DeleteLogger, Return
<1>4. CASE CloseLog
  <2>1. CASE log_file_ = "null"
    BY <2>1, <1>4, MainOnly DEF CloseLog
  <2>2. CASE log_file_ # "null"
    BY <2>2, <1>4 DEF CloseLog, WholeInv, BeforeOpen, MutexInv, Pairs, LastRecord
  <2>. QED
    BY <2>1, <2>2
<1>5. ASSUME \/ SigIntHandler \/ UNCHANGED vars \/ \E s \in Streams : Arrive(s)
      PROVE  WholeInv'
  <2>1. UNCHANGED <<fileVars, logging_mutex_, main, thread, held>>
    BY <1>5 DEF SigIntHandler, Arrive, vars
  <2>. QED
    BY <2>1 DEF WholeInv, BeforeOpen, MutexInv, Pairs, LastRecord, Chunk
<1>6. ASSUME NEW t \in Streams,
             \/ OpenSocket(t) \/ JoinGroup(t) \/ CheckRun(t) \/ LeaveThread(t)
             \/ Receive(t) \/ SetTimestamp(t)
      PROVE  WholeInv'
  <2>1. \E step \in ThreadStep \ InBlock :
          /\ thread' = [thread EXCEPT ![t] = step]
          /\ thread[t] \notin InBlock /\ thread[t] # "none"
    BY <1>6 DEF OpenSocket, JoinGroup, CheckRun, LeaveThread, Receive, SetTimestamp,
       Goto, ThreadStep, InBlock
  <2>2. UNCHANGED <<fileVars, logging_mutex_, main>>
    BY <1>6 DEF OpenSocket, JoinGroup, CheckRun, LeaveThread, Receive, SetTimestamp
  <2>3. \A u \in Streams \ {t} : held'[u] = held[u]
    BY <1>6, <1>t DEF OpenSocket, JoinGroup, CheckRun, LeaveThread, Receive,
       SetTimestamp, TypeOK
  <2>. QED
    BY <2>1, <2>2, <2>3, <1>t, OutsideBlock
<1>7. ASSUME NEW t \in Streams, Lock(t) PROVE WholeInv'
  <2>1. /\ logging_mutex_ = 0 /\ logging_mutex_' = t /\ thread[t] = "lock"
        /\ thread' = [thread EXCEPT ![t] = "size"]
        /\ UNCHANGED <<fileVars, main, held>>
    BY <1>7 DEF Lock, MutexFree, Goto
  <2>2. \A u \in Streams : thread[u] \notin InBlock
    BY <2>1, StreamsType DEF WholeInv, MutexInv
  <2>3. MutexInv'
    BY <2>1, <2>2, <1>t DEF MutexInv, TypeOK, InBlock
  <2>. QED
    BY <2>1, <2>2, <2>3, <1>t DEF WholeInv, BeforeOpen, Pairs, LastRecord, InBlock,
       TypeOK, Chunk
<1>8. ASSUME NEW t \in Streams, WriteSize(t) PROVE WholeInv'
  BY <1>8, <1>t, StepWriteSize
<1>9. ASSUME NEW t \in Streams, WritePayload(t) PROVE WholeInv'
  BY <1>9, <1>t, StepWritePayload
<1>10. ASSUME NEW t \in Streams, Unlock(t) PROVE WholeInv'
  <2>1. /\ logging_mutex_' = 0 /\ thread[t] = "unlock"
        /\ thread' = [thread EXCEPT ![t] = "check"]
        /\ UNCHANGED <<fileVars, main, held>>
    BY <1>10 DEF Unlock, Goto
  <2>2. \A u \in Streams \ {t} : thread[u] \notin InBlock
    BY <2>1 DEF WholeInv, MutexInv, InBlock
  <2>3. MutexInv'
    BY <2>1, <2>2, <1>t, StreamsType DEF MutexInv, TypeOK, InBlock
  <2>. QED
    BY <2>1, <2>2, <2>3, <1>t DEF WholeInv, BeforeOpen, Pairs, LastRecord, InBlock,
       TypeOK, Chunk
<1>11. ASSUME NEW t \in Streams, UseDeleted(t) PROVE WholeInv'
  <2>1. thread[t] # "none" /\ main' = "crashed"
        /\ UNCHANGED <<log_file_, file, thread, logging_mutex_, held>>
    BY <1>11 DEF UseDeleted
  <2>2. main # "fopen"
    BY <2>1 DEF WholeInv, BeforeOpen
  <2>. QED
    BY <2>1, <2>2, MainOnly
<1>. QED
  BY <1>1, <1>2, <1>3, <1>4, <1>5, <1>6, <1>7, <1>8, <1>9, <1>10, <1>11
     DEF Next, MainNext, ThreadNext

(* For every number of streams and every schedule of the threads the log   *)
(* is a sequence of whole records, but for one that is being written or    *)
(* that fclose came before.                                                *)
THEOREM RecordsStayWhole == Spec => []RecordsWhole
<1>1. LoggerInv /\ WholeInv => RecordsWhole
  <2> SUFFICES ASSUME LoggerInv, WholeInv, Len(file) % 2 = 1
               PROVE  (\E t \in Streams : thread[t] = "payload") \/ log_file_ = "closed"
    BY DEF WholeInv, Pairs, RecordsWhole
  <2>1. log_file_ \in {"unopened", "open", "closed", "null"}
    BY DEF LoggerInv, TypeOK
  <2>2. file # <<>>
    OBVIOUS
  <2>. QED
    BY <2>1, <2>2 DEF WholeInv, BeforeOpen, LastRecord
<1>2. Spec => []LoggerInv
  BY InitLoggerInv, StepLoggerInv, PTL DEF Spec
<1>. QED
  BY <1>1, <1>2, InitWholeInv, StepWholeInv, PTL DEF Spec
-----------------------------------------------------------------------------
(* Loggers are deleted and the log is closed when run_ is FALSE, for good. *)
Shutdown ==
  /\ main \in {"delete", "return", "exited"} => ~run_
  /\ deleted > 0 => ~run_
  /\ log_file_ = "closed" => ~run_
  /\ CrashesOnlyInShutdown

(* Until SIGINT no thread crashes on a closed log or a deleted logger, for *)
(* every number of streams and every schedule.                             *)
THEOREM NoEarlyCrash == Spec => []CrashesOnlyInShutdown
<1>1. Init => Shutdown
  BY DEF Init, Shutdown, CrashesOnlyInShutdown
<1>2. LoggerInv /\ Shutdown /\ [Next]_vars => Shutdown'
  <2> SUFFICES ASSUME LoggerInv, Shutdown, [Next]_vars PROVE Shutdown'
    OBVIOUS
  <2>t. /\ deleted \in 0..NumStreams /\ NumStreams \in Nat /\ Streams \subseteq Nat
        /\ 0 \notin Streams
    BY StreamsType DEF LoggerInv, TypeOK
  <2>1. CASE \/ OpenLog \/ SpawnLogger \/ AllSpawned \/ LeaveLoop \/ DeleteLogger
             \/ CloseLog \/ Return \/ SigIntHandler
    BY <2>1, <2>t DEF OpenLog, SpawnLogger, AllSpawned, LeaveLoop, DeleteLogger, CloseLog,
       Return, SigIntHandler, Shutdown, CrashesOnlyInShutdown
  <2>2. ASSUME NEW t \in Streams,
               \/ OpenSocket(t) \/ JoinGroup(t) \/ CheckRun(t) \/ LeaveThread(t)
               \/ Receive(t) \/ SetTimestamp(t) \/ Lock(t) \/ Unlock(t) \/ Arrive(t)
        PROVE  Shutdown'
    <3>1. UNCHANGED <<run_, log_file_, main, deleted>>
      BY <2>2 DEF OpenSocket, JoinGroup, CheckRun, LeaveThread, Receive, SetTimestamp,
         Lock, Unlock, Arrive
    <3>. QED
      BY <3>1 DEF Shutdown, CrashesOnlyInShutdown
  <2>3. ASSUME NEW t \in Streams, WriteSize(t) \/ WritePayload(t) PROVE Shutdown'
    <3>1. /\ UNCHANGED <<run_, log_file_, deleted>>
          /\ main' = main \/ (main' = "crashed" /\ log_file_ \in {"closed", "null"})
      BY <2>3 DEF WriteSize, WritePayload, Write
    <3>. QED
      BY <3>1 DEF Shutdown, CrashesOnlyInShutdown
  <2>4. ASSUME NEW t \in Streams, UseDeleted(t) PROVE Shutdown'
    <3>1. deleted > 0 /\ main' = "crashed" /\ UNCHANGED <<run_, log_file_, deleted>>
      BY <2>4, <2>t DEF UseDeleted
    <3>. QED
      BY <3>1 DEF Shutdown, CrashesOnlyInShutdown
  <2>5. CASE UNCHANGED vars
    BY <2>5 DEF vars, Shutdown, CrashesOnlyInShutdown
  <2>. QED
    BY <2>1, <2>2, <2>3, <2>4, <2>5 DEF Next, MainNext, ThreadNext
<1>3. Shutdown => CrashesOnlyInShutdown
  BY DEF Shutdown
<1>4. Spec => []LoggerInv
  BY InitLoggerInv, StepLoggerInv, PTL DEF Spec
<1>. QED
  BY <1>1, <1>2, <1>3, <1>4, PTL DEF Spec
-----------------------------------------------------------------------------
(* What ImplementsLogFile makes of the file.                               *)
FullRecords == [p \in 1..(Len(file) \div 2) |-> RecordOf(file[2 * p])]
HalfRecord ==
  IF Len(file) % 2 = 1 THEN RecordOf(file[Len(file)]) ELSE [timestamp |-> 0]
LogRecord == [logger: Streams, datagram: Datagram, timestamp: Nat \ {0}]

(* Times are above 0, which stands for "no time yet" in a thread's hands.  *)
StampInv ==
  \A t \in Streams :
    thread[t] \in {"lock", "size", "payload"} => held[t].timestamp > 0

LEMMA InitStampInv == Init => StampInv
BY DEF Init, StampInv

LEMMA StepStampInv == LoggerInv /\ StampInv /\ [Next]_vars => StampInv'
<1> SUFFICES ASSUME LoggerInv, StampInv, [Next]_vars PROVE StampInv'
  OBVIOUS
<1>t. /\ thread \in [Streams -> ThreadStep]
      /\ held \in [Streams -> HeldRecord]
  BY DEF LoggerInv, TypeOK, ThreadStep, HeldRecord
<1>1. ASSUME UNCHANGED <<thread, held>> PROVE StampInv'
  BY <1>1 DEF StampInv
<1>2. CASE \/ OpenLog \/ AllSpawned \/ LeaveLoop \/ DeleteLogger
           \/ CloseLog \/ Return \/ SigIntHandler \/ UNCHANGED vars
  BY <1>1, <1>2 DEF OpenLog, AllSpawned, LeaveLoop, DeleteLogger, CloseLog, Return,
     SigIntHandler, vars
<1>3. ASSUME NEW t \in Streams, UseDeleted(t) \/ Arrive(t) PROVE StampInv'
  BY <1>1, <1>3 DEF UseDeleted, Arrive
<1>4. CASE SpawnLogger
  <2>1. /\ UNCHANGED held
        /\ \A u \in Streams : thread'[u] = thread[u] \/ thread'[u] \in {"open", "ended"}
    BY <1>4, <1>t DEF SpawnLogger
  <2>. QED
    BY <2>1 DEF StampInv
<1>5. ASSUME NEW t \in Streams,
             \/ OpenSocket(t) \/ JoinGroup(t) \/ CheckRun(t) \/ LeaveThread(t)
             \/ Receive(t) \/ Unlock(t)
      PROVE  StampInv'
  <2>1. /\ \A u \in Streams \ {t} : thread'[u] = thread[u] /\ held'[u] = held[u]
        /\ thread'[t] \notin {"lock", "size", "payload"}
    BY <1>5, <1>t DEF OpenSocket, JoinGroup, CheckRun, LeaveThread, Receive, Unlock, Goto
  <2>. QED
    BY <2>1 DEF StampInv
<1>6. ASSUME NEW t \in Streams, SetTimestamp(t) PROVE StampInv'
  <2>1. /\ clock' \in Nat \ {0}
        /\ \A u \in Streams \ {t} : thread'[u] = thread[u] /\ held'[u] = held[u]
        /\ held'[t].timestamp = clock'
    BY <1>6, <1>t, ClockReading DEF SetTimestamp, Goto, GetTimeUSec, HeldRecord, LoggerInv
  <2>. QED
    BY <2>1, <1>t DEF StampInv
<1>7. ASSUME NEW t \in Streams, Lock(t) \/ WriteSize(t) \/ WritePayload(t) PROVE StampInv'
  <2>1. /\ UNCHANGED held
        /\ \A u \in Streams \ {t} : thread'[u] = thread[u]
        /\ thread[t] \in {"lock", "size", "payload"}
    BY <1>7, <1>t DEF Lock, WriteSize, WritePayload, Write, Goto
  <2>. QED
    BY <2>1 DEF StampInv
<1>. QED
  BY <1>2, <1>3, <1>4, <1>5, <1>6, <1>7 DEF Next, MainNext, ThreadNext

(* A whole record has the fields of its chunks, so it is not the one that  *)
(* stands for none.                                                        *)
LEMMA HalfIsNone ==
  ASSUME NEW c PROVE RecordOf(c) # [timestamp |-> 0]
<1>1. "logger" \in DOMAIN RecordOf(c) /\ "logger" \notin DOMAIN [timestamp |-> 0]
  BY DEF RecordOf
<1>. QED
  BY <1>1

(* The size of a record: the half record begins, the whole ones stay.      *)
LEMMA SizeIsWritten ==
  ASSUME LoggerInv, WholeInv, StampInv, NEW t \in Streams,
         thread[t] = "size", log_file_ = "open",
         file' = Append(file, Chunk("size", t, held[t]))
  PROVE  /\ HalfRecord = [timestamp |-> 0]
         /\ HalfRecord' \in LogRecord
         /\ FullRecords' = FullRecords
<1>1. file \in Seq(FileChunk) /\ held[t] \in HeldRecord /\ held[t].datagram \in Datagram
  BY DEF LoggerInv, TypeOK, HoldsOne, FileChunk, HeldRecord
<1>2. Chunk("size", t, held[t]) \in FileChunk
  BY <1>1 DEF Chunk, FileChunk, HeldRecord
<1>3. \A u \in Streams : thread[u] # "payload"
  BY DEF WholeInv, MutexInv, InBlock
<1>4. Len(file) \in Nat /\ Len(file) % 2 # 1
  BY <1>1, <1>3 DEF WholeInv, LastRecord
<1>5. /\ Len(file') = Len(file) + 1
      /\ file'[Len(file')] = Chunk("size", t, held[t])
      /\ \A p \in 1..Len(file) : file'[p] = file[p]
  BY <1>1, <1>2, AppendProperties
<1>6. Len(file') % 2 = 1 /\ Len(file') \div 2 = Len(file) \div 2
  BY <1>4, <1>5
<1>7. \A p \in 1..(Len(file) \div 2) : 2 * p \in 1..Len(file)
  BY <1>4
<1>8. RecordOf(Chunk("size", t, held[t])) \in LogRecord
  BY <1>1 DEF RecordOf, Chunk, LogRecord, StampInv, HeldRecord
<1>9. FullRecords' = FullRecords
  BY <1>5, <1>6, <1>7 DEF FullRecords, RecordOf
<1>10. HalfRecord' = RecordOf(Chunk("size", t, held[t]))
  BY <1>5, <1>6 DEF HalfRecord, RecordOf
<1>. QED
  BY <1>4, <1>8, <1>9, <1>10 DEF HalfRecord

(* Its payload: the half record becomes the last of the whole ones.        *)
LEMMA PayloadIsWritten ==
  ASSUME LoggerInv, WholeInv, NEW t \in Streams,
         thread[t] = "payload", log_file_ = "open",
         file' = Append(file, Chunk("data", t, held[t]))
  PROVE  /\ HalfRecord # [timestamp |-> 0]
         /\ HalfRecord' = [timestamp |-> 0]
         /\ FullRecords' = Append(FullRecords, HalfRecord)
<1>1. file \in Seq(FileChunk) /\ held[t] \in HeldRecord /\ held[t].datagram \in Datagram
  BY DEF LoggerInv, TypeOK, HoldsOne, FileChunk, HeldRecord
<1>2. Chunk("data", t, held[t]) \in FileChunk
  BY <1>1 DEF Chunk, FileChunk, HeldRecord
<1>3. \A u \in Streams : thread[u] = "payload" => u = t
  BY DEF WholeInv, MutexInv, InBlock
<1>4. Len(file) % 2 = 1 /\ file[Len(file)] = Chunk("size", t, held[t])
  BY <1>3 DEF WholeInv, LastRecord
<1>5. /\ Len(file') = Len(file) + 1
      /\ file'[Len(file')] = Chunk("data", t, held[t])
      /\ \A p \in 1..Len(file) : file'[p] = file[p]
  BY <1>1, <1>2, AppendProperties
<1>6. DEFINE n == Len(file) \div 2
<1>7. /\ n \in Nat /\ Len(file) = 2 * n + 1 /\ Len(file') = 2 * (n + 1)
      /\ Len(file') % 2 # 1 /\ Len(file') \div 2 = n + 1
  BY <1>1, <1>4, <1>5
<1>8. HalfRecord = RecordOf(Chunk("data", t, held[t]))
  BY <1>4 DEF HalfRecord, RecordOf, Chunk
<1>9. FullRecords' = [p \in 1..(n + 1) |-> RecordOf(file'[2 * p])]
  BY <1>7 DEF FullRecords, RecordOf
<1>10. FullRecords = [p \in 1..n |-> RecordOf(file[2 * p])]
  BY DEF FullRecords
<1>11. \A p \in 1..n : file'[2 * p] = file[2 * p]
  <2>1. \A p \in 1..n : 2 * p \in 1..Len(file)
    BY <1>7
  <2>. QED
    BY <2>1, <1>5
<1>12. file'[2 * (n + 1)] = Chunk("data", t, held[t])
  BY <1>5, <1>7
<1>13. FullRecords' = Append(FullRecords, HalfRecord)
  <2> DEFINE R == {RecordOf(file[2 * p]) : p \in 1..n} \cup {HalfRecord}
             longer == Append(FullRecords, HalfRecord)
  <2>1. FullRecords \in Seq(R) /\ HalfRecord \in R /\ Len(FullRecords) = n
    BY <1>7, <1>10
  <2>2. \A p \in 1..n : FullRecords'[p] = FullRecords[p]
    <3> TAKE p \in 1..n
    <3>1. p \in 1..(n + 1)
      BY <1>7
    <3>. QED
      BY <3>1, <1>9, <1>10, <1>11
  <2>3. FullRecords'[n + 1] = HalfRecord
    BY <1>7, <1>8, <1>9, <1>12
  <2>. HIDE DEF n, R
  <2>4. /\ longer \in Seq(R) /\ Len(longer) = n + 1 /\ longer[n + 1] = HalfRecord
        /\ \A p \in 1..n : longer[p] = FullRecords[p]
    BY <2>1, AppendProperties
  <2>. HIDE DEF longer
  <2>5. longer = [p \in 1..(n + 1) |-> longer[p]]
    BY <2>4
  <2>6. FullRecords' = [p \in 1..(n + 1) |-> FullRecords'[p]]
    BY <1>9
  <2>7. \A p \in 1..(n + 1) : p = n + 1 \/ p \in 1..n
    BY <1>7
  <2>8. \A p \in 1..(n + 1) : FullRecords'[p] = longer[p]
    BY <2>2, <2>3, <2>4, <2>7
  <2>9. FullRecords' = longer
    BY <2>5, <2>6, <2>8
  <2>. QED
    BY <2>9 DEF longer
<1>14. HalfRecord # [timestamp |-> 0]
  BY <1>8, HalfIsNone
<1>15. HalfRecord' = [timestamp |-> 0]
  BY <1>7 DEF HalfRecord
<1>. QED
  BY <1>13, <1>14, <1>15

LEMMA LogStep ==
  LoggerInv /\ WholeInv /\ StampInv /\ [Next]_vars => [Log!NextLog]_(Log!logFile)
<1> SUFFICES ASSUME LoggerInv, WholeInv, StampInv, [Next]_vars
             PROVE  [Log!NextLog]_(Log!logFile)
  OBVIOUS
<1>1. ASSUME UNCHANGED file PROVE UNCHANGED Log!logFile
  BY <1>1 DEF Log!logFile, RecordOf
<1>2. ASSUME NEW t \in Streams, WriteSize(t), ~UNCHANGED file PROVE Log!NextLog
  <2>1. /\ thread[t] = "size" /\ log_file_ = "open"
        /\ file' = Append(file, Chunk("size", t, held[t]))
    BY <1>2 DEF WriteSize, Write, Goto
  <2>2. Log!WriteSize
    BY <2>1, SizeIsWritten
       DEF Log!WriteSize, Log!NoRecord, HalfRecord, FullRecords, LogRecord
  <2>. QED
    BY <2>2 DEF Log!NextLog
<1>3. ASSUME NEW t \in Streams, WritePayload(t), ~UNCHANGED file PROVE Log!NextLog
  <2>1. /\ thread[t] = "payload" /\ log_file_ = "open"
        /\ file' = Append(file, Chunk("data", t, held[t]))
    BY <1>3 DEF WritePayload, Write, Goto
  <2>2. Log!WritePayload
    BY <2>1, PayloadIsWritten
       DEF Log!WritePayload, Log!NoRecord, HalfRecord, FullRecords
  <2>. QED
    BY <2>2 DEF Log!NextLog
<1>4. ASSUME ~\E t \in Streams : WriteSize(t) \/ WritePayload(t) PROVE UNCHANGED file
  <2>1. CASE MainNext \/ SigIntHandler \/ UNCHANGED vars
    BY <2>1 DEF MainNext, OpenLog, SpawnLogger, AllSpawned, LeaveLoop, DeleteLogger,
       CloseLog, Return, SigIntHandler, vars
  <2>2. ASSUME NEW t \in Streams, ThreadNext(t) \/ Arrive(t) PROVE UNCHANGED file
    BY <2>2, <1>4 DEF ThreadNext, OpenSocket, JoinGroup, CheckRun, LeaveThread, Receive,
       SetTimestamp, Lock, Unlock, UseDeleted, Arrive
  <2>. QED
    BY <2>1, <2>2 DEF Next
<1>. QED
  BY <1>1, <1>2, <1>3, <1>4

(* Logger implements LogFile: to a reader who does not wait for its end    *)
(* the file of any number of threads is a log that grows record by record, *)
(* whatever the schedule, the failing calls and the shutdown.              *)
THEOREM LoggerIsLogFile == Spec => ImplementsLogFile
<1>1. Init => Log!InitLog
  <2> SUFFICES ASSUME Init PROVE Log!InitLog
    OBVIOUS
  <2>1. file = <<>> /\ Len(file) = 0
    BY DEF Init
  <2>2. FullRecords = <<>>
    BY <2>1 DEF FullRecords
  <2>3. HalfRecord = [timestamp |-> 0]
    BY <2>1 DEF HalfRecord
  <2>. QED
    BY <2>2, <2>3 DEF Log!InitLog, Log!NoRecord, FullRecords, HalfRecord
<1>2. Init => LoggerInv /\ WholeInv /\ StampInv
  BY InitLoggerInv, InitWholeInv, InitStampInv
<1>3. LoggerInv /\ WholeInv /\ StampInv /\ [Next]_vars => (LoggerInv /\ WholeInv /\ StampInv)'
  BY StepLoggerInv, StepWholeInv, StepStampInv
<1>. QED
  BY <1>1, <1>2, <1>3, LogStep, PTL DEF Spec, ImplementsLogFile, Log!SpecLog
-----------------------------------------------------------------------------
(* Order and completeness of the log, and how far times can step back.     *)

(* How many datagrams have been taken from t's socket.                     *)
TakenFrom(t) == arrived[t] - Len(queue[t])

InHand == {"stamp", "lock", "size", "payload"}
Stamped == {"lock", "size", "payload"}

QueueInv ==
  \A t \in Streams :
    /\ Len(queue[t]) <= arrived[t]
    /\ \A i \in 1..Len(queue[t]) : queue[t][i].n = TakenFrom(t) + i

(* When the record in a thread's hands got its time, on the clock as it    *)
(* would be had nobody set it back.                                        *)
HeldAt(t) == held[t].timestamp + held[t].setBack

HandInv ==
  \A t \in Streams :
    /\ thread[t] \in InHand => held[t].datagram.n = TakenFrom(t)
    /\ thread[t] \in Stamped => HeldAt(t) <= Now

WrittenInv ==
  \A t \in Streams : \A p \in Written(t) :
    /\ file[p].datagram.n <= TakenFrom(t)
    /\ ReadAt(p) <= Now
    /\ thread[t] \in InHand => file[p].datagram.n < TakenFrom(t)
    /\ thread[t] \in Stamped => ReadAt(p) <= HeldAt(t)

(* Once a logger has written behind p, all it stamps and writes later got  *)
(* its time after p.                                                       *)
LateInv ==
  \A t, u \in Streams : \A p \in Written(t), q \in Written(u) : p < q =>
    /\ \A r \in Written(u) : q < r => ReadAt(p) <= ReadAt(r)
    /\ thread[u] \in Stamped => ReadAt(p) <= HeldAt(u)

(* What ReceivedIsLogged says, from before fopen on.                       *)
LoggedInv ==
  log_file_ \in {"unopened", "open"} =>
    \A t \in Streams : \A n \in 1..TakenFrom(t) :
      \/ n \in Empty
      \/ \E p \in Written(t) : file[p].datagram.n = n
      \/ thread[t] \in InHand /\ held[t].datagram.n = n

FlowInv == QueueInv /\ HandInv /\ WrittenInv /\ StreamOrder /\ LateInv /\ LoggedInv

LEMMA FlowTypes ==
  ASSUME TypeOK
  PROVE  /\ Now \in Nat
         /\ \A t \in Streams :
              /\ HeldAt(t) \in Nat
              /\ arrived[t] \in Nat /\ Len(queue[t]) \in Nat
              /\ queue[t] \in Seq(Datagram)
              /\ TakenFrom(t) \in Int
              /\ Written(t) \subseteq 1..Len(file)
              /\ \A p \in Written(t) : file[p] \in FileChunk /\ ReadAt(p) \in Nat
         /\ file \in Seq(FileChunk) /\ Len(file) \in Nat /\ DOMAIN file = 1..Len(file)
<1>1. file \in Seq(FileChunk)
  BY DEF TypeOK, FileChunk
<1>2. \A t \in Streams : queue[t] \in Seq(Datagram) /\ arrived[t] \in Nat
  BY DEF TypeOK
<1>3. \A p \in 1..Len(file) : file[p] \in FileChunk
  BY <1>1, ElementOfSeq
<1>4. \A t \in Streams : Len(queue[t]) \in Nat
  BY <1>2
<1>5. Len(file) \in Nat /\ DOMAIN file = 1..Len(file)
  BY <1>1
<1>6. Now \in Nat /\ \A t \in Streams : HeldAt(t) \in Nat
  BY DEF TypeOK, Now, HeldAt
<1>7. \A p \in 1..Len(file) : ReadAt(p) \in Nat
  BY <1>3 DEF FileChunk, ReadAt
<1>. QED
  BY <1>1, <1>2, <1>3, <1>4, <1>5, <1>6, <1>7 DEF Written, TakenFrom

(* A step that neither takes, stamps nor writes a record.                  *)
LEMMA NoFlow ==
  ASSUME FlowInv, UNCHANGED <<queue, arrived, held, time>>,
         \A t \in Streams :
           /\ thread'[t] \in InHand <=> thread[t] \in InHand
           /\ thread'[t] \in Stamped <=> thread[t] \in Stamped
           /\ Written(t)' = Written(t)
           /\ \A p \in Written(t) : file'[p] = file[p] /\ ReadAt(p)' = ReadAt(p),
         log_file_' \in {"unopened", "open"} => log_file_ \in {"unopened", "open"}
  PROVE  FlowInv'
<1>1. Now' = Now /\ \A t \in Streams : TakenFrom(t)' = TakenFrom(t) /\ HeldAt(t)' = HeldAt(t)
  BY DEF TakenFrom, Now, HeldAt
<1>2. QueueInv'
  BY <1>1 DEF FlowInv, QueueInv
<1>3. HandInv'
  BY <1>1 DEF FlowInv, HandInv
<1>4. WrittenInv'
  BY <1>1 DEF FlowInv, WrittenInv
<1>5. StreamOrder'
  BY DEF FlowInv, StreamOrder
<1>6. LateInv'
  BY <1>1 DEF FlowInv, LateInv
<1>7. LoggedInv'
  BY <1>1 DEF FlowInv, LoggedInv
<1>. QED
  BY <1>2, <1>3, <1>4, <1>5, <1>6, <1>7 DEF FlowInv

LEMMA FileKept ==
  ASSUME UNCHANGED file
  PROVE  \A t \in Streams :
           /\ Written(t)' = Written(t)
           /\ \A p \in Written(t) : file'[p] = file[p] /\ ReadAt(p)' = ReadAt(p)
BY DEF Written, ReadAt

LEMMA InitFlowInv == Init => FlowInv
<1> SUFFICES ASSUME Init PROVE FlowInv
  OBVIOUS
<1>1. /\ \A t \in Streams : Written(t) = {} /\ queue[t] = <<>> /\ arrived[t] = 0
                            /\ thread[t] = "none"
  BY DEF Init, Written
<1>2. \A t \in Streams : Len(queue[t]) = 0 /\ TakenFrom(t) = 0
  BY <1>1 DEF TakenFrom
<1>. QED
  BY <1>1, <1>2 DEF FlowInv, QueueInv, HandInv, WrittenInv, StreamOrder, LateInv,
     LoggedInv, InHand, Stamped

LEMMA ReceiveFlow ==
  ASSUME LoggerInv, FlowInv, NEW t \in Streams, Receive(t)
  PROVE  FlowInv'
<1> DEFINE d == Head(queue[t])
<1>1. /\ \A u \in Streams : arrived[u] \in Nat /\ Len(queue[u]) \in Nat
                            /\ queue[u] \in Seq(Datagram) /\ TakenFrom(u) \in Int
  BY FlowTypes DEF LoggerInv
<1>2. /\ queue[t] # <<>> /\ queue' = [queue EXCEPT ![t] = Tail(@)]
      /\ thread[t] = "recv" /\ UNCHANGED <<arrived, time, file, log_file_>>
      /\ \/ /\ d.n \in Empty /\ held' = held
            /\ thread' = [thread EXCEPT ![t] = "check"]
         \/ /\ held' = [held EXCEPT ![t].datagram = d]
            /\ thread' = [thread EXCEPT ![t] = "stamp"]
  BY DEF Receive, Goto, Taken, Skipped
<1>3. /\ Len(queue[t]) > 0
      /\ Len(Tail(queue[t])) = Len(queue[t]) - 1
      /\ \A i \in 1..(Len(queue[t]) - 1) : Tail(queue[t])[i] = queue[t][i + 1]
      /\ d = queue[t][1]
  BY <1>1, <1>2
<1>4. /\ d.n = TakenFrom(t) + 1
      /\ d \in Datagram
  BY <1>1, <1>2, <1>3, HeadTailProperties DEF FlowInv, QueueInv
<1> HIDE DEF d
<1>5. /\ queue'[t] = Tail(queue[t])
      /\ \A u \in Streams \ {t} : queue'[u] = queue[u] /\ held'[u] = held[u]
                                  /\ thread'[u] = thread[u]
      /\ \/ thread'[t] = "check" /\ d.n \in Empty /\ held'[t] = held[t]
         \/ thread'[t] = "stamp" /\ held'[t].datagram = d
      /\ Now' = Now /\ \A u \in Streams \ {t} : HeldAt(u)' = HeldAt(u)
  BY <1>2 DEF LoggerInv, TypeOK, Now, HeldAt
<1>6. /\ TakenFrom(t)' = TakenFrom(t) + 1
      /\ \A u \in Streams \ {t} : TakenFrom(u)' = TakenFrom(u)
  <2>1. /\ Len(queue'[t]) = Len(queue[t]) - 1 /\ arrived'[t] = arrived[t]
        /\ arrived[t] \in Nat /\ Len(queue[t]) \in Nat
    BY <1>1, <1>2, <1>3, <1>5
  <2>2. TakenFrom(t)' = TakenFrom(t) + 1
    BY <2>1 DEF TakenFrom
  <2>3. \A u \in Streams \ {t} : TakenFrom(u)' = TakenFrom(u)
    BY <1>2, <1>5 DEF TakenFrom
  <2>. QED
    BY <2>2, <2>3
<1>7. \A u \in Streams :
        /\ Written(u)' = Written(u)
        /\ \A p \in Written(u) : file'[p] = file[p] /\ ReadAt(p)' = ReadAt(p)
  BY <1>2, FileKept
<1>8. QueueInv'
  <2> SUFFICES ASSUME NEW u \in Streams
               PROVE  /\ Len(queue'[u]) <= arrived'[u]
                      /\ \A i \in 1..Len(queue'[u]) : queue'[u][i].n = TakenFrom(u)' + i
    BY DEF QueueInv
  <2>1. /\ Len(queue[u]) <= arrived[u] /\ arrived'[u] = arrived[u]
        /\ \A i \in 1..Len(queue[u]) : queue[u][i].n = TakenFrom(u) + i
    BY <1>2 DEF FlowInv, QueueInv
  <2>2. CASE u # t
    BY <2>1, <2>2, <1>5, <1>6
  <2>3. CASE u = t
    <3>1. Len(queue'[t]) = Len(queue[t]) - 1
      BY <1>3, <1>5
    <3>2. ASSUME NEW i \in 1..(Len(queue[t]) - 1)
          PROVE  queue'[t][i].n = TakenFrom(t)' + i
      <4>1. queue'[t][i] = queue[t][i + 1] /\ i + 1 \in 1..Len(queue[t])
        BY <1>1, <1>3, <1>5
      <4>2. queue[t][i + 1].n = TakenFrom(t) + (i + 1)
        BY <4>1, <2>1, <2>3
      <4>3. TakenFrom(t) \in Int /\ i \in Int /\ TakenFrom(t)' = TakenFrom(t) + 1
        BY <1>1, <1>6
      <4>. QED
        BY <4>1, <4>2, <4>3
    <3>3. Len(queue'[t]) <= arrived'[t]
      BY <3>1, <2>1, <2>3, <1>1
    <3>. QED
      BY <3>1, <3>2, <3>3, <2>3
  <2>. QED
    BY <2>2, <2>3
<1>9. HandInv'
  BY <1>2, <1>4, <1>5, <1>6 DEF FlowInv, HandInv, InHand, Stamped
<1>10. WrittenInv'
  <2>1. \A p \in Written(t) : file[p].datagram.n \in Nat
    BY FlowTypes DEF LoggerInv, FileChunk, Datagram
  <2>. QED
    BY <2>1, <1>1, <1>2, <1>5, <1>6, <1>7 DEF FlowInv, WrittenInv, InHand, Stamped
<1>11. StreamOrder' /\ LateInv'
  BY <1>5, <1>7 DEF FlowInv, StreamOrder, LateInv, Stamped
<1>12. LoggedInv'
  BY <1>1, <1>2, <1>4, <1>5, <1>6, <1>7 DEF FlowInv, LoggedInv, InHand
<1>. QED
  BY <1>8, <1>9, <1>10, <1>11, <1>12 DEF FlowInv

LEMMA StampFlow ==
  ASSUME LoggerInv, FlowInv, NEW t \in Streams, SetTimestamp(t)
  PROVE  FlowInv'
<1>1. /\ clock' \in Nat /\ setBack' \in Nat /\ Now <= Now'
      /\ Now \in Nat /\ Now' \in Nat
  BY ClockReading, FlowTypes DEF LoggerInv, Now
<1>2. /\ UNCHANGED <<arrived, queue, file, log_file_>>
      /\ thread[t] = "stamp" /\ thread'[t] = "lock"
      /\ held'[t].timestamp = clock' /\ held'[t].setBack = setBack'
      /\ held'[t].datagram = held[t].datagram
      /\ \A u \in Streams \ {t} : held'[u] = held[u] /\ thread'[u] = thread[u]
  BY DEF SetTimestamp, Goto, GetTimeUSec, LoggerInv, TypeOK
<1>3. \A u \in Streams :
        /\ Written(u)' = Written(u)
        /\ \A p \in Written(u) : file'[p] = file[p] /\ ReadAt(p)' = ReadAt(p)
        /\ TakenFrom(u)' = TakenFrom(u)
  BY <1>2, FileKept DEF TakenFrom
<1>4. \A u \in Streams : \A p \in Written(u) : ReadAt(p) \in Nat /\ ReadAt(p) <= Now
  BY FlowTypes DEF LoggerInv, FlowInv, WrittenInv
<1>5. /\ HeldAt(t)' = Now'
      /\ \A u \in Streams \ {t} : HeldAt(u)' = HeldAt(u)
      /\ \A u \in Streams : HeldAt(u) \in Nat
  BY <1>2, FlowTypes DEF LoggerInv, HeldAt, Now
<1>6. QueueInv'
  BY <1>2, <1>3 DEF FlowInv, QueueInv
<1>7. HandInv'
  BY <1>1, <1>2, <1>3, <1>5 DEF FlowInv, HandInv, InHand, Stamped
<1>8. WrittenInv'
  BY <1>1, <1>2, <1>3, <1>4, <1>5 DEF FlowInv, WrittenInv, InHand, Stamped
<1>9. StreamOrder' /\ LateInv'
  BY <1>1, <1>2, <1>3, <1>4, <1>5 DEF FlowInv, StreamOrder, LateInv
<1>10. LoggedInv'
  BY <1>2, <1>3 DEF FlowInv, LoggedInv, InHand
<1>. QED
  BY <1>6, <1>7, <1>8, <1>9, <1>10 DEF FlowInv

LEMMA SizeFlow ==
  ASSUME LoggerInv, FlowInv, NEW t \in Streams, WriteSize(t)
  PROVE  FlowInv'
<1>1. /\ file \in Seq(FileChunk) /\ Len(file) \in Nat /\ DOMAIN file = 1..Len(file)
  BY FlowTypes DEF LoggerInv
<1>2. /\ file' = file \/ file' = Append(file, Chunk("size", t, held[t]))
      /\ thread[t] = "size" /\ thread'[t] \in {"size", "payload"}
      /\ \A u \in Streams \ {t} : thread'[u] = thread[u]
      /\ UNCHANGED <<log_file_, queue, arrived, held, time>>
  BY DEF WriteSize, Write, Goto, LoggerInv, TypeOK
<1>3. \A u \in Streams :
        /\ Written(u)' = Written(u)
        /\ \A p \in Written(u) : file'[p] = file[p] /\ ReadAt(p)' = ReadAt(p)
  BY <1>1, <1>2 DEF Written, Chunk, ReadAt
<1>. QED
  BY <1>2, <1>3, NoFlow DEF InHand, Stamped

LEMMA PayloadFlow ==
  ASSUME LoggerInv, FlowInv, NEW t \in Streams, WritePayload(t)
  PROVE  FlowInv'
<1>1. /\ file \in Seq(FileChunk) /\ Len(file) \in Nat /\ DOMAIN file = 1..Len(file)
      /\ \A u \in Streams : /\ TakenFrom(u) \in Int /\ Written(u) \subseteq 1..Len(file)
                            /\ \A p \in Written(u) : file[p] \in FileChunk /\ ReadAt(p) \in Nat
      /\ Now \in Nat /\ \A u \in Streams : HeldAt(u) \in Nat
  BY FlowTypes DEF LoggerInv
<1>2. /\ thread[t] = "payload" /\ UNCHANGED <<log_file_, queue, arrived, held, time>>
      /\ \A u \in Streams \ {t} : thread'[u] = thread[u]
  BY DEF WritePayload, Write, Goto, LoggerInv, TypeOK
<1>3. /\ Now' = Now
      /\ \A u \in Streams : TakenFrom(u)' = TakenFrom(u) /\ HeldAt(u)' = HeldAt(u)
  BY <1>2 DEF TakenFrom, Now, HeldAt
<1>4. CASE log_file_ # "open"
  <2>1. /\ UNCHANGED file /\ log_file_ # "unopened"
        /\ thread'[t] = "payload" \/ thread'[t] = "unlock"
    BY <1>4, <1>2 DEF WritePayload, Write, Goto, LoggerInv, TypeOK
  <2>2. \A u \in Streams :
          /\ Written(u)' = Written(u)
          /\ \A p \in Written(u) : file'[p] = file[p] /\ ReadAt(p)' = ReadAt(p)
    BY <2>1, FileKept
  <2>3. QueueInv' /\ HandInv' /\ WrittenInv'
    BY <1>2, <1>3, <2>1, <2>2 DEF FlowInv, QueueInv, HandInv, WrittenInv, InHand, Stamped
  <2>4. StreamOrder' /\ LateInv'
    BY <1>2, <1>3, <2>1, <2>2 DEF FlowInv, StreamOrder, LateInv, Stamped
  <2>5. LoggedInv'
    BY <1>2, <1>4, <2>1 DEF LoggedInv
  <2>. QED
    BY <2>3, <2>4, <2>5 DEF FlowInv
<1>5. CASE log_file_ = "open"
  <2> DEFINE c == Chunk("data", t, held[t])
  <2>0. PICK last \in Nat : last = Len(file) + 1
    BY <1>1
  <2>1. file' = Append(file, c) /\ thread'[t] = "unlock"
    BY <1>5 DEF WritePayload, Write, Goto, LoggerInv, TypeOK
  <2>2. /\ c.kind = "data" /\ c.logger = t
        /\ c.datagram.n = TakenFrom(t)
        /\ c.timestamp + c.setBack = HeldAt(t)
        /\ HeldAt(t) <= Now
    BY <1>2 DEF Chunk, FlowInv, HandInv, InHand, Stamped, HeldAt
  <2> HIDE DEF c
  <2>3. /\ DOMAIN file' = 1..last
        /\ \A p \in 1..Len(file) : file'[p] = file[p]
        /\ file'[last] = c
        /\ ReadAt(last)' = HeldAt(t)
    BY <1>1, <2>0, <2>1, <2>2 DEF ReadAt
  <2>4. /\ Written(t)' = Written(t) \cup {last}
        /\ \A u \in Streams \ {t} : Written(u)' = Written(u)
        /\ \A u \in Streams : last \notin Written(u)
                              /\ \A p \in Written(u) :
                                   /\ p < last /\ file'[p] = file[p]
                                   /\ ReadAt(p)' = ReadAt(p)
        /\ last \in Nat
    BY <1>1, <2>0, <2>2, <2>3 DEF Written, ReadAt
  <2>5. \A p \in Written(t) : /\ file[p].datagram.n < c.datagram.n
                              /\ ReadAt(p) <= HeldAt(t)
    BY <1>2, <2>2 DEF FlowInv, WrittenInv, InHand, Stamped
  <2>6. QueueInv' /\ HandInv'
    BY <1>2, <1>3, <2>1 DEF FlowInv, QueueInv, HandInv, InHand, Stamped
  <2>7. WrittenInv'
    <3> SUFFICES ASSUME NEW u \in Streams, NEW p \in Written(u)'
                 PROVE  /\ file'[p].datagram.n <= TakenFrom(u)'
                        /\ ReadAt(p)' <= Now'
                        /\ thread'[u] \in InHand => file'[p].datagram.n < TakenFrom(u)'
                        /\ thread'[u] \in Stamped => ReadAt(p)' <= HeldAt(u)'
      BY DEF WrittenInv
    <3>1. CASE p \in Written(u)
      <4>1. /\ file'[p] = file[p] /\ ReadAt(p)' = ReadAt(p)
            /\ thread'[u] = thread[u] \/ thread'[u] \notin InHand \cup Stamped
        BY <3>1, <1>2, <2>1, <2>4 DEF InHand, Stamped
      <4>. QED
        BY <4>1, <3>1, <1>3 DEF FlowInv, WrittenInv
    <3>2. CASE u = t /\ p = last
      <4>1. file'[p].datagram.n = TakenFrom(t) /\ ReadAt(p)' = HeldAt(t)
        BY <3>2, <2>2, <2>3 DEF ReadAt
      <4>2. thread'[u] \notin InHand \cup Stamped
        BY <3>2, <2>1 DEF InHand, Stamped
      <4>. QED
        BY <4>1, <4>2, <3>2, <1>1, <1>3, <2>2
    <3>. QED
      BY <3>1, <3>2, <2>4
  <2>8. StreamOrder'
    <3> SUFFICES ASSUME NEW u \in Streams, NEW p \in Written(u)', NEW q \in Written(u)', p < q
                 PROVE  /\ file'[p].datagram.n < file'[q].datagram.n
                        /\ ReadAt(p)' <= ReadAt(q)'
      BY DEF StreamOrder
    <3>1. CASE q \in Written(u)
      <4>1. p \in Written(u)
        BY <3>1, <2>4, <1>1
      <4>. QED
        BY <4>1, <3>1, <2>4 DEF FlowInv, StreamOrder
    <3>2. CASE u = t /\ q = last
      <4>1. p \in Written(t)
        BY <3>2, <2>4
      <4>. QED
        BY <4>1, <3>2, <2>3, <2>4, <2>5 DEF ReadAt
    <3>. QED
      BY <3>1, <3>2, <2>4
  <2>9. LateInv'
    <3> SUFFICES ASSUME NEW s \in Streams, NEW u \in Streams,
                        NEW p \in Written(s)', NEW q \in Written(u)', p < q
                 PROVE  /\ \A r \in Written(u)' : q < r => ReadAt(p)' <= ReadAt(r)'
                        /\ thread'[u] \in Stamped => ReadAt(p)' <= HeldAt(u)'
      BY DEF LateInv
    <3>1. p \in Written(s)
      BY <2>4, <1>1
    <3>2. CASE q \in Written(u)
      <4>1. /\ \A r \in Written(u) : q < r => ReadAt(p) <= ReadAt(r)
            /\ thread[u] \in Stamped => ReadAt(p) <= HeldAt(u)
        BY <3>1, <3>2 DEF FlowInv, LateInv
      <4>2. thread'[u] \in Stamped => ReadAt(p)' <= HeldAt(u)'
        BY <4>1, <3>1, <1>2, <1>3, <2>1, <2>4 DEF Stamped
      <4>3. ASSUME NEW r \in Written(u)', q < r
            PROVE  ReadAt(p)' <= ReadAt(r)'
        <5>1. CASE r \in Written(u)
          BY <5>1, <4>1, <4>3, <3>1, <2>4
        <5>2. CASE u = t /\ r = last
          BY <5>2, <4>1, <3>1, <1>2, <2>3, <2>4 DEF Stamped, ReadAt
        <5>. QED
          BY <5>1, <5>2, <2>4
      <4>. QED
        BY <4>2, <4>3
    <3>3. CASE u = t /\ q = last
      <4>1. \A r \in Written(u)' : ~(q < r)
        BY <3>3, <2>4, <1>1
      <4>. QED
        BY <4>1, <3>3, <2>1 DEF Stamped
    <3>. QED
      BY <3>2, <3>3, <2>4
  <2>10. LoggedInv'
    <3> SUFFICES ASSUME NEW u \in Streams, NEW n \in 1..TakenFrom(u)
                 PROVE  \/ n \in Empty
                        \/ \E p \in Written(u)' : file'[p].datagram.n = n
                        \/ thread'[u] \in InHand /\ held'[u].datagram.n = n
      BY <1>3 DEF LoggedInv
    <3>1. \/ n \in Empty
          \/ \E p \in Written(u) : file[p].datagram.n = n
          \/ thread[u] \in InHand /\ held[u].datagram.n = n
      BY <1>5 DEF FlowInv, LoggedInv
    <3>2. \A p \in Written(u) : p \in Written(u)' /\ file'[p] = file[p]
      BY <2>4
    <3>3. CASE u = t /\ held[u].datagram.n = n
      <4>1. last \in Written(t)' /\ file'[last].datagram.n = held[t].datagram.n
        BY <2>3, <2>4 DEF c, Chunk
      <4>. QED
        BY <4>1, <3>3
    <3>. QED
      BY <3>1, <3>2, <3>3, <1>2
  <2>. QED
    BY <2>6, <2>7, <2>8, <2>9, <2>10 DEF FlowInv
<1>. QED
  BY <1>4, <1>5

LEMMA ArriveFlow ==
  ASSUME LoggerInv, FlowInv, NEW s \in Streams, Arrive(s)
  PROVE  FlowInv'
<1>1. \A u \in Streams : arrived[u] \in Nat /\ Len(queue[u]) \in Nat
                         /\ queue[u] \in Seq(Datagram)
  BY FlowTypes DEF LoggerInv
<1>2. /\ UNCHANGED <<file, log_file_, thread, held, time>>
      /\ Now' = Now /\ \A u \in Streams : HeldAt(u)' = HeldAt(u)
  BY DEF Arrive, Now, HeldAt
<1>3. \A u \in Streams :
        \/ queue'[u] = queue[u] /\ arrived'[u] = arrived[u]
        \/ /\ arrived'[u] = arrived[u] + 1
           /\ queue'[u] = Append(queue[u], [stream |-> s, n |-> arrived[u] + 1])
  BY DEF Arrive
<1>4. ASSUME NEW u \in Streams
      PROVE  /\ TakenFrom(u)' = TakenFrom(u)
             /\ Len(queue'[u]) <= arrived'[u]
             /\ \A i \in 1..Len(queue'[u]) : queue'[u][i].n = TakenFrom(u) + i
  <2>1. /\ Len(queue[u]) <= arrived[u] /\ arrived[u] \in Nat /\ Len(queue[u]) \in Nat
        /\ \A i \in 1..Len(queue[u]) : queue[u][i].n = TakenFrom(u) + i
    BY <1>1 DEF FlowInv, QueueInv
  <2>2. CASE queue'[u] = queue[u] /\ arrived'[u] = arrived[u]
    BY <2>1, <2>2 DEF TakenFrom
  <2>3. CASE /\ arrived'[u] = arrived[u] + 1
             /\ queue'[u] = Append(queue[u], [stream |-> s, n |-> arrived[u] + 1])
    <3> DEFINE d == [stream |-> s, n |-> arrived[u] + 1]
    <3>1. d \in Datagram /\ d.n = arrived[u] + 1
      BY <2>1 DEF Datagram
    <3>2. queue'[u] = Append(queue[u], d)
      BY <2>3
    <3> HIDE DEF d
    <3>3. /\ Len(queue'[u]) = Len(queue[u]) + 1
          /\ \A i \in 1..Len(queue[u]) : queue'[u][i] = queue[u][i]
          /\ queue'[u][Len(queue[u]) + 1] = d
      BY <3>1, <3>2, <1>1, AppendProperties
    <3>4. TakenFrom(u)' = TakenFrom(u)
      <4>1. /\ arrived'[u] = arrived[u] + 1 /\ Len(queue'[u]) = Len(queue[u]) + 1
            /\ arrived[u] \in Nat /\ Len(queue[u]) \in Nat
        BY <3>3, <2>1, <2>3
      <4>. QED
        BY <4>1 DEF TakenFrom
    <3>5. queue'[u][Len(queue[u]) + 1].n = TakenFrom(u) + (Len(queue[u]) + 1)
      BY <3>1, <3>3, <2>1 DEF TakenFrom
    <3>. QED
      BY <3>3, <3>4, <3>5, <2>1, <2>3
  <2>. QED
    BY <2>2, <2>3, <1>3
<1>5. \A u \in Streams : TakenFrom(u)' = TakenFrom(u)
  BY <1>4
<1>6. QueueInv'
  BY <1>4 DEF QueueInv
<1>7. \A u \in Streams :
        /\ Written(u)' = Written(u)
        /\ \A p \in Written(u) : file'[p] = file[p] /\ ReadAt(p)' = ReadAt(p)
  BY <1>2, FileKept
<1>8. HandInv' /\ WrittenInv'
  BY <1>2, <1>5, <1>7 DEF FlowInv, HandInv, WrittenInv
<1>9. StreamOrder' /\ LateInv' /\ LoggedInv'
  BY <1>2, <1>5, <1>7 DEF FlowInv, StreamOrder, LateInv, LoggedInv
<1>. QED
  BY <1>6, <1>8, <1>9 DEF FlowInv

LEMMA StepFlowInv == LoggerInv /\ WholeInv /\ FlowInv /\ [Next]_vars => FlowInv'
<1> SUFFICES ASSUME LoggerInv, WholeInv, FlowInv, [Next]_vars PROVE FlowInv'
  OBVIOUS
<1>t. TypeOK
  BY DEF LoggerInv
<1>1. CASE \/ OpenLog \/ AllSpawned \/ LeaveLoop \/ DeleteLogger \/ CloseLog \/ Return
           \/ SigIntHandler \/ UNCHANGED vars
  <2>1. /\ UNCHANGED <<file, thread, queue, arrived, held, time>>
        /\ log_file_' \in {"unopened", "open"} => log_file_ \in {"unopened", "open"}
    BY <1>1 DEF OpenLog, AllSpawned, LeaveLoop, DeleteLogger, CloseLog, Return,
       SigIntHandler, vars, WholeInv, BeforeOpen
  <2>. QED
    BY <2>1, FileKept, NoFlow
<1>2. CASE SpawnLogger
  <2>1. PICK start \in {"open", "ended"} :
          thread' = [thread EXCEPT ![spawned + 1] = start]
    BY <1>2 DEF SpawnLogger
  <2>2. /\ UNCHANGED <<file, log_file_, queue, arrived, held, time>>
        /\ spawned + 1 \in Streams /\ thread[spawned + 1] = "none"
    BY <1>2, <1>t, StreamsType DEF SpawnLogger, LoggerInv, Unspawned, TypeOK, Streams
  <2>3. \A t \in Streams :
          thread'[t] = thread[t] \/ (thread[t] = "none" /\ thread'[t] \in {"open", "ended"})
    BY <2>1, <2>2, <1>t DEF TypeOK
  <2>. QED
    BY <2>2, <2>3, FileKept, NoFlow DEF InHand, Stamped
<1>3. ASSUME NEW t \in Streams,
             \/ OpenSocket(t) \/ JoinGroup(t) \/ CheckRun(t) \/ LeaveThread(t)
             \/ Lock(t) \/ Unlock(t)
      PROVE  FlowInv'
  <2>1. /\ UNCHANGED <<file, log_file_, queue, arrived, held, time>>
        /\ \A u \in Streams \ {t} : thread'[u] = thread[u]
    BY <1>3, <1>t DEF OpenSocket, JoinGroup, CheckRun, LeaveThread, Lock, Unlock, Goto,
       TypeOK
  <2>2. \/ thread[t] = "lock" /\ thread'[t] = "size"
        \/ thread[t] \notin InHand /\ thread'[t] \notin InHand
    BY <1>3, <1>t DEF OpenSocket, JoinGroup, CheckRun, LeaveThread, Lock, Unlock, Goto,
       TypeOK, InHand
  <2>. QED
    BY <2>1, <2>2, FileKept, NoFlow DEF InHand, Stamped
<1>4. ASSUME NEW t \in Streams,
             Receive(t) \/ SetTimestamp(t) \/ WriteSize(t) \/ WritePayload(t)
      PROVE  FlowInv'
  BY <1>4, ReceiveFlow, StampFlow, SizeFlow, PayloadFlow
<1>5. ASSUME NEW s \in Streams, Arrive(s) PROVE FlowInv'
  BY <1>5, ArriveFlow
<1>6. ASSUME NEW t \in Streams, UseDeleted(t) PROVE FlowInv'
  <2>1. UNCHANGED <<file, log_file_, thread, queue, arrived, held, time>>
    BY <1>6 DEF UseDeleted
  <2>. QED
    BY <2>1, FileKept, NoFlow
<1>. QED
  BY <1>1, <1>2, <1>3, <1>4, <1>5, <1>6 DEF Next, MainNext, ThreadNext

LEMMA AlwaysFlowInv == Spec => [](LoggerInv /\ FlowInv)
BY InitLoggerInv, StepLoggerInv, InitWholeInv, StepWholeInv, InitFlowInv, StepFlowInv,
   PTL DEF Spec

(* Each logger writes its socket's datagrams in the order they arrived,    *)
(* each once and none with an earlier time, but for the clock being set    *)
(* back; for every number of streams and every behaviour of the clock.     *)
THEOREM StreamsInOrder == Spec => []StreamOrder
<1>1. FlowInv => StreamOrder
  BY DEF FlowInv
<1>. QED
  BY <1>1, AlwaysFlowInv, PTL

(* While the log is open, no datagram that left its socket is lost.        *)
THEOREM NothingLost == Spec => []ReceivedIsLogged
<1>1. FlowInv => ReceivedIsLogged
  BY DEF FlowInv, LoggedInv, ReceivedIsLogged, TakenFrom, InHand
<1>. QED
  BY <1>1, AlwaysFlowInv, PTL

(* Behind each record come at most as many whose time was read before its  *)
(* own as there are other loggers, one of each, whatever the clock does.   *)
THEOREM TimesStepBackOnce == Spec => []LateRecordsBounded
<1>1. ASSUME LoggerInv, FlowInv PROVE LateRecordsBounded
  <2> SUFFICES ASSUME NEW t \in Streams, NEW u \in Streams, NEW p \in Written(t)
               PROVE  Cardinality({ q \in Written(u) :
                          p < q /\ ReadAt(q) < ReadAt(p) })
                        <= (IF t = u THEN 0 ELSE 1)
    BY <1>1 DEF LateRecordsBounded
  <2> DEFINE Late == { q \in Written(u) : p < q /\ ReadAt(q) < ReadAt(p) }
  <2>1. /\ \A q \in Late : q \in Nat
        /\ \A s \in Streams : \A q \in Written(s) : ReadAt(q) \in Nat /\ q \in Nat
    BY <1>1, FlowTypes DEF LoggerInv
  <2>2. t = u => Late = {}
    BY <2>1, <1>1 DEF FlowInv, StreamOrder
  <2>3. ASSUME NEW q \in Late, NEW r \in Late PROVE q = r
    <3>1. ~(q < r) /\ ~(r < q)
      BY <2>1, <2>3, <1>1 DEF FlowInv, LateInv
    <3>. QED
      BY <3>1, <2>1
  <2> SUFFICES Cardinality(Late) <= (IF t = u THEN 0 ELSE 1)
    OBVIOUS
  <2> HIDE DEF Late
  <2>4. CASE Late = {}
    BY <2>4, FS_EmptySet
  <2>5. CASE \E q \in Late : TRUE
    <3>1. PICK q \in Late : Late = {q}
      BY <2>3, <2>5
    <3>2. Cardinality(Late) = 1
      BY <3>1, FS_Singleton
    <3>. QED
      BY <3>2, <2>2, <2>5
  <2>. QED
    BY <2>4, <2>5
<1>. QED
  BY <1>1, AlwaysFlowInv, PTL
=============================================================================
