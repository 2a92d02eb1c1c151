---------------------------- MODULE EchoProofs ----------------------------
(***************************************************************************)
(* Proofs about Echo: how far a client that pairs replies with lines by    *)
(* their order alone can fall behind, and what must have happened when it  *)
(* does; for every input, every size of the sockets' buffers and every     *)
(* loss, repetition and reordering.                                        *)
(***************************************************************************)
EXTENDS Echo, FiniteSetTheorems, SequenceTheorems, TLAPS

USE DEF netVars, serverVars, clientVars

Elements(q) == { q[k] : k \in 1..Len(q) }

(* The lines that some datagram still carries.                             *)
Carried ==
  { p[2] : p \in inFlight }
    \cup Elements(queue["server"]) \cup Elements(queue["client"])
    \cup (IF server = "send" THEN {echo} ELSE {})

To(net, n) == { p \in net : p[1] = n }

(* What TypeOK lacks: the queues' elements, and what the sets need to be   *)
(* counted.                                                                *)
NetInv ==
  /\ queue \in [Node -> Seq(Lines)]
  /\ IsFiniteSet(inFlight) /\ IsFiniteSet(silent)
  /\ Carried \subseteq 1..line

(* The client's lines and replies: one reply for each line.                *)
ReplyInv ==
  /\ Len(replies) = IF client \in {"fgets", "done"} THEN line ELSE line - 1
  /\ client \in {"send", "wait", "recv"} => msg = line /\ line \notin silent
  /\ client \notin {"fgets", "done"} => line >= 1
  /\ client = "print" =>
       /\ msg >= 1
       /\ msg = line \/ repeated > 0 \/ \E k \in silent : k < line

(* Until a line has no reply in time or a datagram is repeated, whatever   *)
(* is under way carries the line that was read last.                       *)
SoloInv == repeated = 0 /\ silent = {} => Carried \subseteq {line}

(* The numbers that the bounds are about.                                  *)
Waiting == IF client \in {"wait", "recv"} THEN 1 ELSE 0
Sending == IF server = "send" THEN 1 ELSE 0
Flying == Cardinality(inFlight)
FlyingTo(n) == Cardinality(To(inFlight, n))
QueuedAt(n) == Len(queue[n])
SentBy(n) == counters[n].sent_packets
ReceivedBy(n) == counters[n].recv_packets

BehindInv ==
  Flying + QueuedAt("server") + QueuedAt("client") + Sending
    <= Cardinality(silent) + repeated + Waiting

(* The sockets' counters, with what is under way in each direction.        *)
CountersInv ==
  client # "done" =>
    /\ ReceivedBy("server") + QueuedAt("server") + FlyingTo("server")
         <= SentBy("client") + repeated
    /\ SentBy("server") + Sending <= ReceivedBy("server")
    /\ ReceivedBy("client") + QueuedAt("client") + FlyingTo("client")
         <= SentBy("server") + repeated

IInv == /\ TypeOK /\ NetInv /\ ReplyInv /\ SoloInv /\ BehindInv /\ CountersInv
        /\ StaleReplyHasCause

-----------------------------------------------------------------------------
(* What the socket operations do to the queues, the counters and the       *)
(* datagrams on their way.                                                 *)
Counts == [sent_packets: Nat, recv_packets: Nat]

LEMMA QueueOps ==
  ASSUME NEW q \in Seq(Lines)
  PROVE  /\ Len(q) \in Nat /\ Elements(q) \subseteq Lines
         /\ q # <<>> => /\ Head(q) \in Elements(q) /\ Tail(q) \in Seq(Lines)
                        /\ Len(Tail(q)) = Len(q) - 1 /\ Len(q) >= 1
                        /\ Elements(Tail(q)) \subseteq Elements(q)
         /\ \A m \in Lines : /\ Append(q, m) \in Seq(Lines)
                             /\ Len(Append(q, m)) = Len(q) + 1
                             /\ Elements(Append(q, m)) \subseteq Elements(q) \cup {m}
<1>1. Len(q) \in Nat /\ \A k \in 1..Len(q) : q[k] \in Lines
  BY ElementOfSeq
<1>2. Elements(q) \subseteq Lines
  BY <1>1 DEF Elements
<1>3. ASSUME q # <<>>
      PROVE  /\ Head(q) \in Elements(q) /\ Tail(q) \in Seq(Lines)
             /\ Len(Tail(q)) = Len(q) - 1 /\ Len(q) >= 1
             /\ Elements(Tail(q)) \subseteq Elements(q)
  <2>1. Len(q) >= 1 /\ Head(q) = q[1] /\ 1 \in 1..Len(q)
    BY <1>1, <1>3
  <2>2. /\ Tail(q) \in Seq(Lines) /\ Len(Tail(q)) = Len(q) - 1
        /\ \A k \in 1..Len(Tail(q)) : Tail(q)[k] = q[k + 1]
    BY <1>3, HeadTailProperties
  <2>3. \A k \in 1..Len(Tail(q)) : k + 1 \in 1..Len(q)
    BY <1>1, <2>2
  <2>4. Elements(Tail(q)) \subseteq Elements(q)
    BY <2>2, <2>3 DEF Elements
  <2>. QED
    BY <2>1, <2>2, <2>4 DEF Elements
<1>4. ASSUME NEW m \in Lines
      PROVE  /\ Append(q, m) \in Seq(Lines) /\ Len(Append(q, m)) = Len(q) + 1
             /\ Elements(Append(q, m)) \subseteq Elements(q) \cup {m}
  <2> DEFINE longer == Append(q, m)
  <2>1. /\ longer \in Seq(Lines) /\ Len(longer) = Len(q) + 1
        /\ \A k \in 1..Len(q) : longer[k] = q[k]
        /\ longer[Len(q) + 1] = m
    BY AppendProperties
  <2> HIDE DEF longer
  <2>2. \A k \in 1..Len(longer) : k \in 1..Len(q) \/ k = Len(q) + 1
    BY <1>1, <2>1
  <2>3. Elements(longer) \subseteq Elements(q) \cup {m}
    BY <2>1, <2>2 DEF Elements
  <2>. QED
    BY <2>1, <2>3 DEF longer
<1>. QED
  BY <1>1, <1>2, <1>3, <1>4

LEMMA ToFinite ==
  ASSUME NEW net, IsFiniteSet(net)
  PROVE  /\ Cardinality(net) \in Nat
         /\ \A n : IsFiniteSet(To(net, n)) /\ Cardinality(To(net, n)) \in Nat
<1>1. \A n : To(net, n) \in SUBSET net
  BY DEF To
<1>. QED
  BY <1>1, FS_Subset, FS_CardinalityType

(* One more datagram on its way, unless the same one already is.           *)
LEMMA Sent ==
  ASSUME NEW net, IsFiniteSet(net), NEW to, NEW m
  PROVE  /\ IsFiniteSet(net \cup {<<to, m>>})
         /\ Cardinality(net \cup {<<to, m>>}) <= Cardinality(net) + 1
         /\ Cardinality(To(net \cup {<<to, m>>}, to)) <= Cardinality(To(net, to)) + 1
         /\ \A n : n # to => To(net \cup {<<to, m>>}, n) = To(net, n)
<1> DEFINE x == <<to, m>>
           more == net \cup {x}
<1>1. /\ IsFiniteSet(more)
      /\ Cardinality(more) = IF x \in net THEN Cardinality(net) ELSE Cardinality(net) + 1
  BY FS_AddElement
<1>2. Cardinality(net) \in Nat /\ Cardinality(To(net, to)) \in Nat
  BY ToFinite
<1>3. To(more, to) = To(net, to) \cup {x}
  BY DEF To
<1>4. IsFiniteSet(To(net, to))
  BY ToFinite
<1>5. Cardinality(To(net, to) \cup {x}) =
        IF x \in To(net, to) THEN Cardinality(To(net, to)) ELSE Cardinality(To(net, to)) + 1
  BY <1>4, FS_AddElement
<1>x. x[1] = to
  OBVIOUS
<1> HIDE DEF x
<1>6. ASSUME NEW n, n # to PROVE To(more, n) = To(net, n)
  <2>1. \A p : p \in To(more, n) <=> p \in To(net, n)
    BY <1>x, <1>6 DEF To
  <2>. QED
    BY <2>1
<1> HIDE DEF more
<1> DEFINE a == Cardinality(To(net, to))
           b == Cardinality(To(more, to))
<1>7. b <= a + 1
  <2>1. b = a \/ b = a + 1
    BY <1>3, <1>5, Zenon
  <2>2. a \in Nat
    BY <1>2
  <2> HIDE DEF a, b
  <2>. QED
    BY <2>1, <2>2
<1>8. Cardinality(more) <= Cardinality(net) + 1
  BY <1>1, <1>2
<1>. QED
  BY <1>1, <1>6, <1>7, <1>8 DEF x, more

(* One datagram less.                                                      *)
LEMMA Gone ==
  ASSUME NEW net, IsFiniteSet(net), NEW x \in net
  PROVE  /\ IsFiniteSet(net \ {x})
         /\ Cardinality(net \ {x}) = Cardinality(net) - 1
         /\ Cardinality(To(net \ {x}, x[1])) = Cardinality(To(net, x[1])) - 1
         /\ \A n : n # x[1] => To(net \ {x}, n) = To(net, n)
<1>1. /\ IsFiniteSet(net \ {x}) /\ Cardinality(net \ {x}) = Cardinality(net) - 1
  BY FS_RemoveElement
<1>2. To(net \ {x}, x[1]) = To(net, x[1]) \ {x} /\ x \in To(net, x[1])
  BY DEF To
<1>3. IsFiniteSet(To(net, x[1]))
  BY ToFinite
<1>4. Cardinality(To(net, x[1]) \ {x}) = Cardinality(To(net, x[1])) - 1
  BY <1>2, <1>3, FS_RemoveElement
<1>5. \A n : n # x[1] => To(net \ {x}, n) = To(net, n)
  BY DEF To
<1>. QED
  BY <1>1, <1>2, <1>4, <1>5

LEMMA Numbers ==
  ASSUME TypeOK, NetInv
  PROVE  /\ \A n \in Node : /\ queue[n] \in Seq(Lines) /\ counters[n] \in Counts
                            /\ QueuedAt(n) \in Nat /\ FlyingTo(n) \in Nat
                            /\ SentBy(n) \in Nat /\ ReceivedBy(n) \in Nat
         /\ Flying \in Nat /\ Cardinality(silent) \in Nat
         /\ line \in Nat /\ repeated \in Nat /\ msg \in Nat
         /\ Waiting \in Nat /\ Sending \in Nat /\ 1..line \subseteq Lines
         /\ "server" \in Node /\ "client" \in Node
<1>1. Flying \in Nat /\ \A n \in Node : FlyingTo(n) \in Nat
  BY ToFinite DEF NetInv, Flying, FlyingTo
<1>2. Cardinality(silent) \in Nat
  BY FS_CardinalityType DEF NetInv
<1>3. \A n \in Node : queue[n] \in Seq(Lines) /\ QueuedAt(n) \in Nat
  BY QueueOps DEF NetInv, QueuedAt
<1>4. \A n \in Node : counters[n] \in Counts
  BY DEF TypeOK, Counts
<1>5. \A n \in Node : SentBy(n) \in Nat /\ ReceivedBy(n) \in Nat
  BY <1>4 DEF Counts, SentBy, ReceivedBy
<1>6. line \in Nat /\ repeated \in Nat /\ msg \in Nat /\ 1..line \subseteq Lines
  BY EchoAssumption DEF TypeOK, Lines
<1>7. /\ Waiting \in Nat /\ Sending \in Nat
      /\ "server" \in Node /\ "client" \in Node
  BY DEF Waiting, Sending, Node
<1>. QED
  BY <1>1, <1>2, <1>3, <1>4, <1>5, <1>6, <1>7

LEMMA Bounds ==
  ASSUME IInv
  PROVE  /\ QueuedAt("server") \in Nat /\ QueuedAt("client") \in Nat
         /\ FlyingTo("server") \in Nat /\ FlyingTo("client") \in Nat
         /\ SentBy("server") \in Nat /\ SentBy("client") \in Nat
         /\ ReceivedBy("server") \in Nat /\ ReceivedBy("client") \in Nat
         /\ Flying \in Nat /\ Cardinality(silent) \in Nat /\ repeated \in Nat
         /\ Waiting \in Nat /\ Sending \in Nat
         /\ Flying + QueuedAt("server") + QueuedAt("client") + Sending
              <= Cardinality(silent) + repeated + Waiting
         /\ client # "done" =>
              /\ ReceivedBy("server") + QueuedAt("server") + FlyingTo("server")
                   <= SentBy("client") + repeated
              /\ SentBy("server") + Sending <= ReceivedBy("server")
              /\ ReceivedBy("client") + QueuedAt("client") + FlyingTo("client")
                   <= SentBy("server") + repeated
  BY Numbers DEF IInv, BehindInv, CountersInv

LEMMA RecvNet ==
  ASSUME TypeOK, NetInv, NEW n \in Node, NEW o \in Node, o # n, Recv(n)
  PROVE  /\ counters' \in [Node -> Counts] /\ queue' \in [Node -> Seq(Lines)]
         /\ ReceivedBy(n)' = ReceivedBy(n) + 1 /\ SentBy(n)' = SentBy(n)
         /\ ReceivedBy(o)' = ReceivedBy(o) /\ SentBy(o)' = SentBy(o)
         /\ QueuedAt(n)' = QueuedAt(n) - 1 /\ QueuedAt(o)' = QueuedAt(o)
         /\ \A x \in Node : Len(queue'[x]) <= SocketBuffer
         /\ Head(queue[n]) \in Elements(queue[n])
         /\ \A x \in Node : Elements(queue'[x]) \subseteq Elements(queue[x])
<1> DEFINE q == queue[n]
           more == counters[n].recv_packets + 1
<1>1. /\ q # <<>> /\ queue' = [queue EXCEPT ![n] = Tail(q)]
      /\ counters' = [counters EXCEPT ![n] = [counters[n] EXCEPT !.recv_packets = more]]
  BY DEF Recv
<1>2. q \in Seq(Lines) /\ queue \in [Node -> Seq(Lines)]
  BY DEF NetInv
<1>3. /\ Tail(q) \in Seq(Lines) /\ Len(Tail(q)) = Len(q) - 1
      /\ Head(q) \in Elements(q) /\ Elements(Tail(q)) \subseteq Elements(q)
      /\ Len(q) \in Nat
  BY <1>1, <1>2, QueueOps
<1>4. /\ queue' \in [Node -> Seq(Lines)] /\ queue'[n] = Tail(q)
      /\ \A x \in Node : x # n => queue'[x] = queue[x]
  <2>1. queue' = [queue EXCEPT ![n] = Tail(q)]
    BY <1>1
  <2>. QED
    BY <2>1, <1>2, <1>3
<1>5. \A x \in Node : Len(queue'[x]) <= SocketBuffer
  <2>1. Len(q) <= SocketBuffer /\ SocketBuffer \in Nat
    BY EchoAssumption DEF TypeOK
  <2>2. Len(Tail(q)) <= SocketBuffer
    BY <2>1, <1>3
  <2>. QED
    BY <2>2, <1>4 DEF TypeOK
<1>6. more \in Nat /\ counters[n] \in Counts /\ counters \in [Node -> Counts]
  <2>1. counters[n] \in Counts
    BY Numbers
  <2>2. more \in Nat
    BY <2>1 DEF Counts
  <2>3. counters \in [Node -> Counts]
    BY DEF TypeOK, Counts
  <2>. QED
    BY <2>1, <2>2, <2>3
<1>7. counters' = [counters EXCEPT ![n] = [counters[n] EXCEPT !.recv_packets = more]]
  BY <1>1
<1>8. more = ReceivedBy(n) + 1
  BY DEF ReceivedBy
<1> HIDE DEF more, q
<1>9. counters'[n].recv_packets = more /\ counters'[n].sent_packets = counters[n].sent_packets
  BY <1>6, <1>7 DEF Counts
<1>10. counters' \in [Node -> Counts]
  BY <1>6, <1>7 DEF Counts
<1>11. counters'[o] = counters[o]
  BY <1>6, <1>7
<1>12. ReceivedBy(n)' = ReceivedBy(n) + 1
  BY <1>8, <1>9 DEF ReceivedBy
<1>13. /\ SentBy(n)' = SentBy(n)
       /\ ReceivedBy(o)' = ReceivedBy(o) /\ SentBy(o)' = SentBy(o)
  BY <1>9, <1>11 DEF ReceivedBy, SentBy
<1>14. QueuedAt(n)' = QueuedAt(n) - 1 /\ QueuedAt(o)' = QueuedAt(o)
  BY <1>3, <1>4 DEF QueuedAt, q
<1>15. \A x \in Node : Elements(queue'[x]) \subseteq Elements(queue[x])
  BY <1>3, <1>4 DEF q
<1>. QED
  BY <1>3, <1>4, <1>5, <1>10, <1>12, <1>13, <1>14, <1>15 DEF q

(* What sendto accepts is counted and on its way; that it may be on its    *)
(* way already only makes the inequalities wider.                          *)
LEMMA SendNet ==
  ASSUME TypeOK, NetInv, NEW n \in Node, NEW o \in Node, o # n, NEW d \in Lines,
         Send(n, o, d)
  PROVE  /\ counters' \in [Node -> Counts]
         /\ inFlight' \subseteq Node \X Lines /\ IsFiniteSet(inFlight')
         /\ { p[2] : p \in inFlight' } \subseteq { p[2] : p \in inFlight } \cup {d}
         /\ Flying' \in Nat /\ Flying' <= Flying + 1
         /\ FlyingTo(o)' \in Nat /\ SentBy(n)' \in Nat
         /\ FlyingTo(n)' = FlyingTo(n)
         /\ FlyingTo(o)' + SentBy(n) <= FlyingTo(o) + SentBy(n)'
         /\ SentBy(n)' <= SentBy(n) + 1
         /\ ReceivedBy(n)' = ReceivedBy(n)
         /\ ReceivedBy(o)' = ReceivedBy(o) /\ SentBy(o)' = SentBy(o)
<1>n. /\ Flying \in Nat /\ FlyingTo(n) \in Nat /\ FlyingTo(o) \in Nat
      /\ SentBy(n) \in Nat /\ counters[n] \in Counts
  BY Numbers
<1>t. /\ counters \in [Node -> Counts] /\ IsFiniteSet(inFlight)
      /\ inFlight \subseteq Node \X Lines
  BY DEF TypeOK, NetInv, Counts
<1>1. CASE UNCHANGED <<inFlight, counters>>
  <2>1. /\ Flying' = Flying /\ FlyingTo(n)' = FlyingTo(n) /\ FlyingTo(o)' = FlyingTo(o)
        /\ SentBy(n)' = SentBy(n) /\ ReceivedBy(n)' = ReceivedBy(n)
        /\ ReceivedBy(o)' = ReceivedBy(o) /\ SentBy(o)' = SentBy(o)
    BY <1>1 DEF Flying, FlyingTo, SentBy, ReceivedBy
  <2>2. /\ counters' \in [Node -> Counts]
        /\ inFlight' \subseteq Node \X Lines /\ IsFiniteSet(inFlight')
        /\ { p[2] : p \in inFlight' } \subseteq { p[2] : p \in inFlight } \cup {d}
    BY <1>1, <1>t
  <2>3. /\ FlyingTo(o)' + SentBy(n) <= FlyingTo(o) + SentBy(n)'
        /\ SentBy(n)' <= SentBy(n) + 1 /\ Flying' <= Flying + 1
    BY <1>n, <2>1
  <2>. QED
    BY <1>n, <2>1, <2>2, <2>3
<1>2. CASE ~UNCHANGED <<inFlight, counters>>
  <2> DEFINE more == counters[n].sent_packets + 1
             wider == inFlight \cup {<<o, d>>}
  <2>1. /\ inFlight' = wider
        /\ counters' = [counters EXCEPT ![n] = [counters[n] EXCEPT !.sent_packets = more]]
    BY <1>2 DEF Send
  <2>2. more \in Nat
    BY <1>n DEF SentBy
  <2>3. /\ IsFiniteSet(wider) /\ Cardinality(wider) <= Cardinality(inFlight) + 1
        /\ Cardinality(To(wider, o)) <= Cardinality(To(inFlight, o)) + 1
        /\ To(wider, n) = To(inFlight, n)
    <3>1. IsFiniteSet(inFlight) /\ n # o
      BY <1>t
    <3>2. IsFiniteSet(wider)
      BY <3>1, Sent
    <3>3. Cardinality(wider) <= Cardinality(inFlight) + 1
      BY <3>1, Sent
    <3>4. Cardinality(To(wider, o)) <= Cardinality(To(inFlight, o)) + 1
      BY <3>1, Sent
    <3>5. To(wider, n) = To(inFlight, n)
      BY <3>1, Sent
    <3>. QED
      BY <3>2, <3>3, <3>4, <3>5
  <2>4. /\ wider \subseteq Node \X Lines
        /\ { p[2] : p \in wider } \subseteq { p[2] : p \in inFlight } \cup {d}
    BY <1>t
  <2>c. counters' = [counters EXCEPT ![n] = [counters[n] EXCEPT !.sent_packets = more]]
    BY <2>1
  <2>i. inFlight' = wider
    BY <2>1
  <2>5. more = SentBy(n) + 1
    BY DEF SentBy
  <2> HIDE DEF more, wider
  <2>6. Cardinality(wider) \in Nat /\ Cardinality(To(wider, o)) \in Nat
    BY <2>3, ToFinite
  <2>7. /\ counters'[n].sent_packets = more
        /\ counters'[n].recv_packets = counters[n].recv_packets
    BY <1>n, <1>t, <2>c DEF Counts
  <2>8. counters' \in [Node -> Counts]
    BY <1>n, <1>t, <2>2, <2>c DEF Counts
  <2>9. counters'[o] = counters[o]
    BY <1>t, <2>c
  <2>10. SentBy(n)' = SentBy(n) + 1
    BY <2>5, <2>7 DEF SentBy
  <2>11. /\ ReceivedBy(n)' = ReceivedBy(n)
         /\ ReceivedBy(o)' = ReceivedBy(o) /\ SentBy(o)' = SentBy(o)
    BY <2>7, <2>9 DEF SentBy, ReceivedBy
  <2>12. /\ Flying' = Cardinality(wider) /\ Flying = Cardinality(inFlight)
         /\ FlyingTo(o)' = Cardinality(To(wider, o))
         /\ FlyingTo(o) = Cardinality(To(inFlight, o))
         /\ FlyingTo(n)' = FlyingTo(n)
    BY <2>3, <2>i DEF Flying, FlyingTo
  <2>13. /\ Flying' \in Nat /\ Flying' <= Flying + 1
         /\ FlyingTo(o)' \in Nat /\ FlyingTo(o)' <= FlyingTo(o) + 1
    BY <2>3, <2>6, <2>12
  <2>14. /\ SentBy(n)' \in Nat /\ SentBy(n)' <= SentBy(n) + 1
         /\ FlyingTo(o)' + SentBy(n) <= FlyingTo(o) + SentBy(n)'
    BY <1>n, <2>10, <2>13
  <2>. QED
    BY <2>i, <2>3, <2>4, <2>8, <2>11, <2>12, <2>13, <2>14
<1>. QED
  BY <1>1, <1>2
-----------------------------------------------------------------------------
(* The initial state, and what a step leaves alone.                        *)
LEMMA InitIInv == Init => IInv
<1> SUFFICES ASSUME Init PROVE IInv
  OBVIOUS
<1>1. /\ queue["server"] = <<>> /\ queue["client"] = <<>> /\ inFlight = {}
      /\ silent = {} /\ repeated = 0 /\ line = 0 /\ msg = 0 /\ echo = 0
      /\ replies = <<>> /\ client = "fgets" /\ server = "unopened"
      /\ \A n \in Node : counters[n] = Closed /\ queue[n] = <<>>
  BY DEF Init, Node
<1>2. TypeOK
  <2>1. counters \in [Node -> [sent_packets: Nat, recv_packets: Nat]]
    BY DEF Init, Closed
  <2>. QED
    BY <1>1, <2>1, EchoAssumption DEF TypeOK
<1>3. NetInv
  <2>1. queue \in [Node -> Seq(Lines)]
    BY DEF Init
  <2>2. IsFiniteSet(inFlight) /\ IsFiniteSet(silent)
    BY <1>1, FS_EmptySet
  <2>3. Carried = {}
    BY <1>1 DEF Carried, Elements
  <2>. QED
    BY <2>1, <2>2, <2>3 DEF NetInv
<1>4. ReplyInv /\ SoloInv /\ StaleReplyHasCause
  <2>1. Carried = {}
    BY <1>1 DEF Carried, Elements
  <2>. QED
    BY <1>1, <2>1 DEF ReplyInv, SoloInv, StaleReplyHasCause
<1>5. BehindInv /\ CountersInv
  <2>1. Cardinality({}) = 0
    BY FS_EmptySet
  <2>2. \A n \in Node : To(inFlight, n) = {}
    BY <1>1 DEF To
  <2>3. "server" \in Node /\ "client" \in Node
    BY DEF Node
  <2>4. /\ Flying = 0 /\ Cardinality(silent) = 0 /\ Waiting = 0 /\ Sending = 0
        /\ \A n \in Node : /\ QueuedAt(n) = 0 /\ FlyingTo(n) = 0
                           /\ SentBy(n) = 0 /\ ReceivedBy(n) = 0
    BY <1>1, <2>1, <2>2
       DEF Flying, FlyingTo, QueuedAt, SentBy, ReceivedBy, Waiting, Sending, Closed
  <2>. QED
    BY <1>1, <2>3, <2>4 DEF BehindInv, CountersInv
<1>. QED
  BY <1>2, <1>3, <1>4, <1>5 DEF IInv

LEMMA NetSame ==
  ASSUME UNCHANGED <<netVars, serverVars>>
  PROVE  /\ Carried' = Carried /\ Flying' = Flying /\ Sending' = Sending
         /\ \A n \in Node : /\ QueuedAt(n)' = QueuedAt(n) /\ FlyingTo(n)' = FlyingTo(n)
                            /\ SentBy(n)' = SentBy(n) /\ ReceivedBy(n)' = ReceivedBy(n)
<1>1. Carried' = Carried
  BY DEF Carried
<1>2. Flying' = Flying /\ Sending' = Sending
  BY DEF Flying, Sending
<1>3. \A n \in Node : /\ QueuedAt(n)' = QueuedAt(n) /\ FlyingTo(n)' = FlyingTo(n)
                      /\ SentBy(n)' = SentBy(n) /\ ReceivedBy(n)' = ReceivedBy(n)
  BY DEF QueuedAt, FlyingTo, SentBy, ReceivedBy
<1>. QED
  BY <1>1, <1>2, <1>3

(* A cause of a late reply never goes away.                                *)
LEMMA CauseStays ==
  ASSUME StaleReplyHasCause, replies' = replies, repeated \in Nat,
         repeated' \in Nat, repeated' >= repeated, silent \subseteq silent'
  PROVE  StaleReplyHasCause'
<1>1. repeated > 0 => repeated' > 0
  OBVIOUS
<1>. QED
  BY <1>1 DEF StaleReplyHasCause

(* Steps that take no line to the network.                                 *)
LEMMA CarriedStays ==
  ASSUME IInv, Carried' \subseteq Carried, line' = line, silent' = silent,
         repeated' \in Nat, repeated' >= repeated
  PROVE  Carried' \subseteq 1..line' /\ SoloInv'
<1>1. repeated \in Nat /\ (repeated' = 0 => repeated = 0)
  BY Numbers DEF IInv
<1>2. Carried \subseteq 1..line
  BY DEF IInv, NetInv
<1>. QED
  BY <1>1, <1>2 DEF IInv, SoloInv

(* Before the first silent line and the first repetition, a client that    *)
(* waits for nothing has nothing under way.                                *)
LEMMA NothingCarried ==
  ASSUME IInv, repeated = 0, silent = {}, Waiting = 0
  PROVE  Carried = {}
<1>1. Cardinality(silent) = 0
  BY FS_EmptySet
<1>2. /\ Flying \in Nat /\ Sending \in Nat
      /\ QueuedAt("server") \in Nat /\ QueuedAt("client") \in Nat
  BY Numbers DEF IInv
<1>3. Flying + QueuedAt("server") + QueuedAt("client") + Sending <= 0
  BY <1>1 DEF IInv, BehindInv
<1>4. Flying = 0 /\ QueuedAt("server") = 0 /\ QueuedAt("client") = 0 /\ Sending = 0
  BY <1>2, <1>3
<1>5. inFlight = {}
  BY <1>4, FS_EmptySet DEF IInv, NetInv, Flying
<1>6. server # "send"
  BY <1>4 DEF Sending
<1>7. Elements(queue["server"]) = {} /\ Elements(queue["client"]) = {}
  BY <1>4 DEF Elements, QueuedAt
<1>. QED
  BY <1>5, <1>6, <1>7 DEF Carried
-----------------------------------------------------------------------------
(* The server's steps.                                                     *)
LEMMA ServerQuiet ==
  ASSUME IInv, UNCHANGED <<netVars, echo, clientVars>>,
         server # "send", server' \in {"wait", "recv"}
  PROVE  IInv'
<1>1. TypeOK'
  BY DEF IInv, TypeOK
<1>2. Carried' = Carried
  BY DEF Carried
<1>3. NetInv' /\ ReplyInv' /\ SoloInv' /\ StaleReplyHasCause'
  BY <1>2 DEF IInv, NetInv, ReplyInv, SoloInv, StaleReplyHasCause
<1>4. /\ Flying' = Flying /\ Sending' = Sending /\ Waiting' = Waiting
      /\ \A n \in Node : /\ QueuedAt(n)' = QueuedAt(n) /\ FlyingTo(n)' = FlyingTo(n)
                         /\ SentBy(n)' = SentBy(n) /\ ReceivedBy(n)' = ReceivedBy(n)
  BY DEF Flying, Sending, Waiting, QueuedAt, FlyingTo, SentBy, ReceivedBy
<1>5. "server" \in Node /\ "client" \in Node
  BY DEF Node
<1>6. BehindInv' /\ CountersInv'
  BY <1>4, <1>5, Zenon DEF IInv, BehindInv, CountersInv
<1>. QED
  BY <1>1, <1>3, <1>6 DEF IInv

LEMMA ServerRecvIInv ==
  ASSUME IInv, ServerRecv
  PROVE  IInv'
<1>1. /\ server = "recv" /\ server' = "send" /\ Recv("server")
      /\ echo' = Head(queue["server"])
      /\ UNCHANGED <<inFlight, repeated, clientVars>>
  BY DEF ServerRecv
<1>n. "server" \in Node /\ "client" \in Node /\ "client" # "server" /\ 1..line \subseteq Lines
  BY Numbers DEF IInv
<1>r. /\ counters' \in [Node -> Counts] /\ queue' \in [Node -> Seq(Lines)]
      /\ ReceivedBy("server")' = ReceivedBy("server") + 1
      /\ SentBy("server")' = SentBy("server")
      /\ ReceivedBy("client")' = ReceivedBy("client") /\ SentBy("client")' = SentBy("client")
      /\ QueuedAt("server")' = QueuedAt("server") - 1
      /\ QueuedAt("client")' = QueuedAt("client")
      /\ \A x \in Node : Len(queue'[x]) <= SocketBuffer
      /\ Head(queue["server"]) \in Elements(queue["server"])
      /\ \A x \in Node : Elements(queue'[x]) \subseteq Elements(queue[x])
  BY <1>1, <1>n, RecvNet DEF IInv
<1>2. echo' \in Carried /\ Carried' \subseteq Carried
  <2>1. echo' \in Carried
    BY <1>1, <1>r DEF Carried
  <2>2. /\ Elements(queue'["server"]) \subseteq Elements(queue["server"])
        /\ Elements(queue'["client"]) \subseteq Elements(queue["client"])
    BY <1>n, <1>r
  <2>. QED
    BY <1>1, <2>1, <2>2 DEF Carried
<1>3. Carried' \subseteq 1..line' /\ SoloInv'
  <2>1. repeated \in Nat
    BY Numbers DEF IInv
  <2>. QED
    BY <1>1, <1>2, <2>1, CarriedStays
<1>4. TypeOK'
  <2>1. echo' \in 0..NumLines
    BY <1>2, <1>n DEF IInv, NetInv, Lines
  <2>. QED
    BY <1>1, <1>r, <2>1 DEF IInv, TypeOK, Counts
<1>5. NetInv'
  BY <1>1, <1>3, <1>r DEF IInv, NetInv
<1>6. ReplyInv' /\ StaleReplyHasCause'
  BY <1>1 DEF IInv, ReplyInv, StaleReplyHasCause
<1>7. BehindInv' /\ CountersInv'
  <2>1. /\ Flying' = Flying /\ Waiting' = Waiting
        /\ \A n \in Node : FlyingTo(n)' = FlyingTo(n)
    BY <1>1 DEF Flying, FlyingTo, Waiting
  <2>2. Sending = 0 /\ Sending' = 1
    BY <1>1 DEF Sending
  <2>3. /\ ReceivedBy("server")' = ReceivedBy("server") + 1
        /\ SentBy("server")' = SentBy("server")
        /\ ReceivedBy("client")' = ReceivedBy("client")
        /\ SentBy("client")' = SentBy("client")
        /\ QueuedAt("server")' = QueuedAt("server") - 1
        /\ QueuedAt("client")' = QueuedAt("client")
        /\ FlyingTo("server")' = FlyingTo("server")
        /\ FlyingTo("client")' = FlyingTo("client")
        /\ Flying' = Flying /\ Waiting' = Waiting /\ Sending = 0 /\ Sending' = 1
        /\ Cardinality(silent)' = Cardinality(silent)
        /\ repeated' = repeated /\ client' = client
    BY <1>1, <1>n, <1>r, <2>1, <2>2
  <2>4. BehindInv'
    BY <2>3, Bounds DEF BehindInv
  <2>5. CountersInv'
    BY <2>3, Bounds DEF CountersInv
  <2>. QED
    BY <2>4, <2>5
<1>. QED
  BY <1>3, <1>4, <1>5, <1>6, <1>7 DEF IInv

LEMMA ServerSendIInv ==
  ASSUME IInv, ServerSend
  PROVE  IInv'
<1>1. /\ server = "send" /\ server' = "wait" /\ Send("server", "client", echo)
      /\ UNCHANGED <<queue, repeated, echo, clientVars>>
  BY DEF ServerSend
<1>n. /\ "server" \in Node /\ "client" \in Node /\ "client" # "server"
      /\ 1..line \subseteq Lines
  BY Numbers DEF IInv
<1>2. echo \in Carried /\ echo \in Lines
  BY <1>1, <1>n DEF IInv, NetInv, Carried
<1>s. /\ counters' \in [Node -> Counts]
      /\ inFlight' \subseteq Node \X Lines /\ IsFiniteSet(inFlight')
      /\ { p[2] : p \in inFlight' } \subseteq { p[2] : p \in inFlight } \cup {echo}
      /\ Flying' \in Nat /\ Flying' <= Flying + 1
      /\ FlyingTo("client")' \in Nat /\ SentBy("server")' \in Nat
      /\ FlyingTo("server")' = FlyingTo("server")
      /\ FlyingTo("client")' + SentBy("server") <= FlyingTo("client") + SentBy("server")'
      /\ SentBy("server")' <= SentBy("server") + 1
      /\ ReceivedBy("server")' = ReceivedBy("server")
      /\ ReceivedBy("client")' = ReceivedBy("client") /\ SentBy("client")' = SentBy("client")
  BY <1>1, <1>2, <1>n, SendNet DEF IInv
<1>3. Carried' \subseteq 1..line' /\ SoloInv'
  <2>1. Carried' \subseteq Carried
    <3>1. { p[2] : p \in inFlight' } \subseteq Carried
      BY <1>s, <1>2 DEF Carried
    <3>. QED
      BY <1>1, <3>1 DEF Carried
  <2>. QED
    BY <1>1, <2>1, CarriedStays, Bounds
<1>4. TypeOK'
  BY <1>1, <1>s DEF IInv, TypeOK, Counts
<1>5. NetInv'
  BY <1>1, <1>3, <1>s DEF IInv, NetInv
<1>6. ReplyInv' /\ StaleReplyHasCause'
  BY <1>1 DEF IInv, ReplyInv, StaleReplyHasCause
<1>7. BehindInv' /\ CountersInv'
  <2>1. /\ QueuedAt("server")' = QueuedAt("server")
        /\ QueuedAt("client")' = QueuedAt("client")
        /\ Waiting' = Waiting /\ Sending = 1 /\ Sending' = 0
        /\ Cardinality(silent)' = Cardinality(silent)
        /\ repeated' = repeated /\ client' = client
    BY <1>1 DEF QueuedAt, Waiting, Sending
  <2>2. BehindInv'
    BY <1>s, <2>1, Bounds DEF BehindInv
  <2>3. CountersInv'
    BY <1>s, <2>1, Bounds DEF CountersInv
  <2>. QED
    BY <2>2, <2>3
<1>. QED
  BY <1>3, <1>4, <1>5, <1>6, <1>7 DEF IInv
-----------------------------------------------------------------------------
(* The client's steps.                                                     *)

(* Steps that do not touch the network's numbers.                          *)
LEMMA NumbersSame ==
  ASSUME IInv, UNCHANGED <<netVars, serverVars>>, Waiting' \in Nat,
         Cardinality(silent') \in Nat,
         Cardinality(silent) + Waiting <= Cardinality(silent') + Waiting',
         client # "done"
  PROVE  BehindInv' /\ CountersInv'
<1>1. "server" \in Node /\ "client" \in Node
  BY DEF Node
<1>2. /\ QueuedAt("server")' = QueuedAt("server")
      /\ QueuedAt("client")' = QueuedAt("client")
      /\ FlyingTo("server")' = FlyingTo("server")
      /\ FlyingTo("client")' = FlyingTo("client")
      /\ SentBy("server")' = SentBy("server") /\ SentBy("client")' = SentBy("client")
      /\ ReceivedBy("server")' = ReceivedBy("server")
      /\ ReceivedBy("client")' = ReceivedBy("client")
      /\ Flying' = Flying /\ Sending' = Sending /\ repeated' = repeated
  BY <1>1, NetSame
<1>3. BehindInv'
  BY <1>2, Bounds DEF BehindInv
<1>4. CountersInv'
  BY <1>2, Bounds DEF CountersInv
<1>. QED
  BY <1>3, <1>4

LEMMA ReadLineIInv ==
  ASSUME IInv, ReadLine
  PROVE  IInv'
<1>1. /\ client = "fgets" /\ line < NumLines /\ line' = line + 1 /\ msg' = line + 1
      /\ client' = "send" /\ UNCHANGED <<netVars, serverVars, replies, silent>>
  BY DEF ReadLine
<1>2. line \in Nat /\ NumLines \in Nat /\ silent \subseteq 1..line
  BY EchoAssumption, Numbers DEF IInv, TypeOK
<1>3. Carried' = Carried
  BY <1>1, NetSame
<1>4. TypeOK'
  <2>1. line' \in 0..NumLines /\ msg' \in 0..line' /\ silent' \subseteq 1..line'
    BY <1>1, <1>2
  <2>. QED
    BY <1>1, <2>1 DEF IInv, TypeOK
<1>5. NetInv'
  <2>1. 1..line \subseteq 1..line'
    BY <1>1, <1>2
  <2>. QED
    BY <1>1, <1>3, <2>1 DEF IInv, NetInv
<1>6. ReplyInv'
  <2>1. line' \notin silent /\ line' >= 1 /\ line' - 1 = line
    BY <1>1, <1>2
  <2>. QED
    BY <1>1, <2>1 DEF IInv, ReplyInv
<1>w. Waiting = 0 /\ Waiting' = 0
  BY <1>1 DEF Waiting
<1>7. SoloInv'
  BY <1>1, <1>3, <1>w, NothingCarried DEF SoloInv
<1>8. BehindInv' /\ CountersInv'
  BY <1>1, <1>w, NumbersSame, Bounds
<1>9. StaleReplyHasCause'
  BY <1>1 DEF IInv, StaleReplyHasCause
<1>. QED
  BY <1>4, <1>5, <1>6, <1>7, <1>8, <1>9 DEF IInv

LEMMA EndOfInputIInv ==
  ASSUME IInv, EndOfInput
  PROVE  IInv'
<1>1. /\ client = "fgets" /\ client' = "done"
      /\ counters' = [counters EXCEPT !["client"] = Closed]
      /\ queue' = [queue EXCEPT !["client"] = <<>>]
      /\ UNCHANGED <<inFlight, repeated, serverVars, line, msg, replies, silent>>
  BY DEF EndOfInput, Close
<1>2. queue \in [Node -> Seq(Lines)] /\ "server" \in Node /\ "client" \in Node
  BY Numbers DEF IInv, NetInv
<1>3. /\ queue' \in [Node -> Seq(Lines)] /\ queue'["server"] = queue["server"]
      /\ queue'["client"] = <<>>
  BY <1>1, <1>2
<1>4. TypeOK'
  <2>1. counters' \in [Node -> [sent_packets: Nat, recv_packets: Nat]]
    BY <1>1 DEF IInv, TypeOK, Closed
  <2>2. \A n \in Node : Len(queue'[n]) <= SocketBuffer
    BY <1>3, EchoAssumption DEF IInv, TypeOK, Node
  <2>. QED
    BY <1>1, <2>1, <2>2 DEF IInv, TypeOK
<1>5. Carried' \subseteq 1..line' /\ SoloInv'
  <2>1. Carried' \subseteq Carried
    <3>1. Elements(<<>>) = {}
      BY DEF Elements
    <3>2. Elements(queue'["client"]) = {} /\ queue'["server"] = queue["server"]
      BY <1>3, <3>1
    <3>3. UNCHANGED <<inFlight, server, echo>>
      BY <1>1
    <3>. QED
      BY <3>2, <3>3 DEF Carried
  <2>2. /\ line' = line /\ silent' = silent /\ repeated' \in Nat
        /\ repeated' >= repeated
    BY <1>1, Bounds
  <2>. QED
    BY <2>1, <2>2, CarriedStays
<1>6. NetInv'
  BY <1>1, <1>3, <1>5 DEF IInv, NetInv
<1>7. ReplyInv' /\ StaleReplyHasCause'
  BY <1>1 DEF IInv, ReplyInv, StaleReplyHasCause
<1>8. BehindInv' /\ CountersInv'
  <2>1. /\ QueuedAt("server")' = QueuedAt("server") /\ QueuedAt("client")' = 0
        /\ Flying' = Flying /\ Sending' = Sending /\ Waiting' = Waiting
        /\ Cardinality(silent)' = Cardinality(silent) /\ repeated' = repeated
    BY <1>1, <1>3 DEF QueuedAt, Flying, Sending, Waiting
  <2>2. BehindInv'
    BY <2>1, Bounds DEF BehindInv
  <2>. QED
    BY <1>1, <2>2 DEF CountersInv
<1>. QED
  BY <1>4, <1>5, <1>6, <1>7, <1>8 DEF IInv

LEMMA ClientSendIInv ==
  ASSUME IInv, ClientSend
  PROVE  IInv'
<1>1. /\ client = "send" /\ client' = "wait" /\ Send("client", "server", msg)
      /\ UNCHANGED <<queue, repeated, serverVars, line, msg, replies, silent>>
  BY DEF ClientSend
<1>n. /\ "server" \in Node /\ "client" \in Node /\ "server" # "client"
      /\ 1..line \subseteq Lines /\ line \in Nat
  BY Numbers DEF IInv
<1>2. msg = line /\ line \in 1..line /\ msg \in Lines
  BY <1>1, <1>n DEF IInv, ReplyInv
<1>s. /\ counters' \in [Node -> Counts]
      /\ inFlight' \subseteq Node \X Lines /\ IsFiniteSet(inFlight')
      /\ { p[2] : p \in inFlight' } \subseteq { p[2] : p \in inFlight } \cup {msg}
      /\ Flying' \in Nat /\ Flying' <= Flying + 1
      /\ FlyingTo("server")' \in Nat /\ SentBy("client")' \in Nat
      /\ FlyingTo("client")' = FlyingTo("client")
      /\ FlyingTo("server")' + SentBy("client") <= FlyingTo("server") + SentBy("client")'
      /\ SentBy("client")' <= SentBy("client") + 1
      /\ ReceivedBy("client")' = ReceivedBy("client")
      /\ ReceivedBy("server")' = ReceivedBy("server") /\ SentBy("server")' = SentBy("server")
  BY <1>1, <1>2, <1>n, SendNet DEF IInv
<1>3. Carried' \subseteq Carried \cup {line}
  <2>1. { p[2] : p \in inFlight' } \subseteq Carried \cup {line}
    BY <1>s, <1>2 DEF Carried
  <2>. QED
    BY <1>1, <2>1 DEF Carried
<1>4. TypeOK'
  BY <1>1, <1>s DEF IInv, TypeOK, Counts
<1>5. NetInv' /\ SoloInv'
  BY <1>1, <1>2, <1>3, <1>s DEF IInv, NetInv, SoloInv
<1>6. ReplyInv' /\ StaleReplyHasCause'
  BY <1>1 DEF IInv, ReplyInv, StaleReplyHasCause
<1>7. BehindInv' /\ CountersInv'
  <2>1. /\ QueuedAt("server")' = QueuedAt("server")
        /\ QueuedAt("client")' = QueuedAt("client")
        /\ Sending' = Sending /\ Waiting = 0 /\ Waiting' = 1
        /\ Cardinality(silent)' = Cardinality(silent)
        /\ repeated' = repeated /\ client # "done"
    BY <1>1 DEF QueuedAt, Waiting, Sending
  <2>2. BehindInv'
    BY <1>s, <2>1, Bounds DEF BehindInv
  <2>3. CountersInv'
    BY <1>s, <2>1, Bounds DEF CountersInv
  <2>. QED
    BY <2>2, <2>3
<1>. QED
  BY <1>4, <1>5, <1>6, <1>7 DEF IInv

LEMMA ClientWaitIInv ==
  ASSUME IInv, ClientWait
  PROVE  IInv'
<1>1. /\ client = "wait" /\ client' = "recv"
      /\ UNCHANGED <<netVars, serverVars, line, msg, replies, silent>>
  BY DEF ClientWait
<1>2. Carried' = Carried
  BY <1>1, NetSame
<1>3. TypeOK'
  BY <1>1 DEF IInv, TypeOK
<1>4. NetInv' /\ SoloInv' /\ ReplyInv' /\ StaleReplyHasCause'
  BY <1>1, <1>2 DEF IInv, NetInv, SoloInv, ReplyInv, StaleReplyHasCause
<1>5. BehindInv' /\ CountersInv'
  <2>1. Waiting = 1 /\ Waiting' = 1
    BY <1>1 DEF Waiting
  <2>. QED
    BY <1>1, <2>1, NumbersSame, Bounds
<1>. QED
  BY <1>3, <1>4, <1>5 DEF IInv

LEMMA ClientRecvIInv ==
  ASSUME IInv, ClientRecv
  PROVE  IInv'
<1>1. /\ client = "recv" /\ client' = "print" /\ Recv("client")
      /\ msg' = Head(queue["client"])
      /\ UNCHANGED <<inFlight, repeated, serverVars, line, replies, silent>>
  BY DEF ClientRecv
<1>n. /\ "server" \in Node /\ "client" \in Node /\ "server" # "client"
      /\ 1..line \subseteq Lines /\ line \in Nat /\ repeated \in Nat
  BY Numbers DEF IInv
<1>r. /\ counters' \in [Node -> Counts] /\ queue' \in [Node -> Seq(Lines)]
      /\ ReceivedBy("client")' = ReceivedBy("client") + 1
      /\ SentBy("client")' = SentBy("client")
      /\ ReceivedBy("server")' = ReceivedBy("server") /\ SentBy("server")' = SentBy("server")
      /\ QueuedAt("client")' = QueuedAt("client") - 1
      /\ QueuedAt("server")' = QueuedAt("server")
      /\ \A x \in Node : Len(queue'[x]) <= SocketBuffer
      /\ Head(queue["client"]) \in Elements(queue["client"])
      /\ \A x \in Node : Elements(queue'[x]) \subseteq Elements(queue[x])
  BY <1>1, <1>n, RecvNet DEF IInv
<1>2. msg' \in Carried /\ Carried' \subseteq Carried
  <2>1. msg' \in Carried
    BY <1>1, <1>r DEF Carried
  <2>2. /\ Elements(queue'["server"]) \subseteq Elements(queue["server"])
        /\ Elements(queue'["client"]) \subseteq Elements(queue["client"])
    BY <1>n, <1>r
  <2>. QED
    BY <1>1, <2>1, <2>2 DEF Carried
<1>3. Carried' \subseteq 1..line' /\ SoloInv'
  BY <1>1, <1>2, <1>n, CarriedStays
<1>m. msg' \in 1..line
  BY <1>2 DEF IInv, NetInv
<1>4. TypeOK'
  <2>1. msg' \in 0..line'
    BY <1>1, <1>m, <1>n
  <2>. QED
    BY <1>1, <1>r, <2>1 DEF IInv, TypeOK, Counts
<1>5. NetInv'
  BY <1>1, <1>3, <1>r DEF IInv, NetInv
<1>6. ReplyInv'
  <2>1. msg' = line \/ repeated > 0 \/ \E k \in silent : k < line
    <3>1. CASE repeated = 0 /\ silent = {}
      BY <1>2, <3>1 DEF IInv, SoloInv
    <3>2. CASE repeated # 0
      BY <1>n, <3>2
    <3>3. CASE silent # {}
      <4>1. PICK k \in silent : TRUE
        BY <3>3
      <4>2. k \in 1..line /\ k # line
        BY <1>1, <4>1 DEF IInv, TypeOK, ReplyInv
      <4>. QED
        BY <1>n, <4>1, <4>2
    <3>. QED
      BY <3>1, <3>2, <3>3
  <2>2. msg' >= 1
    BY <1>m
  <2>3. Len(replies) = line - 1 /\ line >= 1
    BY <1>1 DEF IInv, ReplyInv
  <2>. QED
    BY <1>1, <2>1, <2>2, <2>3 DEF ReplyInv
<1>7. StaleReplyHasCause'
  BY <1>1 DEF IInv, StaleReplyHasCause
<1>8. BehindInv' /\ CountersInv'
  <2>1. /\ FlyingTo("server")' = FlyingTo("server")
        /\ FlyingTo("client")' = FlyingTo("client")
        /\ Flying' = Flying /\ Sending' = Sending /\ Waiting = 1 /\ Waiting' = 0
        /\ Cardinality(silent)' = Cardinality(silent)
        /\ repeated' = repeated /\ client # "done"
    BY <1>1 DEF FlyingTo, Flying, Waiting, Sending
  <2>2. /\ ReceivedBy("client")' = ReceivedBy("client") + 1
        /\ SentBy("client")' = SentBy("client")
        /\ ReceivedBy("server")' = ReceivedBy("server")
        /\ SentBy("server")' = SentBy("server")
        /\ QueuedAt("client")' = QueuedAt("client") - 1
        /\ QueuedAt("server")' = QueuedAt("server")
    BY <1>r
  <2>3. BehindInv'
    BY <2>1, <2>2, Bounds DEF BehindInv
  <2>4. CountersInv'
    BY <2>1, <2>2, Bounds DEF CountersInv
  <2>. QED
    BY <2>3, <2>4
<1>. QED
  BY <1>3, <1>4, <1>5, <1>6, <1>7, <1>8 DEF IInv

(* A line without a reply in time moves from those waited for to the       *)
(* silent ones, which were all earlier.                                    *)
LEMMA ClientNoReplyIInv ==
  ASSUME IInv, ClientNoReply
  PROVE  IInv'
<1>1. /\ client = "recv" /\ client' \in {"print", "crashed"}
      /\ silent' = silent \cup {line}
      /\ UNCHANGED <<netVars, serverVars, line, msg, replies>>
  BY DEF ClientNoReply, RecvFails
<1>n. line \in Nat /\ repeated \in Nat
  BY Numbers DEF IInv
<1>2. msg = line /\ line \notin silent /\ line >= 1 /\ line \in 1..line
  BY <1>1, <1>n DEF IInv, ReplyInv
<1>3. Carried' = Carried
  BY <1>1, NetSame
<1>4. TypeOK'
  BY <1>1, <1>2 DEF IInv, TypeOK
<1>c. /\ IsFiniteSet(silent') /\ Cardinality(silent') = Cardinality(silent) + 1
  BY <1>1, <1>2, FS_AddElement DEF IInv, NetInv
<1>5. NetInv' /\ SoloInv'
  BY <1>1, <1>3, <1>c DEF IInv, NetInv, SoloInv
<1>6. ReplyInv'
  BY <1>1, <1>2 DEF IInv, ReplyInv
<1>7. StaleReplyHasCause'
  <2>1. silent \subseteq silent'
    BY <1>1
  <2>. QED
    BY <1>1, <1>n, <2>1, CauseStays DEF IInv
<1>8. BehindInv' /\ CountersInv'
  <2>1. Waiting = 1 /\ Waiting' = 0
    BY <1>1 DEF Waiting
  <2>2. Cardinality(silent) \in Nat
    BY Bounds
  <2>3. /\ Cardinality(silent') \in Nat
        /\ Cardinality(silent) + Waiting <= Cardinality(silent') + Waiting'
    BY <1>c, <2>1, <2>2
  <2>. QED
    BY <1>1, <2>1, <2>3, NumbersSame
<1>. QED
  BY <1>4, <1>5, <1>6, <1>7, <1>8 DEF IInv

LEMMA PrintReplyIInv ==
  ASSUME IInv, PrintReply
  PROVE  IInv'
<1>1. /\ client = "print" /\ client' = "fgets" /\ replies' = Append(replies, msg)
      /\ UNCHANGED <<netVars, serverVars, line, msg, silent>>
  BY DEF PrintReply
<1>n. line \in Nat /\ msg \in Nat /\ 1..line \subseteq Lines
  BY Numbers DEF IInv
<1>2. /\ Len(replies) = line - 1 /\ line >= 1 /\ msg >= 1 /\ msg <= line
      /\ msg = line \/ repeated > 0 \/ \E k \in silent : k < line
  BY <1>1 DEF IInv, ReplyInv, TypeOK
<1>m. msg \in Lines
  BY <1>n, <1>2
<1>3. /\ replies' \in Seq(Lines) /\ Len(replies') = line /\ replies'[line] = msg
      /\ \A i \in 1..line - 1 : replies'[i] = replies[i]
  <2>1. replies \in Seq(Lines)
    BY DEF IInv, TypeOK
  <2>2. /\ Append(replies, msg) \in Seq(Lines)
        /\ Len(Append(replies, msg)) = Len(replies) + 1
        /\ \A i \in 1..Len(replies) : Append(replies, msg)[i] = replies[i]
        /\ Append(replies, msg)[Len(replies) + 1] = msg
    BY <1>m, <2>1, AppendProperties
  <2>3. Len(replies) + 1 = line
    BY <1>2, <1>n
  <2>. QED
    BY <1>1, <1>2, <2>2, <2>3
<1>4. Carried' = Carried
  BY <1>1, NetSame
<1>5. TypeOK'
  BY <1>1, <1>3 DEF IInv, TypeOK
<1>6. NetInv' /\ SoloInv'
  BY <1>1, <1>4 DEF IInv, NetInv, SoloInv
<1>7. ReplyInv'
  BY <1>1, <1>3 DEF ReplyInv
<1>8. StaleReplyHasCause'
  <2> SUFFICES ASSUME NEW i \in DOMAIN replies'
               PROVE  /\ replies'[i] <= i
                      /\ replies'[i] = i \/ repeated' > 0 \/ \E j \in silent' : j < i
    BY DEF StaleReplyHasCause
  <2>1. i \in 1..line
    BY <1>3
  <2>2. CASE i = line
    BY <1>1, <1>2, <1>3, <2>2
  <2>3. CASE i # line
    <3>1. i \in 1..line - 1
      BY <1>n, <2>1, <2>3
    <3>2. i \in DOMAIN replies
      BY <1>2, <3>1 DEF IInv, TypeOK
    <3>. QED
      BY <1>1, <1>3, <3>1, <3>2 DEF IInv, StaleReplyHasCause
  <2>. QED
    BY <2>2, <2>3
<1>9. BehindInv' /\ CountersInv'
  <2>1. Waiting = 0 /\ Waiting' = 0
    BY <1>1 DEF Waiting
  <2>. QED
    BY <1>1, <2>1, NumbersSame, Bounds
<1>. QED
  BY <1>5, <1>6, <1>7, <1>8, <1>9 DEF IInv
-----------------------------------------------------------------------------
(* The network's steps.                                                    *)
LEMMA LoseIInv ==
  ASSUME IInv, Lose
  PROVE  IInv'
<1>1. PICK p \in inFlight : inFlight' = inFlight \ {p}
  BY DEF Lose
<1>2. UNCHANGED <<counters, queue, repeated, serverVars, clientVars>>
  BY DEF Lose
<1>n. "server" \in Node /\ "client" \in Node /\ IsFiniteSet(inFlight)
  BY Numbers DEF IInv, NetInv
<1>3. /\ IsFiniteSet(inFlight') /\ Flying' = Flying - 1
      /\ FlyingTo(p[1])' = FlyingTo(p[1]) - 1
      /\ \A n : n # p[1] => FlyingTo(n)' = FlyingTo(n)
  BY <1>1, <1>n, Gone DEF Flying, FlyingTo
<1>4. Carried' \subseteq 1..line' /\ SoloInv'
  <2>1. Carried' \subseteq Carried
    BY <1>1, <1>2 DEF Carried
  <2>. QED
    BY <1>2, <2>1, CarriedStays, Bounds
<1>5. TypeOK'
  BY <1>1, <1>2 DEF IInv, TypeOK
<1>6. NetInv'
  BY <1>2, <1>3, <1>4 DEF IInv, NetInv
<1>7. ReplyInv' /\ StaleReplyHasCause'
  BY <1>2 DEF IInv, ReplyInv, StaleReplyHasCause
<1>8. BehindInv' /\ CountersInv'
  <2>1. /\ QueuedAt("server")' = QueuedAt("server")
        /\ QueuedAt("client")' = QueuedAt("client")
        /\ SentBy("server")' = SentBy("server") /\ SentBy("client")' = SentBy("client")
        /\ ReceivedBy("server")' = ReceivedBy("server")
        /\ ReceivedBy("client")' = ReceivedBy("client")
        /\ Sending' = Sending /\ Waiting' = Waiting
        /\ Cardinality(silent)' = Cardinality(silent)
        /\ repeated' = repeated /\ client' = client
    BY <1>2 DEF QueuedAt, SentBy, ReceivedBy, Sending, Waiting
  <2>2. FlyingTo("server") \in Nat /\ FlyingTo("client") \in Nat
    BY Bounds
  <2>3. \A n \in Node : FlyingTo(n)' = FlyingTo(n) \/ FlyingTo(n)' = FlyingTo(n) - 1
    BY <1>3
  <2>4. /\ FlyingTo("server")' \in Int /\ FlyingTo("server")' <= FlyingTo("server")
        /\ FlyingTo("client")' \in Int /\ FlyingTo("client")' <= FlyingTo("client")
    BY <1>n, <2>2, <2>3
  <2>5. BehindInv'
    BY <1>3, <2>1, Bounds DEF BehindInv
  <2>6. CountersInv'
    BY <2>1, <2>4, Bounds DEF CountersInv
  <2>. QED
    BY <2>5, <2>6
<1>. QED
  BY <1>4, <1>5, <1>6, <1>7, <1>8 DEF IInv

(* A datagram that is delivered waits in a socket instead of being on its  *)
(* way, or as well, and is then counted as a repeated one.                 *)
LEMMA DeliverIInv ==
  ASSUME IInv, Deliver
  PROVE  IInv'
<1>1. PICK p \in inFlight :
        /\ Len(queue[p[1]]) < SocketBuffer
        /\ queue' = [queue EXCEPT ![p[1]] = Append(@, p[2])]
        /\ \/ inFlight' = inFlight \ {p} /\ repeated' = repeated
           \/ /\ repeated < MaxRepeated /\ repeated' = repeated + 1
              /\ inFlight' = inFlight
        /\ UNCHANGED <<counters, serverVars, clientVars>>
  BY DEF Deliver
<1> DEFINE to == p[1]
           d == p[2]
           longer == Append(queue[to], d)
<1>n. /\ "server" \in Node /\ "client" \in Node /\ IsFiniteSet(inFlight)
      /\ queue \in [Node -> Seq(Lines)] /\ repeated \in Nat
  BY Numbers DEF IInv, NetInv
<1>t. to \in Node /\ d \in Lines /\ d \in Carried
  BY DEF IInv, TypeOK, Carried
<1>2. queue' = [queue EXCEPT ![to] = longer] /\ Len(queue[to]) < SocketBuffer
  BY <1>1
<1>3. /\ longer \in Seq(Lines) /\ Len(longer) = Len(queue[to]) + 1
      /\ Elements(longer) \subseteq Elements(queue[to]) \cup {d}
      /\ Len(queue[to]) \in Nat
  BY <1>n, <1>t, QueueOps
<1>u. UNCHANGED <<counters, serverVars, clientVars>>
  BY <1>1
<1>f. \/ inFlight' = inFlight \ {p} /\ repeated' = repeated
      \/ repeated < MaxRepeated /\ repeated' = repeated + 1 /\ inFlight' = inFlight
  BY <1>1
<1>p. p \in inFlight
  OBVIOUS
<1>g. /\ IsFiniteSet(inFlight \ {p})
      /\ Cardinality(inFlight \ {p}) = Flying - 1
      /\ Cardinality(To(inFlight \ {p}, to)) = FlyingTo(to) - 1
      /\ \A n : n # to => To(inFlight \ {p}, n) = To(inFlight, n)
  BY <1>n, Gone DEF Flying, FlyingTo
<1> HIDE DEF to, d, longer
<1>4. /\ queue' \in [Node -> Seq(Lines)] /\ queue'[to] = longer
      /\ \A x \in Node : x # to => queue'[x] = queue[x]
  BY <1>n, <1>t, <1>2, <1>3
<1>5. \A x \in Node : Len(queue'[x]) <= SocketBuffer
  <2>1. Len(longer) <= SocketBuffer
    BY <1>2, <1>3, EchoAssumption
  <2>. QED
    BY <2>1, <1>4 DEF IInv, TypeOK
<1>6. /\ repeated' \in 0..MaxRepeated /\ repeated' \in Nat /\ repeated' >= repeated
      /\ inFlight' \subseteq inFlight /\ IsFiniteSet(inFlight')
  <2>1. repeated \in 0..MaxRepeated
    BY DEF IInv, TypeOK
  <2>2. repeated' \in 0..MaxRepeated /\ repeated' \in Nat /\ repeated' >= repeated
    BY <1>f, <1>n, <2>1, EchoAssumption
  <2>3. inFlight' \subseteq inFlight /\ IsFiniteSet(inFlight')
    BY <1>f, <1>g, <1>n
  <2>. QED
    BY <2>2, <2>3
<1>7. Carried' \subseteq 1..line' /\ SoloInv'
  <2>1. \A x \in Node : Elements(queue'[x]) \subseteq Elements(queue[x]) \cup {d}
    BY <1>3, <1>4
  <2>2. Carried' \subseteq Carried
    <3>1. { r[2] : r \in inFlight' } \subseteq Carried
      BY <1>6 DEF Carried
    <3>2. Elements(queue'["server"]) \subseteq Carried
      BY <1>n, <1>t, <2>1 DEF Carried
    <3>3. Elements(queue'["client"]) \subseteq Carried
      BY <1>n, <1>t, <2>1 DEF Carried
    <3>. QED
      BY <1>u, <3>1, <3>2, <3>3 DEF Carried
  <2>. QED
    BY <1>u, <1>6, <2>2, CarriedStays
<1>8. TypeOK'
  BY <1>u, <1>5, <1>6 DEF IInv, TypeOK
<1>9. NetInv'
  BY <1>u, <1>4, <1>6, <1>7 DEF IInv, NetInv
<1>10. ReplyInv' /\ StaleReplyHasCause'
  <2>1. repeated > 0 => repeated' > 0
    BY <1>6, <1>n
  <2>2. ReplyInv'
    BY <1>u, <2>1 DEF IInv, ReplyInv
  <2>. QED
    BY <1>u, <1>6, <1>n, <2>2, CauseStays DEF IInv
<1>11. BehindInv' /\ CountersInv'
  <2>1. /\ SentBy("server")' = SentBy("server") /\ SentBy("client")' = SentBy("client")
        /\ ReceivedBy("server")' = ReceivedBy("server")
        /\ ReceivedBy("client")' = ReceivedBy("client")
        /\ Sending' = Sending /\ Waiting' = Waiting
        /\ Cardinality(silent)' = Cardinality(silent) /\ client' = client
    BY <1>u DEF SentBy, ReceivedBy, Sending, Waiting
  <2>2. QueuedAt(to)' = QueuedAt(to) + 1
    BY <1>3, <1>4 DEF QueuedAt
  <2>3. \A x \in Node : x # to => QueuedAt(x)' = QueuedAt(x)
    BY <1>4 DEF QueuedAt
  <2>4. \/ /\ Flying' = Flying - 1 /\ FlyingTo(to)' = FlyingTo(to) - 1
           /\ \A x \in Node : x # to => FlyingTo(x)' = FlyingTo(x)
           /\ repeated' = repeated
        \/ /\ Flying' = Flying /\ \A x \in Node : FlyingTo(x)' = FlyingTo(x)
           /\ repeated' = repeated + 1
    <3>1. CASE inFlight' = inFlight \ {p} /\ repeated' = repeated
      BY <3>1, <1>g DEF Flying, FlyingTo
    <3>2. CASE repeated' = repeated + 1 /\ inFlight' = inFlight
      BY <3>2 DEF Flying, FlyingTo
    <3>. QED
      BY <1>f, <3>1, <3>2
  <2>5. \/ to = "server" /\ "client" # to
        \/ to = "client" /\ "server" # to
    BY <1>t DEF Node
  <2>6. \/ /\ QueuedAt("server")' = QueuedAt("server") + 1
           /\ QueuedAt("client")' = QueuedAt("client")
           /\ \/ /\ Flying' = Flying - 1 /\ repeated' = repeated
                 /\ FlyingTo("server")' = FlyingTo("server") - 1
                 /\ FlyingTo("client")' = FlyingTo("client")
              \/ /\ Flying' = Flying /\ repeated' = repeated + 1
                 /\ FlyingTo("server")' = FlyingTo("server")
                 /\ FlyingTo("client")' = FlyingTo("client")
        \/ /\ QueuedAt("client")' = QueuedAt("client") + 1
           /\ QueuedAt("server")' = QueuedAt("server")
           /\ \/ /\ Flying' = Flying - 1 /\ repeated' = repeated
                 /\ FlyingTo("client")' = FlyingTo("client") - 1
                 /\ FlyingTo("server")' = FlyingTo("server")
              \/ /\ Flying' = Flying /\ repeated' = repeated + 1
                 /\ FlyingTo("server")' = FlyingTo("server")
                 /\ FlyingTo("client")' = FlyingTo("client")
    BY <1>n, <2>2, <2>3, <2>4, <2>5
  <2>7. BehindInv'
    BY <2>1, <2>6, Bounds DEF BehindInv
  <2>8. CountersInv'
    BY <2>1, <2>6, Bounds DEF CountersInv
  <2>. QED
    BY <2>7, <2>8
<1>. QED
  BY <1>7, <1>8, <1>9, <1>10, <1>11 DEF IInv
-----------------------------------------------------------------------------
LEMMA StepIInv == IInv /\ [Next]_vars => IInv'
<1> SUFFICES ASSUME IInv, [Next]_vars PROVE IInv'
  OBVIOUS
<1>1. CASE ServerOpen
  BY <1>1, ServerQuiet DEF ServerOpen
<1>2. CASE ServerWait
  BY <1>2, ServerQuiet DEF ServerWait
<1>3. CASE ServerRecv
  BY <1>3, ServerRecvIInv
<1>4. CASE ServerSend
  BY <1>4, ServerSendIInv
<1>5. CASE ReadLine
  BY <1>5, ReadLineIInv
<1>6. CASE EndOfInput
  BY <1>6, EndOfInputIInv
<1>7. CASE ClientSend
  BY <1>7, ClientSendIInv
<1>8. CASE ClientWait
  BY <1>8, ClientWaitIInv
<1>9. CASE ClientRecv
  BY <1>9, ClientRecvIInv
<1>10. CASE ClientNoReply
  BY <1>10, ClientNoReplyIInv
<1>11. CASE PrintReply
  BY <1>11, PrintReplyIInv
<1>12. CASE Deliver
  BY <1>12, DeliverIInv
<1>13. CASE Lose
  BY <1>13, LoseIInv
<1>14. CASE UNCHANGED vars
  BY <1>14 DEF vars, IInv, TypeOK, NetInv, ReplyInv, SoloInv, BehindInv, CountersInv,
     StaleReplyHasCause, Carried, Flying, FlyingTo, QueuedAt, SentBy, ReceivedBy,
     Waiting, Sending
<1>. QED
  BY <1>1, <1>2, <1>3, <1>4, <1>5, <1>6, <1>7, <1>8, <1>9, <1>10, <1>11, <1>12,
     <1>13, <1>14 DEF Next, ServerNext, ClientNext

LEMMA Invariance == Spec => []IInv
  BY InitIInv, StepIInv, PTL DEF Spec

(* Whatever the network does, a reply is printed for another line than its *)
(* own only after a line that had none in time, or if a datagram was       *)
(* repeated; and never before its line.                                    *)
THEOREM StaleReplies == Spec => []StaleReplyHasCause
<1>1. IInv => StaleReplyHasCause
  BY DEF IInv
<1>. QED
  BY <1>1, Invariance, PTL

(* The variables have their types; what is under way is at most one        *)
(* datagram more than the silent lines and the repetitions; and no socket  *)
(* counts more than the other counted and the network repeated.            *)
THEOREM FallsBehindBounded == Spec => []LateRepliesBounded
<1>1. IInv => LateRepliesBounded
  <2> SUFFICES ASSUME IInv PROVE LateRepliesBounded
    OBVIOUS
  <2>1. Underway <= Cardinality(silent) + repeated
                      + (IF client \in {"wait", "recv"} THEN 1 ELSE 0)
    BY DEF IInv, BehindInv, Underway, Flying, QueuedAt, Sending, Waiting
  <2>2. ASSUME client # "done"
        PROVE  /\ ReceivedBy("server") <= SentBy("client") + repeated
               /\ SentBy("server") <= ReceivedBy("server")
               /\ ReceivedBy("client") <= SentBy("server") + repeated
    BY <2>2, Bounds
  <2>. QED
    BY <2>1, <2>2 DEF IInv, LateRepliesBounded, SentBy, ReceivedBy
<1>. QED
  BY <1>1, Invariance, PTL
-----------------------------------------------------------------------------
(* How much the client has left to do: five steps for each line.           *)
StepsLeft ==
  CASE client = "send"  -> 5 * (NumLines - line) + 5
    [] client = "wait"  -> 5 * (NumLines - line) + 4
    [] client = "recv"  -> 5 * (NumLines - line) + 3
    [] client = "print" -> 5 * (NumLines - line) + 2
    [] client = "fgets" -> 5 * (NumLines - line) + 1
    [] OTHER            -> 0

(* Whatever is lost, late, doubled or answered wrongly: nothing that comes *)
(* out of the network makes the client send a line again or wait once more *)
(* for it, and so it ends.  No step of anybody else gives it more to do.   *)
ClientGetsOn ==
  [][StepsLeft' < StepsLeft /\ {StepsLeft, StepsLeft'} \subseteq Nat]_clientVars

(* The client ends after at most five steps for each line and one more.    *)
THEOREM ClientsGetOn == Spec => ClientGetsOn
<1>1. IInv /\ [Next]_vars => [StepsLeft' < StepsLeft]_clientVars
  <2> SUFFICES ASSUME IInv, [Next]_vars, clientVars' # clientVars
               PROVE  StepsLeft' < StepsLeft
    OBVIOUS
  <2>n. NumLines \in Nat /\ line \in 0..NumLines
    BY EchoAssumption DEF IInv, TypeOK
  <2>1. CASE ReadLine
    BY <2>1, <2>n DEF ReadLine, StepsLeft
  <2>2. CASE EndOfInput
    BY <2>2, <2>n DEF EndOfInput, StepsLeft
  <2>3. CASE ClientSend
    BY <2>3, <2>n DEF ClientSend, StepsLeft
  <2>4. CASE ClientWait
    BY <2>4, <2>n DEF ClientWait, StepsLeft
  <2>5. CASE ClientRecv
    BY <2>5, <2>n DEF ClientRecv, StepsLeft
  <2>6. CASE ClientNoReply
    BY <2>6, <2>n DEF ClientNoReply, StepsLeft
  <2>7. CASE PrintReply
    BY <2>7, <2>n DEF PrintReply, StepsLeft
  <2>8. CASE ServerNext \/ Deliver \/ Lose \/ UNCHANGED vars
    BY <2>8 DEF ServerNext, ServerOpen, ServerWait, ServerRecv, ServerSend, Deliver,
       Lose, vars
  <2>. QED
    BY <2>1, <2>2, <2>3, <2>4, <2>5, <2>6, <2>7, <2>8 DEF Next, ClientNext
<1>2. IInv => StepsLeft \in Nat
  <2> SUFFICES ASSUME IInv PROVE StepsLeft \in Nat
    OBVIOUS
  <2>1. NumLines - line \in Nat
    BY EchoAssumption DEF IInv, TypeOK
  <2>. QED
    BY <2>1 DEF StepsLeft
<1>3. [StepsLeft' < StepsLeft]_clientVars
        /\ StepsLeft \in Nat /\ (StepsLeft \in Nat)' =>
        [StepsLeft' < StepsLeft /\ {StepsLeft, StepsLeft'} \subseteq Nat]_clientVars
  OBVIOUS
<1>. QED
  BY <1>1, <1>2, <1>3, Invariance, PTL DEF Spec, ClientGetsOn
=============================================================================
