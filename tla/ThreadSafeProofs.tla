-------------------------- MODULE ThreadSafeProofs --------------------------
(***************************************************************************)
(* Proofs about ThreadSafe, for every number of threads and operations.    *)
(***************************************************************************)
EXTENDS ThreadSafe, TLAPS

USE DEF shared

ThreadStep ==
  {"idle", "lock", "flag", "access", "check", "write", "unlock", "clear",
   "aborted"}
Inside == {"flag", "access", "check", "write", "unlock"}

LEMMA ThreadsType == Threads \subseteq Nat /\ 0 \notin Threads
BY ThreadsAssumption DEF Threads

LEMMA TypeMeans ==
  TypeOK <=> /\ value_ \in Nat
             /\ mutex_ \in Threads \cup {0}
             /\ \A t \in Threads : pc[t] \in Inside => mutex_ = t
             /\ locked_ \in BOOLEAN
             /\ pc \in [Threads -> ThreadStep]
             /\ op \in [Threads -> Operations]
             /\ read \in [Threads -> Nat]
             /\ calls \in 0..MaxCalls
             /\ updates \in Nat
             /\ setter \in Threads \cup {0}
BY ThreadsAssumption DEF TypeOK, Inside, ThreadStep, Threads

(* What the holder of the mutex has read is still the value.               *)
Fresh ==
  \A t \in Threads :
    (pc[t] \in {"check", "write"} /\ op[t] # "Set") => read[t] = value_

(* The mutex that is taken has a thread inside; a flag that is set was set *)
(* by a thread that has not cleared it yet; and a thread that has set it   *)
(* finds it set, unless another one wrote it since.                        *)
FlagInv ==
  /\ mutex_ # 0 => pc[mutex_] \in Inside \cup {"aborted"}
  /\ locked_ => /\ setter # 0 /\ Flagged(setter)
                /\ pc[setter] \in (Inside \ {"flag"}) \cup {"clear", "aborted"}
  /\ \A t \in Threads :
       (Flagged(t) /\ pc[t] \in Inside \ {"flag"})
         => setter # 0 /\ (setter = t => locked_)
  /\ \A t \in Threads : pc[t] = "aborted" => setter \notin {0, t}
  /\ \A t \in Threads : pc[t] \in {"check", "flag", "clear"} => Flagged(t)

ThreadInv == TypeOK /\ value_ = updates /\ Fresh /\ FlagInv

LEMMA InitThreadInv == Init => ThreadInv
<1> SUFFICES ASSUME Init PROVE ThreadInv
  OBVIOUS
<1>1. /\ \A t \in Threads : pc[t] = "idle"
      /\ mutex_ = 0 /\ setter = 0 /\ value_ = 0 /\ updates = 0 /\ calls = 0
      /\ ~locked_ /\ locked_ \in BOOLEAN
      /\ pc \in [Threads -> ThreadStep] /\ op \in [Threads -> Operations]
      /\ read \in [Threads -> Nat]
  BY DEF Init, ThreadStep, Operations
<1>2. TypeOK
  BY <1>1, TypeMeans, ThreadsAssumption DEF Inside
<1>. QED
  BY <1>1, <1>2 DEF ThreadInv, Fresh, FlagInv, Inside

LEMMA StepThreadInv == ThreadInv /\ [Next]_vars => ThreadInv'
<1> SUFFICES ASSUME ThreadInv, [Next]_vars PROVE ThreadInv'
  OBVIOUS
<1> USE DEF Inside, ThreadStep
<1>t. /\ value_ \in Nat /\ mutex_ \in Threads \cup {0}
      /\ \A t \in Threads : pc[t] \in Inside => mutex_ = t
      /\ locked_ \in BOOLEAN
      /\ pc \in [Threads -> ThreadStep] /\ op \in [Threads -> Operations]
      /\ read \in [Threads -> Nat] /\ calls \in 0..MaxCalls
      /\ updates \in Nat /\ setter \in Threads \cup {0}
      /\ value_ = updates
  BY TypeMeans DEF ThreadInv
<1>f. Fresh /\ FlagInv
  BY DEF ThreadInv
<1>n. Threads \subseteq Nat /\ 0 \notin Threads
  BY ThreadsType
<1>s. ASSUME TypeOK', (value_ = updates)', Fresh', FlagInv' PROVE ThreadInv'
  BY <1>s DEF ThreadInv
<1>p. TypeOK' <=> /\ value_' \in Nat
                  /\ mutex_' \in Threads \cup {0}
                  /\ \A t \in Threads : pc'[t] \in Inside => mutex_' = t
                  /\ locked_' \in BOOLEAN
                  /\ pc' \in [Threads -> ThreadStep]
                  /\ op' \in [Threads -> Operations]
                  /\ read' \in [Threads -> Nat]
                  /\ calls' \in 0..MaxCalls
                  /\ updates' \in Nat
                  /\ setter' \in Threads \cup {0}
  BY ThreadsAssumption DEF TypeOK, Threads
<1>1. ASSUME NEW t \in Threads, Call(t) PROVE ThreadInv'
  <2>1. PICK o \in Operations : op' = [op EXCEPT ![t] = o]
    BY <1>1 DEF Call
  <2>2. pc[t] = "idle" /\ pc' = [pc EXCEPT ![t] = "lock"] /\ calls' \in 0..MaxCalls
    BY <1>1, <1>t, ThreadsAssumption DEF Call, Goto
  <2>3. UNCHANGED <<value_, mutex_, locked_, updates, setter, read>>
    BY <1>1 DEF Call
  <2>4. TypeOK'
    BY <2>1, <2>2, <2>3, <1>t, <1>p
  <2>5. Fresh'
    BY <2>1, <2>2, <2>3, <1>t, <1>f DEF Fresh
  <2>6. FlagInv'
    BY <2>1, <2>2, <2>3, <1>t, <1>f, <1>n DEF FlagInv, Flagged
  <2>. QED
    BY <2>3, <2>4, <2>5, <2>6, <1>t, <1>s
<1>2. ASSUME NEW t \in Threads, Lock(t) PROVE ThreadInv'
  <2>1. /\ mutex_ = 0 /\ mutex_' = t /\ pc[t] = "lock"
        /\ pc' = [pc EXCEPT ![t] = IF Flagged(t) THEN "flag" ELSE "access"]
        /\ UNCHANGED <<value_, locked_, updates, setter, op, read, calls>>
    BY <1>2 DEF Lock, Goto
  <2>4. TypeOK'
    BY <2>1, <1>t, <1>p, <1>n
  <2>5. Fresh'
    BY <2>1, <1>t, <1>f DEF Fresh
  <2>6. FlagInv'
    BY <2>1, <1>t, <1>f, <1>n DEF FlagInv, Flagged
  <2>. QED
    BY <2>1, <2>4, <2>5, <2>6, <1>t, <1>s
<1>3. ASSUME NEW t \in Threads, TryLock(t) PROVE ThreadInv'
  <2>1. /\ op[t] = "Try" /\ pc[t] = "lock"
        /\ \/ mutex_ = 0 /\ mutex_' = t /\ pc' = [pc EXCEPT ![t] = "access"]
           \/ mutex_ # 0 /\ mutex_' = mutex_ /\ pc' = [pc EXCEPT ![t] = "idle"]
        /\ UNCHANGED <<value_, locked_, updates, setter, op, read, calls>>
    BY <1>3 DEF TryLock, Goto
  <2>4. TypeOK'
    BY <2>1, <1>t, <1>p, <1>n
  <2>5. Fresh'
    BY <2>1, <1>t, <1>f DEF Fresh
  <2>6. FlagInv'
    BY <2>1, <1>t, <1>f, <1>n DEF FlagInv, Flagged
  <2>. QED
    BY <2>1, <2>4, <2>5, <2>6, <1>t, <1>s
<1>4. ASSUME NEW t \in Threads, SetFlag(t) PROVE ThreadInv'
  <2>1. /\ pc[t] = "flag" /\ pc' = [pc EXCEPT ![t] = "access"]
        /\ locked_' = TRUE /\ setter' = t
        /\ UNCHANGED <<value_, mutex_, updates, op, read, calls>>
    BY <1>4 DEF SetFlag, Goto
  <2>a. \A u \in Threads : pc[u] # "aborted"
    BY <1>4 DEF SetFlag, Goto, Aborted
  <2>4. TypeOK'
    BY <2>1, <1>t, <1>p, <1>n
  <2>5. Fresh'
    BY <2>1, <1>t, <1>f DEF Fresh
  <2>6. FlagInv'
    BY <2>1, <2>a, <1>t, <1>f, <1>n DEF FlagInv, Flagged
  <2>. QED
    BY <2>1, <2>4, <2>5, <2>6, <1>t, <1>s
<1>5. ASSUME NEW t \in Threads, Access(t) PROVE ThreadInv'
  <2>1. /\ pc[t] = "access"
        /\ read' = [read EXCEPT ![t] = IF op[t] = "Set" THEN @ ELSE value_]
        /\ \/ Flagged(t) /\ pc' = [pc EXCEPT ![t] = "check"]
           \/ ~Flagged(t) /\ op[t] = "Get" /\ pc' = [pc EXCEPT ![t] = "unlock"]
           \/ ~Flagged(t) /\ op[t] # "Get" /\ pc' = [pc EXCEPT ![t] = "write"]
        /\ UNCHANGED <<value_, mutex_, locked_, updates, setter, op, calls>>
    BY <1>5 DEF Access, Goto, Flagged
  <2>4. TypeOK'
    BY <2>1, <1>t, <1>p, <1>n
  <2>5. Fresh'
    BY <2>1, <1>t, <1>f DEF Fresh
  <2>6. FlagInv'
    BY <2>1, <1>t, <1>f, <1>n DEF FlagInv, Flagged
  <2>. QED
    BY <2>1, <2>4, <2>5, <2>6, <1>t, <1>s
<1>6. ASSUME NEW t \in Threads, DCheck(t) PROVE ThreadInv'
  <2>1. /\ pc[t] = "check"
        /\ \/ pc' = [pc EXCEPT ![t] = IF op[t] = "Update" THEN "write" ELSE "unlock"]
           \/ ~locked_ /\ pc' = [pc EXCEPT ![t] = "aborted"]
        /\ UNCHANGED <<value_, mutex_, locked_, updates, setter, op, read, calls>>
    BY <1>6 DEF DCheck, Goto
  <2>4. TypeOK'
    BY <2>1, <1>t, <1>p, <1>n
  <2>5. Fresh'
    BY <2>1, <1>t, <1>f DEF Fresh
  <2>6. FlagInv'
    BY <2>1, <1>t, <1>f, <1>n DEF FlagInv, Flagged
  <2>. QED
    BY <2>1, <2>4, <2>5, <2>6, <1>t, <1>s
<1>7. ASSUME NEW t \in Threads, Write(t) PROVE ThreadInv'
  <2>1. /\ pc[t] = "write" /\ pc' = [pc EXCEPT ![t] = "unlock"]
        /\ \/ op[t] = "Set" /\ value_' = 0 /\ updates' = 0
           \/ op[t] # "Set" /\ value_' = read[t] + 1 /\ updates' = updates + 1
        /\ UNCHANGED <<mutex_, locked_, setter, op, read, calls>>
    BY <1>7 DEF Write, Goto
  <2>2. value_' = updates' /\ value_' \in Nat
    BY <2>1, <1>t, <1>f DEF Fresh
  <2>3. \A u \in Threads : pc'[u] \notin {"check", "write"}
    BY <2>1, <1>t
  <2>4. TypeOK'
    BY <2>1, <2>2, <1>t, <1>p, <1>n
  <2>5. Fresh'
    BY <2>3 DEF Fresh
  <2>6. FlagInv'
    BY <2>1, <1>t, <1>f, <1>n DEF FlagInv, Flagged
  <2>. QED
    BY <2>2, <2>4, <2>5, <2>6, <1>s
<1>8. ASSUME NEW t \in Threads, Unlock(t) PROVE ThreadInv'
  <2>1. /\ pc[t] = "unlock" /\ mutex_' = 0
        /\ pc' = [pc EXCEPT ![t] = IF Flagged(t) THEN "clear" ELSE "idle"]
        /\ UNCHANGED <<value_, locked_, updates, setter, op, read, calls>>
    BY <1>8 DEF Unlock, Goto
  <2>4. TypeOK'
    BY <2>1, <1>t, <1>p, <1>n
  <2>5. Fresh'
    BY <2>1, <1>t, <1>f DEF Fresh
  <2>6. FlagInv'
    BY <2>1, <1>t, <1>f, <1>n DEF FlagInv, Flagged
  <2>. QED
    BY <2>1, <2>4, <2>5, <2>6, <1>t, <1>s
<1>9. ASSUME NEW t \in Threads, ClearFlag(t) PROVE ThreadInv'
  <2>1. /\ pc[t] = "clear" /\ pc' = [pc EXCEPT ![t] = "idle"]
        /\ locked_' = FALSE /\ setter' = t
        /\ UNCHANGED <<value_, mutex_, updates, op, read, calls>>
    BY <1>9 DEF ClearFlag, Goto
  <2>a. \A u \in Threads : pc[u] # "aborted"
    BY <1>9 DEF ClearFlag, Goto, Aborted
  <2>4. TypeOK'
    BY <2>1, <1>t, <1>p, <1>n
  <2>5. Fresh'
    BY <2>1, <1>t, <1>f DEF Fresh
  <2>6. FlagInv'
    BY <2>1, <2>a, <1>t, <1>f, <1>n DEF FlagInv, Flagged
  <2>. QED
    BY <2>1, <2>4, <2>5, <2>6, <1>t, <1>s
<1>10. CASE UNCHANGED vars
  BY <1>10, <1>t, <1>f, <1>s, <1>p DEF vars, Fresh, FlagInv, Flagged
<1>. QED
  BY <1>1, <1>2, <1>3, <1>4, <1>5, <1>6, <1>7, <1>8, <1>9, <1>10 DEF Next, ThreadNext

LEMMA AlwaysThreadInv == Spec => []ThreadInv
BY InitThreadInv, StepThreadInv, PTL DEF Spec

(* No update is lost, for any number of threads that mix the three ways to *)
(* take the mutex, also while locked_ is wrong: the value depends on the   *)
(* mutex alone.                                                            *)
THEOREM UpdatesAreKept == Spec => []NoLostUpdate
<1>1. ThreadInv => NoLostUpdate
  BY DEF ThreadInv, NoLostUpdate
<1>. QED
  BY <1>1, AlwaysThreadInv, PTL

(* A DCHECK fails only for another thread's late write of locked_, and     *)
(* flag and mutex are free once all threads are outside.                   *)
THEOREM AbortsAreForeign == Spec => []AbortNeedsLateClear
<1>1. ThreadInv => AbortNeedsLateClear
  <2> SUFFICES ASSUME ThreadInv PROVE AbortNeedsLateClear
    OBVIOUS
  <2>1. mutex_ \in Threads \cup {0} /\ setter \in Threads \cup {0} /\ locked_ \in BOOLEAN
    BY TypeMeans DEF ThreadInv
  <2>. QED
    BY <2>1 DEF ThreadInv, FlagInv, AbortNeedsLateClear, Inside
<1>. QED
  BY <1>1, AlwaysThreadInv, PTL
=============================================================================
