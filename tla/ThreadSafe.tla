----------------------------- MODULE ThreadSafe -----------------------------
(***************************************************************************)
(* One ThreadSafe<T> whose mutex ScopedLock and ScopedTryLock take, and    *)
(* threads that use it as its comments say: Set and Get; GetLock, then     *)
(* SetUnlock of the value plus one ("Update") or Unlock ("Abandon"); and   *)
(* an update under a ScopedTryLock that asks Locked first ("Try").         *)
(*                                                                         *)
(* locked_ is written by GetLock after pthread_mutex_lock, but by          *)
(* SetUnlock and Unlock after pthread_mutex_unlock.                        *)
(***************************************************************************)
EXTENDS Naturals

CONSTANTS
  NumThreads,
  MaxCalls     (* bound: operations of all threads together                *)

ASSUME ThreadsAssumption == NumThreads \in Nat /\ MaxCalls \in Nat

Threads == 1..NumThreads
Operations == {"Set", "Get", "Update", "Abandon", "Try"}

VARIABLES
  value_,
  mutex_,   (* the thread that holds it, or 0                              *)
  locked_,
  pc,       (* each thread's next step                                     *)
  op,       (* its operation                                               *)
  read,     (* the value it has seen                                       *)
  calls,    (* how many operations have begun                              *)
  updates,  (* history: the updates since the value was set                *)
  setter    (* history: the thread that wrote locked_ last, or 0           *)

shared == <<value_, mutex_, locked_, updates, setter>>
vars == <<shared, pc, op, read, calls>>

Init ==
  /\ value_ = 0
  /\ mutex_ = 0
  /\ locked_ = FALSE
  /\ pc = [t \in Threads |-> "idle"]
  /\ op = [t \in Threads |-> "Get"]
  /\ read = [t \in Threads |-> 0]
  /\ calls = 0
  /\ updates = 0
  /\ setter = 0

(* A DCHECK that failed has ended the process.                             *)
Aborted == \E t \in Threads : pc[t] = "aborted"

Goto(t, from, to) ==
  /\ ~Aborted
  /\ pc[t] = from
  /\ pc' = [pc EXCEPT ![t] = to]

(* Operations that go through GetLock, and so through locked_.             *)
Flagged(t) == op[t] \in {"Update", "Abandon"}

Call(t) ==
  /\ calls < MaxCalls
  /\ calls' = calls + 1
  /\ \E o \in Operations : op' = [op EXCEPT ![t] = o]
  /\ Goto(t, "idle", "lock")
  /\ UNCHANGED <<shared, read>>

(* pthread_mutex_lock, in ScopedLock and in GetLock.                       *)
Lock(t) ==
  /\ op[t] # "Try"
  /\ mutex_ = 0
  /\ mutex_' = t
  /\ Goto(t, "lock", IF Flagged(t) THEN "flag" ELSE "access")
  /\ UNCHANGED <<value_, locked_, updates, setter, op, read, calls>>

(* Mutant of the next one: ~ScopedTryLock unlocks in any case.             *)
TryLockUnlocks(t) ==
  /\ op[t] = "Try"
  /\ IF mutex_ = 0
       THEN Goto(t, "lock", "access") /\ mutex_' = t
       ELSE Goto(t, "lock", "unlock") /\ UNCHANGED mutex_
  /\ UNCHANGED <<value_, locked_, updates, setter, op, read, calls>>

(* pthread_mutex_trylock: without the mutex, ScopedTryLock only says so.   *)
TryLock(t) ==
  /\ op[t] = "Try"
  /\ IF mutex_ = 0
       THEN Goto(t, "lock", "access") /\ mutex_' = t
       ELSE Goto(t, "lock", "idle") /\ UNCHANGED mutex_
  /\ UNCHANGED <<value_, locked_, updates, setter, op, read, calls>>

(* Mutant of the next one: the flag is not set.                            *)
LeaveFlag(t) ==
  /\ Goto(t, "flag", "access")
  /\ UNCHANGED <<shared, op, read, calls>>

SetFlag(t) ==
  /\ Goto(t, "flag", "access")
  /\ locked_' = TRUE
  /\ setter' = t
  /\ UNCHANGED <<value_, mutex_, updates, op, read, calls>>

(* Get's copy, or the caller's look through GetLock's reference.           *)
Access(t) ==
  /\ read' = [read EXCEPT ![t] = IF op[t] = "Set" THEN @ ELSE value_]
  /\ Goto(t, "access", CASE Flagged(t) -> "check"
                         [] op[t] = "Get" -> "unlock"
                         [] OTHER -> "write")
  /\ UNCHANGED <<shared, op, calls>>

(* DCHECK(locked_) at the start of SetUnlock and of Unlock; it is compiled *)
(* in debug builds only.                                                   *)
DCheck(t) ==
  /\ \/ Goto(t, "check", IF op[t] = "Update" THEN "write" ELSE "unlock")
     \/ ~locked_ /\ Goto(t, "check", "aborted")
  /\ UNCHANGED <<shared, op, read, calls>>

(* value_ = rvalue.                                                        *)
Write(t) ==
  /\ IF op[t] = "Set" THEN value_' = 0 /\ updates' = 0
     ELSE value_' = read[t] + 1 /\ updates' = updates + 1
  /\ Goto(t, "write", "unlock")
  /\ UNCHANGED <<mutex_, locked_, setter, op, read, calls>>

(* Mutant of the next one: a path that leaves the mutex locked.            *)
AbandonKeeps(t) ==
  /\ mutex_' = IF op[t] = "Abandon" THEN mutex_ ELSE 0
  /\ Goto(t, "unlock", IF Flagged(t) THEN "clear" ELSE "idle")
  /\ UNCHANGED <<value_, locked_, updates, setter, op, read, calls>>

Unlock(t) ==
  /\ mutex_' = 0
  /\ Goto(t, "unlock", IF Flagged(t) THEN "clear" ELSE "idle")
  /\ UNCHANGED <<value_, locked_, updates, setter, op, read, calls>>

(* locked_ = false, when the mutex may already be another thread's.        *)
ClearFlag(t) ==
  /\ Goto(t, "clear", "idle")
  /\ locked_' = FALSE
  /\ setter' = t
  /\ UNCHANGED <<value_, mutex_, updates, op, read, calls>>

ThreadNext(t) ==
  \/ Call(t) \/ Lock(t) \/ TryLock(t) \/ SetFlag(t) \/ Access(t)
  \/ DCheck(t) \/ Write(t) \/ Unlock(t) \/ ClearFlag(t)

Next == \E t \in Threads : ThreadNext(t)

Spec == Init /\ [][Next]_vars

(* Every thread is scheduled; who gets a free mutex is open.               *)
FairSpec == Spec /\ \A t \in Threads : WF_vars(ThreadNext(t))
-----------------------------------------------------------------------------
Finished == calls = MaxCalls /\ \A t \in Threads : pc[t] = "idle"

(* Types of the variables; whoever is between locking and unlocking holds  *)
(* the mutex, however it was taken.                                        *)
TypeOK ==
  /\ value_ \in Nat
  /\ mutex_ \in 0..NumThreads
  /\ \A t \in Threads :
       pc[t] \in {"flag", "access", "check", "write", "unlock"} => mutex_ = t
  /\ locked_ \in BOOLEAN
  /\ pc \in [Threads -> {"idle", "lock", "flag", "access", "check", "write",
                         "unlock", "clear", "aborted"}]
  /\ op \in [Threads -> Operations]
  /\ read \in [Threads -> Nat]
  /\ calls \in 0..MaxCalls
  /\ updates \in Nat
  /\ setter \in 0..NumThreads

(* "Read-Modify-Write ... all in an atomic section": an update is never    *)
(* lost, whichever of the three ways to lock the threads use, and also     *)
(* when the flag is wrong.                                                 *)
NoLostUpdate == TypeOK /\ value_ = updates

(* What clearing locked_ late can do: DCHECK(locked_) fails for a thread   *)
(* that has called GetLock only because another thread, which had unlocked *)
(* before, cleared the flag behind it.  ~ThreadSafe's DCHECK holds: when   *)
(* no thread is inside an operation, the flag is clear.                    *)
AbortNeedsLateClear ==
  /\ \A t \in Threads : pc[t] = "aborted" => setter \notin {0, t}
  /\ (\A t \in Threads : pc[t] = "idle") => (~locked_ /\ mutex_ = 0)

(* Every thread gets through its operations, or a DCHECK ends them all.    *)
EveryoneFinishes == <>(Aborted \/ Finished)
=============================================================================
