----------------------------- MODULE MCHelpers -----------------------------
(* A program that uses the shared helpers: threads that share a ThreadSafe *)
(* and, when all have ended, one that calls gcd or the array functions of  *)
(* util.h.  So that the three do not multiply, the latter follow only      *)
(* where the threads left the ThreadSafe as it was.                        *)
EXTENDS ThreadSafe, NumericUtil, Arrays

MCNumbers == (-9)..9

NoNumbers == a = 0 /\ b = 0

HelpersInit == Init /\ InitNumbers /\ NoNumbers /\ InitArrays

Threading(t) == ThreadNext(t) /\ UNCHANGED <<numbers, arrays>>

Alone ==
  /\ Finished
  /\ value_ = 0 /\ setter = 0
  /\ \A t \in Threads : op[t] = "Get" /\ read[t] = 0

CallGcd ==
  /\ a' \in Numbers /\ b' \in Numbers
  /\ x' = a' /\ y' = b'
  /\ UNCHANGED <<vars, arrays>>

HelpersNext ==
  \/ \E t \in Threads : Threading(t)
  \/ Alone /\ NoNumbers /\ InitArrays /\ CallGcd
  \/ Alone /\ GcdStep /\ UNCHANGED <<vars, arrays>>
  \/ Alone /\ NoNumbers /\ NextArrays /\ UNCHANGED <<vars, numbers>>

HelpersSpec ==
  /\ HelpersInit
  /\ [][HelpersNext]_<<vars, numbers, arrays>>
  /\ \A t \in Threads : WF_<<vars, numbers, arrays>>(Threading(t))
=============================================================================
