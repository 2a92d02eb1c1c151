---------------------------- MODULE Annotations ----------------------------
(***************************************************************************)
(* MergeEvaluations for one autoref over many runs of the evaluator: each  *)
(* run computes the same evaluations, looks for an .eval file of an earlier*)
(* run, compares it line by line, writes a new one when that fails, and    *)
(* counts.  Between runs a human annotates the file.  A run may be killed  *)
(* at any step.                                                            *)
(*                                                                         *)
(* The two events of an evaluation are one number, its place in the list:  *)
(* Matching shows that no two evaluations of a list hold the same events.  *)
(***************************************************************************)
EXTENDS Integers, Sequences

CONSTANTS
  MaxEvaluations,  (* bound: evaluations of the autoref                    *)
  IndexLimit,      (* "%3d" reads the indexes below 1000                   *)
  MaxEdits,        (* bound: edits by the human                            *)
  MaxRuns          (* bound: runs of the evaluator                         *)

ASSUME AnnotationsAssumption ==
  /\ MaxEvaluations \in Nat
  /\ IndexLimit \in Nat
  /\ MaxEdits \in Nat
  /\ MaxRuns \in Nat

VARIABLES
  evaluations,  (* the list of this log, the same in every run             *)
  exists,       (* whether there is an .eval file                          *)
  file,         (* its lines                                               *)
  i,            (* LoadEvaluations and SaveEvaluations: the loop index     *)
  pos,          (* lines read by fscanf                                    *)
  pc,
  outcome,      (* of the last run                                         *)
  edits, runs

vars == <<evaluations, exists, file, i, pos, pc, outcome, edits, runs>>

Evaluation ==
  [value: {"kUnknown", "kTruePositive", "kFalsePositive", "kFalseNegative"},
   events: 1..MaxEvaluations, ignore: BOOLEAN]

ValueStrings == {"UN", "TP", "FP", "FN"}

ValueString(value) ==
  CASE value = "kTruePositive" -> "TP"
    [] value = "kFalsePositive" -> "FP"
    [] value = "kFalseNegative" -> "FN"
    [] OTHER -> "UN"

(* The strcmp chain of LoadEvaluations; the default constructor's value    *)
(* stands for every other string.                                          *)
ValueOf(string) ==
  CASE string = "TP" -> "kTruePositive"
    [] string = "FP" -> "kFalsePositive"
    [] string = "FN" -> "kFalseNegative"
    [] OTHER -> "kUnknown"

(* A line; one that a killed run left unfinished is not whole.             *)
Line == [index: 0..MaxEvaluations, value: ValueStrings, ignore: BOOLEAN,
         events: 1..MaxEvaluations, whole: BOOLEAN]

LineOf(n, eval) ==
  [index |-> n, value |-> ValueString(eval.value), ignore |-> eval.ignore,
   events |-> eval.events, whole |-> TRUE]

(* fscanf reads eleven fields.  An index of four digits is split by "%3d": *)
(* its last digit is taken for the value and the value for the flag.       *)
Parses(line) == line.whole /\ line.index < IndexLimit

(* Mutants of the next one: only the events are compared; the ignore flag  *)
(* is compared as well.                                                    *)
DiffersInEvents(line, eval) == line.events # eval.events

DiffersInFlag(line, eval) ==
  \/ ValueOf(line.value) # eval.value
  \/ line.events # eval.events
  \/ line.ignore # eval.ignore

(* operator!= of two evaluations: not the ignore flag.                     *)
Differs(line, eval) ==
  ValueOf(line.value) # eval.value \/ line.events # eval.events

(* EvaluateAutorefs gives no evaluation a value (see Matching).            *)
Init ==
  /\ \E n \in 0..MaxEvaluations :
       evaluations = [m \in 1..n |->
         [value |-> "kUnknown", events |-> m, ignore |-> FALSE]]
  /\ exists = FALSE
  /\ file = <<>>
  /\ i = 0
  /\ pos = 0
  /\ pc = "idle"
  /\ outcome = "none"
  /\ edits = 0
  /\ runs = 0

-----------------------------------------------------------------------------
MergeEvaluations ==
  /\ pc = "idle"
  /\ runs < MaxRuns
  /\ runs' = runs + 1
  /\ pc' = IF exists THEN "load" ELSE "truncate"
  /\ i' = 0
  /\ pos' = 0
  /\ outcome' = "none"
  /\ UNCHANGED <<evaluations, exists, file, edits>>

(* LoadEvaluations                                                         *)

LoadedAll ==
  /\ pc = "load"
  /\ i >= Len(evaluations)
  /\ pc' = "count"
  /\ UNCHANGED <<evaluations, exists, file, i, pos, outcome, edits, runs>>

(* Mutant of the next one: the result is not looked at.                    *)
LoadResultIgnored ==
  /\ pc' = "count"
  /\ UNCHANGED <<evaluations, exists, file, i, pos, outcome, edits, runs>>

LoadFails ==
  /\ pc' = "truncate"
  /\ pos' = 0
  /\ UNCHANGED <<evaluations, exists, file, i, outcome, edits, runs>>

EndOfFile ==
  /\ pc = "load"
  /\ i < Len(evaluations)
  /\ pos < Len(file) => ~Parses(file[pos + 1])
  /\ LoadFails

(* Mutant of the next one: the file is opened again for every line.        *)
FirstLineAgain == pos

LineRead == pos + 1

(* fscanf stores the line's number in the loop index itself: the line is   *)
(* compared with the evaluation of that number, and the loop goes on after *)
(* it.  A number past the end reads beyond the vector.                     *)
LoadLine ==
  /\ pc = "load"
  /\ i < Len(evaluations)
  /\ pos < Len(file)
  /\ Parses(file[pos + 1])
  /\ LET line == file[pos + 1]
     IN  \/ /\ line.index < Len(evaluations)
               => ~Differs(line, evaluations[line.index + 1])
            /\ i' = line.index + 1
            /\ pos' = LineRead
            /\ UNCHANGED <<evaluations, exists, file, pc, outcome, edits, runs>>
         \/ /\ line.index < Len(evaluations)
               => Differs(line, evaluations[line.index + 1])
            /\ LoadFails

(* SaveEvaluations: opening for writing empties the file.                  *)
Truncate ==
  /\ pc = "truncate"
  /\ exists' = TRUE
  /\ file' = <<>>
  /\ i' = 0
  /\ pc' = "save"
  /\ UNCHANGED <<evaluations, pos, outcome, edits, runs>>

SaveLine ==
  /\ pc = "save"
  /\ i < Len(evaluations)
  /\ file' = Append(file, LineOf(i, evaluations[i + 1]))
  /\ i' = i + 1
  /\ UNCHANGED <<evaluations, exists, pos, pc, outcome, edits, runs>>

SavedAll ==
  /\ pc = "save"
  /\ i = Len(evaluations)
  /\ pc' = "count"
  /\ UNCHANGED <<evaluations, exists, file, i, pos, outcome, edits, runs>>

(* The counting loop: exit(1) at the first evaluation that is not ignored  *)
(* and has no value.                                                       *)
Counted == { n \in DOMAIN evaluations : ~evaluations[n].ignore }

Count ==
  /\ pc = "count"
  /\ outcome' = IF \E n \in Counted : evaluations[n].value = "kUnknown"
                  THEN "error" ELSE "printed"
  /\ pc' = "idle"
  /\ UNCHANGED <<evaluations, exists, file, i, pos, edits, runs>>

(* The run is killed.  What it wrote is on disk up to some byte.           *)
Kill ==
  /\ pc # "idle"
  /\ pc' = "idle"
  /\ outcome' = "killed"
  /\ IF pc = "save"
       THEN \E n \in 0..Len(file) :
              \/ file' = SubSeq(file, 1, n)
              \/ n > 0 /\ file' = Append(SubSeq(file, 1, n - 1),
                                         [file[n] EXCEPT !.whole = FALSE])
       ELSE UNCHANGED file
  /\ UNCHANGED <<evaluations, exists, i, pos, edits, runs>>

-----------------------------------------------------------------------------
(* The human (external).                                                   *)

Edit(new) ==
  /\ pc = "idle"
  /\ exists
  /\ edits < MaxEdits
  /\ edits' = edits + 1
  /\ file' = new
  /\ UNCHANGED <<evaluations, exists, i, pos, pc, outcome, runs>>

Correct(n) ==
  \E value \in ValueStrings \ {"UN"} : Edit([file EXCEPT ![n].value = value])

SetIgnore(n) == Edit([file EXCEPT ![n].ignore = TRUE])

Renumber(n) ==
  \E index \in 0..MaxEvaluations : Edit([file EXCEPT ![n].index = index])

DeleteLine(n) ==
  Edit(SubSeq(file, 1, n - 1) \o SubSeq(file, n + 1, Len(file)))

Annotate ==
  /\ exists
  /\ \E n \in DOMAIN file :
       Correct(n) \/ SetIgnore(n) \/ Renumber(n) \/ DeleteLine(n)

Step ==
  \/ LoadedAll \/ EndOfFile \/ LoadLine
  \/ Truncate \/ SaveLine \/ SavedAll \/ Count

Next == MergeEvaluations \/ Step \/ Kill \/ Annotate

Spec == Init /\ [][Next]_vars

(* The evaluator is one thread that waits for nobody.                      *)
FairSpec == Spec /\ WF_vars(Step)
-----------------------------------------------------------------------------
(* Types of the file, the list and the indexes.                            *)
TypeOK ==
  /\ evaluations \in Seq(Evaluation)
  /\ exists \in BOOLEAN
  /\ file \in Seq(Line)
  /\ i \in 0..(MaxEvaluations + 1)
  /\ pos \in 0..MaxEvaluations
  /\ pc \in {"idle", "load", "truncate", "save", "count"}
  /\ outcome \in {"none", "error", "printed", "killed"}
  /\ edits \in 0..MaxEdits
  /\ runs \in 0..MaxRuns

(* A run that was killed while it saved is repaired by the next: unless a  *)
(* human changed it, the file holds every evaluation when they are counted.*)
(* An unfinished file is never taken for an annotated one.                 *)
KilledSaveRepaired ==
  (pc = "count" /\ edits = 0) =>
    file = [m \in 1..Len(evaluations) |-> LineOf(m - 1, evaluations[m])]

(* A file that was loaded and the list agree when the list is counted,     *)
(* although a human may have corrected, renumbered and deleted its lines   *)
(* and fscanf sets the loop index: no line that was read contradicts the   *)
(* evaluation it names, and none ended the reading early: the last one     *)
(* read names the last evaluation, or one past the end, where the code     *)
(* compares with the memory behind the vector and may find it equal.       *)
CountedFileAgrees ==
  /\ TypeOK
  /\ (pc = "count" /\ pos > 0) =>
       /\ \A n \in 1..pos :
            LET line == file[n]
            IN  line.index < Len(evaluations) =>
                  /\ line.events = evaluations[line.index + 1].events
                  /\ ValueOf(line.value) = evaluations[line.index + 1].value
       /\ file[pos].index >= Len(evaluations) - 1

(* The file has a line for every evaluation, in order, with its value and  *)
(* its events; the ignore flags are the human's.                           *)
Consistent ==
  /\ Len(file) = Len(evaluations)
  /\ \A n \in 1..Len(file) :
       file[n] = [LineOf(n - 1, evaluations[n]) EXCEPT !.ignore = file[n].ignore]

(* "Human-annotated evaluations exist, and are consistent": the evaluator  *)
(* never overwrites such a file, whatever is flagged in it, however often  *)
(* it runs and wherever runs are killed; unless there are more evaluations *)
(* than "%3d" can number.                                                  *)
ConsistentFileKept ==
  [][ (exists /\ pc # "save" /\ Consistent /\ Len(evaluations) <= IndexLimit)
        => (file' = file \/ edits' # edits) ]_vars

(* A run comes to its end although LoadEvaluations lets the file overwrite *)
(* its loop index.                                                         *)
RunEnds == (pc # "idle") ~> (pc = "idle")

-----------------------------------------------------------------------------
(* Claims of the source's comments that the code does not keep.            *)

(* "Should never happen": no evaluation is unknown when it is counted.     *)
UnknownNeverCounted == outcome # "error"

=============================================================================
