------------------------- MODULE AnnotationsProofs -------------------------
(***************************************************************************)
(* Proofs about Annotations: what a killed run leaves behind is repaired,  *)
(* a file that is counted agrees with the evaluations, and a consistent    *)
(* one is never overwritten; for every number of evaluations, edits and    *)
(* runs, every limit on the index that is read back, and every kill.       *)
(***************************************************************************)
EXTENDS Annotations, SequenceTheorems, TLAPS

(* The evaluations, which no run changes: none has a value.                *)
ListInv ==
  /\ evaluations \in Seq(Evaluation)
  /\ Len(evaluations) <= MaxEvaluations
  /\ \A n \in 1..Len(evaluations) :
       evaluations[n].value = "kUnknown" /\ ~evaluations[n].ignore

(* The file and the two places in it.  Nothing is read after a failure.    *)
PlacesInv ==
  /\ Len(file) <= Len(evaluations)
  /\ ~exists => file = <<>>
  /\ pc \in {"load", "count"} => pos <= Len(file)
  /\ pc \in {"truncate", "save"} => pos = 0
  /\ pc = "save" => exists /\ i = Len(file)

(* A line that is whole is its evaluation's, unless a human changed it.    *)
Untouched ==
  \A n \in 1..Len(file) : file[n].whole => file[n] = LineOf(n - 1, evaluations[n])

(* The lines that were read agree with the list, and the loop index is one *)
(* more than the number in the last of them: past the list when they are   *)
(* counted.                                                                *)
ReadInv ==
  pc \in {"load", "count"} =>
    /\ pos > 0 => i = file[pos].index + 1
    /\ pos = 0 /\ pc = "load" => i = 0
    /\ pos > 0 /\ pc = "count" => i >= Len(evaluations)
    /\ \A n \in 1..pos :
         /\ Parses(file[n])
         /\ file[n].index < Len(evaluations) =>
              ~Differs(file[n], evaluations[file[n].index + 1])

(* What a run without edits relies on: while it saves every line is whole, *)
(* and when it counts the file is complete.                                *)
SavedInv ==
  /\ edits = 0 => Untouched
  /\ pc = "save" => \A n \in 1..Len(file) : file[n] = LineOf(n - 1, evaluations[n])
  /\ pc = "count" /\ edits = 0 =>
       Len(file) = Len(evaluations) /\ \A n \in 1..Len(file) : file[n].whole

(* A consistent file is read line by line and never given up.              *)
KeptInv ==
  (exists /\ Consistent /\ Len(evaluations) <= IndexLimit) =>
    /\ pc = "load" => i = pos
    /\ pc # "truncate"

IInv == TypeOK /\ ListInv /\ PlacesInv /\ ReadInv /\ SavedInv /\ KeptInv

-----------------------------------------------------------------------------
LEMMA Lists ==
  ASSUME TypeOK, ListInv
  PROVE  /\ Len(file) \in Nat /\ Len(evaluations) \in Nat
         /\ MaxEvaluations \in Nat /\ i \in Nat /\ pos \in Nat
         /\ \A n \in 1..Len(file) : file[n] \in Line
         /\ \A n \in 1..Len(evaluations) : evaluations[n] \in Evaluation
<1>1. /\ file \in Seq(Line) /\ evaluations \in Seq(Evaluation)
      /\ MaxEvaluations \in Nat
  BY AnnotationsAssumption DEF TypeOK
<1>2. /\ \A n \in 1..Len(file) : file[n] \in Line
      /\ \A n \in 1..Len(evaluations) : evaluations[n] \in Evaluation
  BY <1>1, ElementOfSeq
<1>. QED
  BY <1>1, <1>2 DEF TypeOK

(* The line that is written for an evaluation.                             *)
LEMMA LineWritten ==
  ASSUME TypeOK, ListInv, NEW n \in 1..Len(evaluations)
  PROVE  /\ LineOf(n - 1, evaluations[n]) \in Line
         /\ LineOf(n - 1, evaluations[n]).index = n - 1
         /\ LineOf(n - 1, evaluations[n]).whole
<1>1. /\ evaluations[n] \in Evaluation /\ evaluations[n].value = "kUnknown"
      /\ n - 1 \in 0..MaxEvaluations
  BY Lists DEF ListInv
<1>2. ValueString(evaluations[n].value) = "UN"
  BY <1>1 DEF ValueString
<1>3. LineOf(n - 1, evaluations[n]) =
        [index |-> n - 1, value |-> "UN", ignore |-> evaluations[n].ignore,
         events |-> evaluations[n].events, whole |-> TRUE]
  BY <1>2 DEF LineOf
<1>4. /\ evaluations[n].ignore \in BOOLEAN
      /\ evaluations[n].events \in 1..MaxEvaluations
  BY <1>1 DEF Evaluation
<1>5. LineOf(n - 1, evaluations[n]) \in Line
  <2>1. \A x \in 0..MaxEvaluations, b \in BOOLEAN, e \in 1..MaxEvaluations :
          [index |-> x, value |-> "UN", ignore |-> b, events |-> e, whole |-> TRUE]
            \in Line
    BY DEF Line, ValueStrings
  <2>. QED
    BY <2>1, <1>1, <1>3, <1>4
<1>. QED
  BY <1>3, <1>5

(* A line of a consistent file can be read, and it is its evaluation's.     *)
LEMMA ConsistentLine ==
  ASSUME TypeOK, ListInv, Consistent, Len(evaluations) <= IndexLimit,
         NEW n \in 1..Len(file)
  PROVE  /\ Parses(file[n])
         /\ file[n].index = n - 1
         /\ ~Differs(file[n], evaluations[n])
<1>1. /\ Len(file) = Len(evaluations) /\ Len(file) \in Nat /\ IndexLimit \in Nat
      /\ n \in 1..Len(evaluations)
  BY Lists, AnnotationsAssumption DEF Consistent
<1>2. evaluations[n].value = "kUnknown"
  BY <1>1 DEF ListInv
<1>3. LineOf(n - 1, evaluations[n]) =
        [index |-> n - 1, value |-> "UN", ignore |-> evaluations[n].ignore,
         events |-> evaluations[n].events, whole |-> TRUE]
  BY <1>2 DEF LineOf, ValueString
<1>4. file[n] = [LineOf(n - 1, evaluations[n]) EXCEPT !.ignore = file[n].ignore]
  BY DEF Consistent
<1>5. /\ file[n].index = n - 1 /\ file[n].whole /\ file[n].value = "UN"
      /\ file[n].events = evaluations[n].events
  BY <1>3, <1>4
<1>6. n - 1 < IndexLimit
  BY <1>1
<1>. QED
  BY <1>2, <1>5, <1>6 DEF Parses, Differs, ValueOf

LEMMA InitIInv == Init => IInv
<1> SUFFICES ASSUME Init PROVE IInv
  OBVIOUS
<1>1. PICK n \in 0..MaxEvaluations :
        evaluations = [m \in 1..n |-> [value |-> "kUnknown", events |-> m, ignore |-> FALSE]]
  BY DEF Init
<1>2. n \in Nat
  BY AnnotationsAssumption
<1>3. \A m \in 1..n : evaluations[m] =
        [value |-> "kUnknown", events |-> m, ignore |-> FALSE]
  BY <1>1
<1>4. \A m \in 1..n : /\ evaluations[m] \in Evaluation
                      /\ evaluations[m].value = "kUnknown" /\ ~evaluations[m].ignore
  BY <1>1, <1>2, <1>3, AnnotationsAssumption DEF Evaluation
<1>5. evaluations \in Seq(Evaluation) /\ Len(evaluations) = n
  BY <1>1, <1>2, <1>4
<1>6. ListInv
  BY <1>4, <1>5, AnnotationsAssumption DEF ListInv
<1>7. TypeOK
  <2>1. file \in Seq(Line)
    BY EmptySeq DEF Init
  <2>2. /\ i \in 0..(MaxEvaluations + 1) /\ pos \in 0..MaxEvaluations
        /\ edits \in 0..MaxEdits /\ runs \in 0..MaxRuns
    BY AnnotationsAssumption DEF Init
  <2>3. /\ exists \in BOOLEAN
        /\ pc \in {"idle", "load", "truncate", "save", "count"}
        /\ outcome \in {"none", "error", "printed", "killed"}
    BY DEF Init
  <2>. QED
    BY <1>5, <2>1, <2>2, <2>3 DEF TypeOK
<1>8. PlacesInv /\ ReadInv /\ SavedInv /\ KeptInv
  BY <1>2, <1>5 DEF Init, PlacesInv, ReadInv, SavedInv, KeptInv, Untouched
<1>. QED
  BY <1>6, <1>7, <1>8 DEF IInv

LEMMA ListStays == ListInv /\ [Next]_vars => ListInv' /\ evaluations' = evaluations
<1>1. ASSUME [Next]_vars PROVE evaluations' = evaluations
  BY <1>1 DEF Next, Step, vars, MergeEvaluations, LoadedAll, EndOfFile, LoadFails,
              LoadLine, Truncate, SaveLine, SavedAll, Count, Kill, Annotate,
              Correct, SetIgnore, Renumber, DeleteLine, Edit
<1>. QED
  BY <1>1 DEF ListInv

LEMMA MergeIInv == IInv /\ ListInv' /\ MergeEvaluations => IInv'
<1> SUFFICES ASSUME IInv, ListInv', MergeEvaluations PROVE IInv'
  OBVIOUS
<1>1. TypeOK'
  BY AnnotationsAssumption DEF IInv, TypeOK, MergeEvaluations
<1>2. Len(file) \in Nat
  BY Lists DEF IInv
<1>3. PlacesInv' /\ ReadInv' /\ SavedInv' /\ KeptInv'
  BY <1>2 DEF IInv, MergeEvaluations, PlacesInv, ReadInv, SavedInv, Untouched, KeptInv
<1>. QED
  BY <1>1, <1>3 DEF IInv

(* Every line was read, and without an edit in between that means all of   *)
(* them in order.                                                          *)
LEMMA LoadedAllIInv == IInv /\ ListInv' /\ LoadedAll => IInv'
<1> SUFFICES ASSUME IInv, ListInv', LoadedAll PROVE IInv'
  OBVIOUS
<1>1. /\ pc = "load" /\ pc' = "count" /\ i >= Len(evaluations)
      /\ UNCHANGED <<evaluations, exists, file, i, pos, outcome, edits, runs>>
  BY DEF LoadedAll
<1>2. /\ Len(file) \in Nat /\ Len(evaluations) \in Nat /\ i \in Nat /\ pos \in Nat
      /\ pos <= Len(file) /\ Len(file) <= Len(evaluations)
  BY <1>1, Lists DEF IInv, PlacesInv
<1>3. ASSUME edits = 0
      PROVE  Len(file) = Len(evaluations) /\ \A n \in 1..Len(file) : file[n].whole
  <2>1. CASE pos = 0
    BY <2>1, <1>1, <1>2 DEF IInv, ReadInv
  <2>2. CASE pos > 0
    <3>1. pos \in 1..Len(file) /\ pos \in 1..Len(evaluations)
      BY <2>2, <1>2
    <3>2. \A n \in 1..pos : file[n].whole
      BY <1>1 DEF IInv, ReadInv, Parses
    <3>3. file[pos] = LineOf(pos - 1, evaluations[pos])
      BY <2>2, <3>1, <3>2, <1>2, <1>3 DEF IInv, SavedInv, Untouched
    <3>4. LineOf(pos - 1, evaluations[pos]).index = pos - 1
      BY <3>1, LineWritten DEF IInv
    <3>5. i = file[pos].index + 1
      BY <2>2, <1>1 DEF IInv, ReadInv
    <3>6. i = pos
      BY <3>3, <3>4, <3>5, <1>2
    <3>7. Len(file) = pos /\ Len(evaluations) = pos
      BY <3>6, <1>1, <1>2
    <3>. QED
      BY <3>2, <3>7
  <2>. QED
    BY <2>1, <2>2, <1>2
<1>4. TypeOK' /\ PlacesInv' /\ ReadInv' /\ KeptInv'
  BY <1>1, <1>2 DEF IInv, TypeOK, PlacesInv, ReadInv, KeptInv, Consistent
<1>5. SavedInv'
  BY <1>1, <1>3 DEF IInv, SavedInv, Untouched
<1>. QED
  BY <1>4, <1>5 DEF IInv

(* The file is given up at its end or at a line that differs: it was not   *)
(* consistent.                                                             *)
LEMMA LoadFailsIInv ==
  ASSUME IInv, ListInv', pc = "load", LoadFails, i < Len(evaluations),
         \/ pos < Len(file) => ~Parses(file[pos + 1])
         \/ /\ pos < Len(file)
            /\ file[pos + 1].index < Len(evaluations) =>
                 Differs(file[pos + 1], evaluations[file[pos + 1].index + 1])
  PROVE  IInv'
<1>1. TypeOK'
  BY AnnotationsAssumption DEF IInv, TypeOK, LoadFails
<1>2. ~(exists /\ Consistent /\ Len(evaluations) <= IndexLimit)
  <2> SUFFICES ASSUME exists, Consistent, Len(evaluations) <= IndexLimit PROVE FALSE
    OBVIOUS
  <2>1. /\ Len(file) \in Nat /\ Len(evaluations) \in Nat /\ pos \in Nat
        /\ i = pos /\ Len(file) = Len(evaluations)
    BY Lists DEF IInv, KeptInv, Consistent
  <2>2. pos < Len(file) /\ pos + 1 \in 1..Len(file) /\ (pos + 1) - 1 = pos
    BY <2>1
  <2>3. /\ Parses(file[pos + 1]) /\ file[pos + 1].index = (pos + 1) - 1
        /\ ~Differs(file[pos + 1], evaluations[pos + 1])
    BY <2>2, ConsistentLine DEF IInv
  <2>4. file[pos + 1].index = pos
    BY <2>2, <2>3
  <2>. QED
    BY <2>1, <2>2, <2>3, <2>4
<1>3. KeptInv'
  BY <1>2 DEF LoadFails, KeptInv, Consistent
<1>4. PlacesInv' /\ ReadInv' /\ SavedInv'
  BY DEF LoadFails, IInv, PlacesInv, ReadInv, SavedInv, Untouched
<1>. QED
  BY <1>1, <1>3, <1>4 DEF IInv

LEMMA LoadLineIInv == IInv /\ ListInv' /\ LoadLine => IInv'
<1> SUFFICES ASSUME IInv, ListInv', LoadLine PROVE IInv'
  OBVIOUS
<1> DEFINE line == file[pos + 1]
<1>1. pc = "load" /\ i < Len(evaluations) /\ pos < Len(file) /\ Parses(line)
  BY DEF LoadLine
<1>2. /\ Len(file) \in Nat /\ Len(evaluations) \in Nat /\ pos \in Nat
      /\ Len(file) <= Len(evaluations) /\ Len(evaluations) <= MaxEvaluations
      /\ MaxEvaluations \in Nat /\ pos + 1 \in 1..Len(file)
      /\ line.index \in 0..MaxEvaluations
  BY <1>1, Lists DEF IInv, PlacesInv, ListInv, Line
<1>3. CASE /\ line.index < Len(evaluations)
                => Differs(line, evaluations[line.index + 1])
           /\ LoadFails
  BY <1>1, <1>3, LoadFailsIInv
<1>4. CASE /\ line.index < Len(evaluations)
                => ~Differs(line, evaluations[line.index + 1])
           /\ i' = line.index + 1 /\ pos' = LineRead
           /\ UNCHANGED <<evaluations, exists, file, pc, outcome, edits, runs>>
  <2>1. pos' = pos + 1
    BY <1>4 DEF LineRead
  <2> HIDE DEF line
  <2>2. i' \in 0..(MaxEvaluations + 1) /\ pos' \in 0..MaxEvaluations
    BY <2>1, <1>2, <1>4
  <2>3. TypeOK'
    BY <2>2, <1>4 DEF IInv, TypeOK
  <2>4. PlacesInv' /\ SavedInv'
    BY <2>1, <1>1, <1>2, <1>4 DEF IInv, PlacesInv, SavedInv, Untouched
  <2>k. KeptInv'
    <3>1. ASSUME exists, Consistent, Len(evaluations) <= IndexLimit
          PROVE  i' = pos'
      <4>1. line.index = (pos + 1) - 1
        BY <1>2, <3>1, ConsistentLine DEF IInv, line
      <4>. QED
        BY <4>1, <2>1, <1>2, <1>4
    <3>. QED
      BY <3>1, <1>1, <1>4 DEF KeptInv, Consistent
  <2>5. \A n \in 1..(pos + 1) : n \in 1..pos \/ n = pos + 1
    BY <1>2
  <2>6. \A n \in 1..(pos + 1) :
          /\ Parses(file[n])
          /\ file[n].index < Len(evaluations) =>
               ~Differs(file[n], evaluations[file[n].index + 1])
    BY <2>5, <1>1, <1>4 DEF IInv, ReadInv, line
  <2>7. pos' # 0 /\ i' = file[pos'].index + 1
    BY <2>1, <1>2, <1>4 DEF line
  <2>8. ReadInv'
    <3>1. pc' = "load" /\ pos' = pos + 1 /\ file' = file /\ evaluations' = evaluations
      BY <2>1, <1>1, <1>4
    <3>. QED
      BY <3>1, <2>6, <2>7 DEF ReadInv
  <2>. QED
    BY <2>3, <2>4, <2>k, <2>8 DEF IInv
<1>. QED
  BY <1>3, <1>4 DEF LoadLine

LEMMA SaveLineIInv == IInv /\ ListInv' /\ SaveLine => IInv'
<1> SUFFICES ASSUME IInv, ListInv', SaveLine PROVE IInv'
  OBVIOUS
<1> DEFINE line == LineOf(i, evaluations[i + 1])
<1>1. /\ pc = "save" /\ i < Len(evaluations) /\ i = Len(file) /\ pos = 0
      /\ file' = Append(file, line) /\ i' = i + 1
      /\ UNCHANGED <<evaluations, exists, pos, pc, outcome, edits, runs>>
  BY DEF SaveLine, IInv, PlacesInv
<1>2. /\ i \in Nat /\ Len(evaluations) \in Nat /\ file \in Seq(Line)
      /\ Len(evaluations) <= MaxEvaluations /\ MaxEvaluations \in Nat
  BY Lists DEF IInv, ListInv, TypeOK
<1>3. line \in Line
  <2>1. i + 1 \in 1..Len(evaluations) /\ (i + 1) - 1 = i
    BY <1>1, <1>2
  <2>. QED
    BY <2>1, LineWritten DEF IInv
<1> HIDE DEF line
<1>4. /\ file' \in Seq(Line) /\ Len(file') = i + 1
      /\ \A n \in 1..i : file'[n] = file[n]
      /\ file'[i + 1] = line
  BY <1>1, <1>2, <1>3, AppendProperties
<1>5. i' \in 0..(MaxEvaluations + 1)
  BY <1>1, <1>2
<1>6. TypeOK'
  BY <1>1, <1>4, <1>5 DEF IInv, TypeOK
<1>7. PlacesInv' /\ ReadInv' /\ KeptInv'
  BY <1>1, <1>2, <1>4 DEF IInv, PlacesInv, ReadInv, KeptInv
<1>8. \A n \in 1..Len(file') : file'[n] = LineOf(n - 1, evaluations[n])
  <2>1. \A n \in 1..i : file[n] = LineOf(n - 1, evaluations[n])
    BY <1>1 DEF IInv, SavedInv
  <2>2. file'[i + 1] = LineOf((i + 1) - 1, evaluations[i + 1])
    BY <1>2, <1>4 DEF line
  <2>3. \A n \in 1..(i + 1) : n \in 1..i \/ n = i + 1
    BY <1>2
  <2>. QED
    BY <2>1, <2>2, <2>3, <1>4
<1>9. SavedInv'
  BY <1>1, <1>8 DEF SavedInv, Untouched
<1>. QED
  BY <1>6, <1>7, <1>9 DEF IInv

LEMMA SaveStepsIInv == IInv /\ ListInv' /\ (Truncate \/ SavedAll) => IInv'
<1> SUFFICES ASSUME IInv, ListInv', Truncate \/ SavedAll PROVE IInv'
  OBVIOUS
<1>1. Len(file) \in Nat /\ Len(evaluations) \in Nat
  BY Lists DEF IInv
<1>2. CASE Truncate
  <2>1. TypeOK'
    BY <1>2, AnnotationsAssumption, EmptySeq DEF IInv, TypeOK, Truncate
  <2>2. Len(file') = 0 /\ \A n \in 1..Len(file') : FALSE
    BY <1>2 DEF Truncate
  <2>3. PlacesInv' /\ ReadInv' /\ SavedInv' /\ KeptInv'
    BY <1>1, <1>2, <2>2
    DEF Truncate, IInv, PlacesInv, ReadInv, SavedInv, Untouched, KeptInv
  <2>. QED
    BY <2>1, <2>3 DEF IInv
<1>3. CASE SavedAll
  <2>1. /\ pc = "save" /\ pc' = "count" /\ i = Len(evaluations)
        /\ UNCHANGED <<evaluations, exists, file, i, pos, outcome, edits, runs>>
    BY <1>3 DEF SavedAll
  <2>2. Len(file) = Len(evaluations) /\ pos = 0
    BY <2>1 DEF IInv, PlacesInv
  <2>3. \A n \in 1..Len(file) : file[n].whole
    <3>1. \A n \in 1..Len(file) : file[n] = LineOf(n - 1, evaluations[n])
      BY <2>1 DEF IInv, SavedInv
    <3>. QED
      BY <3>1, <2>2, LineWritten DEF IInv
  <2>4. TypeOK'
    BY <2>1 DEF IInv, TypeOK
  <2>5. PlacesInv' /\ ReadInv' /\ KeptInv'
    BY <1>1, <2>1, <2>2 DEF IInv, PlacesInv, ReadInv, KeptInv
  <2>6. SavedInv'
    BY <2>1, <2>2, <2>3 DEF IInv, SavedInv, Untouched
  <2>. QED
    BY <2>4, <2>5, <2>6 DEF IInv
<1>. QED
  BY <1>2, <1>3

LEMMA CountIInv == IInv /\ ListInv' /\ Count => IInv'
<1> SUFFICES ASSUME IInv, ListInv', Count PROVE IInv'
  OBVIOUS
<1>1. /\ pc = "count" /\ pc' = "idle" /\ outcome' \in {"error", "printed"}
      /\ UNCHANGED <<evaluations, exists, file, i, pos, edits, runs>>
  BY DEF Count
<1>2. TypeOK'
  BY <1>1 DEF IInv, TypeOK
<1>3. PlacesInv' /\ ReadInv' /\ SavedInv' /\ KeptInv'
  BY <1>1 DEF IInv, PlacesInv, ReadInv, SavedInv, Untouched, KeptInv, Consistent
<1>. QED
  BY <1>2, <1>3 DEF IInv

(* What a kill leaves on disk: the first lines, the last of them perhaps   *)
(* unfinished.                                                             *)
LEMMA Cut ==
  ASSUME NEW old \in Seq(Line), NEW n \in 0..Len(old), NEW new,
         \/ new = SubSeq(old, 1, n)
         \/ n > 0 /\ new = Append(SubSeq(old, 1, n - 1), [old[n] EXCEPT !.whole = FALSE])
  PROVE  /\ new \in Seq(Line) /\ Len(new) <= Len(old)
         /\ \A m \in 1..Len(new) : new[m].whole => new[m] = old[m]
<1>1. Len(old) \in Nat /\ \A m \in 1..Len(old) : old[m] \in Line
  BY ElementOfSeq
<1>2. n \in Nat /\ n <= Len(old)
  BY <1>1
<1>3. CASE new = SubSeq(old, 1, n)
  <2>1. \A m \in 1..n : old[m] \in Line
    BY <1>1, <1>2
  <2>2. /\ new \in Seq(Line)
        /\ Len(new) = IF 1 <= n THEN n - 1 + 1 ELSE 0
        /\ \A m \in 1..(n - 1 + 1) : new[m] = old[1 + m - 1]
    BY <1>2, <1>3, <2>1, SubSeqProperties
  <2>3. Len(new) = n /\ \A m \in 1..n : new[m] = old[m]
    BY <1>2, <2>2
  <2>. QED
    BY <1>2, <2>2, <2>3
<1>4. CASE n > 0 /\ new = Append(SubSeq(old, 1, n - 1), [old[n] EXCEPT !.whole = FALSE])
  <2> DEFINE start == SubSeq(old, 1, n - 1)
             torn == [old[n] EXCEPT !.whole = FALSE]
  <2>1. \A m \in 1..(n - 1) : old[m] \in Line
    BY <1>1, <1>2
  <2>2. n - 1 \in Nat /\ n \in 1..Len(old)
    BY <1>2, <1>4
  <2>3. /\ start \in Seq(Line)
        /\ Len(start) = IF 1 <= n - 1 THEN n - 1 - 1 + 1 ELSE 0
        /\ \A m \in 1..(n - 1 - 1 + 1) : start[m] = old[1 + m - 1]
    BY <2>1, <2>2, SubSeqProperties
  <2>4. torn \in Line /\ ~torn.whole
    <3>1. old[n] \in Line
      BY <1>1, <2>2
    <3>. QED
      BY <3>1 DEF Line
  <2>5. new = Append(start, torn)
    BY <1>4
  <2> HIDE DEF start, torn
  <2>6. Len(start) = n - 1 /\ \A m \in 1..(n - 1) : start[m] = old[m]
    BY <2>2, <2>3
  <2>7. /\ new \in Seq(Line) /\ Len(new) = Len(start) + 1
        /\ \A m \in 1..Len(start) : new[m] = start[m]
        /\ new[Len(start) + 1] = torn
    BY <2>3, <2>4, <2>5, AppendProperties
  <2>8. \A m \in 1..Len(new) : m \in 1..(n - 1) \/ m = Len(start) + 1
    BY <2>2, <2>6, <2>7
  <2>9. Len(new) <= Len(old)
    BY <1>2, <2>6, <2>7
  <2>. QED
    BY <2>4, <2>6, <2>7, <2>8, <2>9
<1>. QED
  BY <1>3, <1>4

LEMMA KillIInv == IInv /\ ListInv' /\ Kill => IInv'
<1> SUFFICES ASSUME IInv, ListInv', Kill PROVE IInv'
  OBVIOUS
<1>1. /\ pc # "idle" /\ pc' = "idle" /\ outcome' = "killed"
      /\ UNCHANGED <<evaluations, exists, i, pos, edits, runs>>
  BY DEF Kill
<1>2. /\ file \in Seq(Line) /\ Len(file) \in Nat
      /\ Len(file) <= Len(evaluations) /\ Len(evaluations) \in Nat
  BY Lists DEF IInv, TypeOK, PlacesInv
<1>3. /\ file' \in Seq(Line) /\ Len(file') <= Len(file)
      /\ \A m \in 1..Len(file') : file'[m].whole => file'[m] = file[m]
      /\ ~exists => file' = <<>>
  <2>1. CASE pc = "save"
    <3>1. PICK n \in 0..Len(file) :
            \/ file' = SubSeq(file, 1, n)
            \/ n > 0 /\ file' = Append(SubSeq(file, 1, n - 1),
                                       [file[n] EXCEPT !.whole = FALSE])
      BY <2>1 DEF Kill
    <3>2. exists
      BY <2>1 DEF IInv, PlacesInv
    <3>. QED
      BY <3>1, <3>2, <1>2, Cut
  <2>2. CASE pc # "save"
    <3>1. file' = file
      BY <2>2 DEF Kill
    <3>. QED
      BY <3>1, <1>2 DEF IInv, PlacesInv
  <2>. QED
    BY <2>1, <2>2
<1>4. Len(file') \in Nat
  BY <1>3
<1>5. TypeOK'
  BY <1>1, <1>3 DEF IInv, TypeOK
<1>6. PlacesInv' /\ ReadInv' /\ KeptInv'
  BY <1>1, <1>2, <1>3, <1>4 DEF PlacesInv, ReadInv, KeptInv
<1>7. edits = 0 => Untouched'
  <2> SUFFICES ASSUME edits = 0, NEW m \in 1..Len(file'), file'[m].whole
               PROVE  file'[m] = LineOf(m - 1, evaluations'[m])
    BY DEF Untouched
  <2>1. m \in 1..Len(file) /\ file'[m] = file[m]
    BY <1>2, <1>3, <1>4
  <2>2. file[m].whole => file[m] = LineOf(m - 1, evaluations[m])
    BY <2>1 DEF IInv, SavedInv, Untouched
  <2>. QED
    BY <2>1, <2>2, <1>1
<1>8. SavedInv'
  BY <1>1, <1>7 DEF SavedInv
<1>. QED
  BY <1>5, <1>6, <1>8 DEF IInv

(* A human's edit: the lines stay lines and none is added.                 *)
LEMMA EditIInv ==
  ASSUME IInv, ListInv', NEW new \in Seq(Line), Len(new) <= Len(file), Edit(new)
  PROVE  IInv'
<1>1. /\ pc = "idle" /\ exists /\ edits < MaxEdits /\ edits' = edits + 1
      /\ file' = new
      /\ UNCHANGED <<evaluations, exists, i, pos, pc, outcome, runs>>
  BY DEF Edit
<1>2. edits' \in 0..MaxEdits /\ edits' # 0
  BY <1>1, AnnotationsAssumption DEF IInv, TypeOK
<1>3. TypeOK'
  BY <1>1, <1>2 DEF IInv, TypeOK
<1>4. Len(new) <= Len(evaluations)
  <2>1. Len(new) \in Nat /\ Len(file) \in Nat /\ Len(evaluations) \in Nat
    BY Lists DEF IInv
  <2>. QED
    BY <2>1 DEF IInv, PlacesInv
<1>5. PlacesInv' /\ ReadInv' /\ SavedInv' /\ KeptInv'
  BY <1>1, <1>2, <1>4 DEF IInv, PlacesInv, ReadInv, SavedInv, KeptInv
<1>. QED
  BY <1>3, <1>5 DEF IInv

LEMMA AnnotateIInv == IInv /\ ListInv' /\ Annotate => IInv'
<1> SUFFICES ASSUME IInv, ListInv', Annotate PROVE IInv'
  OBVIOUS
<1>1. /\ file \in Seq(Line) /\ Len(file) \in Nat /\ DOMAIN file = 1..Len(file)
      /\ \A n \in 1..Len(file) : file[n] \in Line
  BY Lists DEF IInv, TypeOK
<1>2. PICK n \in 1..Len(file) :
        Correct(n) \/ SetIgnore(n) \/ Renumber(n) \/ DeleteLine(n)
  BY <1>1 DEF Annotate
<1>3. ASSUME NEW changed \in Line, Edit([file EXCEPT ![n] = changed]) PROVE IInv'
  <2>1. /\ [file EXCEPT ![n] = changed] \in Seq(Line)
        /\ Len([file EXCEPT ![n] = changed]) = Len(file)
    BY <1>1, <1>2, <1>3, ExceptSeq
  <2> DEFINE new == [file EXCEPT ![n] = changed]
  <2>2. new \in Seq(Line) /\ Len(new) <= Len(file) /\ Edit(new)
    BY <2>1, <1>1, <1>3
  <2> HIDE DEF new
  <2>. QED
    BY <2>2, EditIInv
<1>4. CASE Correct(n)
  <2>1. PICK value \in ValueStrings \ {"UN"} : Edit([file EXCEPT ![n].value = value])
    BY <1>4 DEF Correct
  <2>2. [file[n] EXCEPT !.value = value] \in Line
    BY <1>1, <1>2 DEF Line
  <2>. QED
    BY <2>1, <2>2, <1>3
<1>5. CASE SetIgnore(n)
  <2>1. [file[n] EXCEPT !.ignore = TRUE] \in Line
    BY <1>1, <1>2 DEF Line
  <2>2. Edit([file EXCEPT ![n].ignore = TRUE])
    BY <1>5 DEF SetIgnore
  <2>. QED
    BY <2>1, <2>2, <1>3
<1>6. CASE Renumber(n)
  <2>1. PICK index \in 0..MaxEvaluations : Edit([file EXCEPT ![n].index = index])
    BY <1>6 DEF Renumber
  <2>2. [file[n] EXCEPT !.index = index] \in Line
    BY <1>1, <1>2 DEF Line
  <2>. QED
    BY <2>1, <2>2, <1>3
<1>7. CASE DeleteLine(n)
  <2> DEFINE start == SubSeq(file, 1, n - 1)
             rest == SubSeq(file, n + 1, Len(file))
  <2>1. n - 1 \in Nat /\ n + 1 \in Nat /\ n <= Len(file)
    BY <1>1, <1>2
  <2>2. \A m \in 1..(n - 1) : file[m] \in Line
    BY <1>1, <2>1
  <2>3. /\ start \in Seq(Line)
        /\ Len(start) = IF 1 <= n - 1 THEN n - 1 - 1 + 1 ELSE 0
    BY <2>1, <2>2, SubSeqProperties
  <2>4. \A m \in (n + 1)..Len(file) : file[m] \in Line
    BY <1>1, <2>1
  <2>5. /\ rest \in Seq(Line)
        /\ Len(rest) = IF n + 1 <= Len(file) THEN Len(file) - (n + 1) + 1 ELSE 0
    BY <1>1, <2>1, <2>4, SubSeqProperties
  <2>6. Edit(start \o rest)
    BY <1>7 DEF DeleteLine
  <2> HIDE DEF start, rest
  <2>7. start \o rest \in Seq(Line) /\ Len(start \o rest) = Len(start) + Len(rest)
    BY <2>3, <2>5, ConcatProperties
  <2>8. Len(start \o rest) <= Len(file)
    <3>1. /\ Len(start) = IF 1 <= n - 1 THEN n - 1 - 1 + 1 ELSE 0
          /\ Len(rest) = IF n + 1 <= Len(file) THEN Len(file) - (n + 1) + 1 ELSE 0
          /\ Len(start \o rest) = Len(start) + Len(rest)
      BY <2>3, <2>5, <2>7
    <3>2. Len(file) \in Nat /\ n \in 1..Len(file)
      BY <1>1
    <3>3. \A k, m \in Nat : 1 <= m /\ m <= k =>
            (IF 1 <= m - 1 THEN m - 1 - 1 + 1 ELSE 0)
              + (IF m + 1 <= k THEN k - (m + 1) + 1 ELSE 0) <= k
      OBVIOUS
    <3>4. n \in Nat /\ 1 <= n /\ n <= Len(file)
      BY <3>2
    <3> DEFINE a == Len(start)
               b == Len(rest)
               c == Len(start \o rest)
               k == Len(file)
    <3>5. /\ a = IF 1 <= n - 1 THEN n - 1 - 1 + 1 ELSE 0
          /\ b = IF n + 1 <= k THEN k - (n + 1) + 1 ELSE 0
          /\ c = a + b /\ k \in Nat /\ n \in Nat /\ 1 <= n /\ n <= k
      BY <3>1, <3>2, <3>4
    <3> HIDE DEF a, b, c, k
    <3>6. c <= k
      BY <3>3, <3>5
    <3>. QED
      BY <3>6 DEF c, k
  <2> DEFINE new == start \o rest
  <2>9. new \in Seq(Line) /\ Len(new) <= Len(file) /\ Edit(new)
    BY <2>6, <2>7, <2>8
  <2> HIDE DEF new
  <2>. QED
    BY <2>9, EditIInv
<1>. QED
  BY <1>2, <1>4, <1>5, <1>6, <1>7

LEMMA StepIInv == IInv /\ [Next]_vars => IInv'
<1> SUFFICES ASSUME IInv, [Next]_vars PROVE IInv'
  OBVIOUS
<1>l. ListInv'
  BY ListStays DEF IInv
<1>1. CASE MergeEvaluations
  BY <1>l, <1>1, MergeIInv
<1>2. CASE LoadedAll
  BY <1>l, <1>2, LoadedAllIInv
<1>3. CASE EndOfFile
  <2>1. /\ pc = "load" /\ i < Len(evaluations) /\ LoadFails
        /\ pos < Len(file) => ~Parses(file[pos + 1])
    BY <1>3 DEF EndOfFile
  <2>. QED
    BY <2>1, <1>l, LoadFailsIInv
<1>4. CASE LoadLine
  BY <1>l, <1>4, LoadLineIInv
<1>5. CASE Truncate \/ SavedAll
  BY <1>l, <1>5, SaveStepsIInv
<1>6. CASE SaveLine
  BY <1>l, <1>6, SaveLineIInv
<1>7. CASE Count
  BY <1>l, <1>7, CountIInv
<1>8. CASE Kill
  BY <1>l, <1>8, KillIInv
<1>9. CASE Annotate
  BY <1>l, <1>9, AnnotateIInv
<1>10. CASE UNCHANGED vars
  BY <1>10 DEF vars, IInv, TypeOK, ListInv, PlacesInv, ReadInv, SavedInv, Untouched,
               KeptInv, Consistent
<1>. QED
  BY <1>1, <1>2, <1>3, <1>4, <1>5, <1>6, <1>7, <1>8, <1>9, <1>10 DEF Next, Step

LEMMA AlwaysIInv == Spec => []IInv
BY InitIInv, StepIInv, PTL DEF Spec

(* The file, the list and both places in them keep their types.            *)
THEOREM AnnotationsTypeOK == Spec => []TypeOK
<1>1. IInv => TypeOK
  BY DEF IInv
<1>. QED
  BY <1>1, AlwaysIInv, PTL

(* Whenever a run was killed, also while it saved and at any byte of any   *)
(* line: the next run that gets to count has the complete file of all      *)
(* evaluations on disk, unless a human changed it.  An unfinished file is  *)
(* never taken for an annotated one.                                       *)
THEOREM SaveRepaired == Spec => []KilledSaveRepaired
<1>1. ASSUME IInv PROVE KilledSaveRepaired
  <2> SUFFICES ASSUME pc = "count", edits = 0
               PROVE  file = [m \in 1..Len(evaluations) |-> LineOf(m - 1, evaluations[m])]
    BY DEF KilledSaveRepaired
  <2>1. /\ Len(file) = Len(evaluations)
        /\ \A n \in 1..Len(file) : file[n].whole /\ Untouched
    BY <1>1 DEF IInv, SavedInv
  <2>2. \A n \in 1..Len(file) : file[n] = LineOf(n - 1, evaluations[n])
    BY <2>1 DEF Untouched
  <2>3. file \in Seq(Line)
    BY <1>1 DEF IInv, TypeOK
  <2>4. file = [m \in 1..Len(file) |-> file[m]]
    BY <2>3
  <2>. QED
    BY <2>1, <2>2, <2>4
<1>. QED
  BY <1>1, AlwaysIInv, PTL

(* A human may have corrected, renumbered and deleted the lines of the     *)
(* file, and fscanf overwrites the loop index with what it reads: a file   *)
(* that is counted contradicts no evaluation as far as it was read, and it *)
(* was read until a line named the last evaluation or one past the end.    *)
THEOREM CountedAgrees == Spec => []CountedFileAgrees
<1>1. ASSUME IInv PROVE CountedFileAgrees
  <2>t. TypeOK
    BY <1>1 DEF IInv
  <2>1. ASSUME pc = "count", pos > 0
        PROVE  /\ \A n \in 1..pos :
                    file[n].index < Len(evaluations) =>
                      ~Differs(file[n], evaluations[file[n].index + 1])
               /\ file[pos].index >= Len(evaluations) - 1
    <3>1. file[pos].index \in Nat /\ Len(evaluations) \in Nat
      <4>1. pos \in 1..Len(file) /\ Len(evaluations) \in Nat /\ file \in Seq(Line)
        BY <2>1, <1>1, Lists DEF IInv, PlacesInv, TypeOK
      <4>2. file[pos] \in Line /\ MaxEvaluations \in Nat
        BY <4>1, <1>1, Lists DEF IInv
      <4>. QED
        BY <4>1, <4>2 DEF Line
    <3>2. i = file[pos].index + 1 /\ i >= Len(evaluations)
      BY <2>1, <1>1 DEF IInv, ReadInv
    <3>3. file[pos].index >= Len(evaluations) - 1
      BY <3>1, <3>2
    <3>. QED
      BY <2>1, <3>3, <1>1 DEF IInv, ReadInv
  <2>. QED
    BY <2>t, <2>1 DEF CountedFileAgrees, Differs
<1>. QED
  BY <1>1, AlwaysIInv, PTL

(* What a human flagged in a consistent file stays: no run overwrites the  *)
(* file, for every number of evaluations that its indexes can name, and    *)
(* wherever runs were killed before.                                       *)
THEOREM FlagsAreKept == Spec => ConsistentFileKept
<1>1. IInv /\ [Next]_vars =>
        [ (exists /\ pc # "save" /\ Consistent /\ Len(evaluations) <= IndexLimit)
            => (file' = file \/ edits' # edits) ]_vars
  <2> SUFFICES ASSUME IInv, Next, exists, pc # "save", Consistent,
                      Len(evaluations) <= IndexLimit
               PROVE  file' = file \/ edits' # edits
    BY DEF vars
  <2>1. ~Truncate /\ ~SaveLine
    BY DEF IInv, KeptInv, Truncate, SaveLine
  <2>2. ASSUME Annotate PROVE edits' # edits
    <3>1. edits \in Int
      BY AnnotationsAssumption DEF IInv, TypeOK
    <3>2. edits' = edits + 1
      BY <2>2 DEF Annotate, Correct, SetIgnore, Renumber, DeleteLine, Edit
    <3>. QED
      BY <3>1, <3>2
  <2>3. ASSUME \/ MergeEvaluations \/ LoadedAll \/ EndOfFile \/ LoadLine
               \/ SavedAll \/ Count \/ Kill
        PROVE  file' = file
    BY <2>3 DEF MergeEvaluations, LoadedAll, EndOfFile, LoadFails, LoadLine, SavedAll,
                Count, Kill
  <2>. QED
    BY <2>1, <2>2, <2>3 DEF Next, Step
<1>. QED
  BY <1>1, AlwaysIInv, PTL DEF Spec, ConsistentFileKept
-----------------------------------------------------------------------------
(* How much a run has left to do: a line to read or to write is a step.    *)
StepsLeft ==
  CASE pc = "load"     -> Len(evaluations) + 4 + (Len(file) - pos)
    [] pc = "truncate" -> Len(evaluations) + 3
    [] pc = "save"     -> 2 + (Len(evaluations) - i)
    [] pc = "count"    -> 1
    [] OTHER           -> 0

(* Though fscanf sets the loop index to whatever the file holds, so that a *)
(* file can send LoadEvaluations back to its first evaluation again and    *)
(* again, each step of a run leaves it less to do: lines that are read are *)
(* behind it for good.                                                     *)
RunGetsOn ==
  [][pc # "idle" => StepsLeft' < StepsLeft /\ {StepsLeft, StepsLeft'} \subseteq Nat]_vars

LEMMA StepsLeftIsNat ==
  ASSUME IInv
  PROVE  StepsLeft \in Nat
<1>1. /\ Len(file) \in Nat /\ Len(evaluations) \in Nat /\ i \in Nat /\ pos \in Nat
  BY Lists DEF IInv
<1>. QED
  BY <1>1 DEF IInv, PlacesInv, StepsLeft

(* A run ends after at most one step for each line of the file and of the  *)
(* list and five more, whatever a human wrote into the file.               *)
THEOREM RunsGetOn == Spec => RunGetsOn
<1>1. IInv /\ [Next]_vars => [pc # "idle" => StepsLeft' < StepsLeft]_vars
  <2> SUFFICES ASSUME IInv, Next, pc # "idle" PROVE StepsLeft' < StepsLeft
    OBVIOUS
  <2>n. /\ Len(file) \in Nat /\ Len(evaluations) \in Nat /\ i \in Nat /\ pos \in Nat
        /\ StepsLeft \in Nat
        /\ pc = "load" => pos <= Len(file)
        /\ pc = "save" => i <= Len(evaluations)
    BY Lists, StepsLeftIsNat DEF IInv, PlacesInv
  <2>1. CASE LoadedAll
    BY <2>1, <2>n DEF LoadedAll, StepsLeft
  <2>2. CASE EndOfFile
    BY <2>2, <2>n DEF EndOfFile, LoadFails, StepsLeft
  <2>3. CASE LoadLine
    <3>1. CASE LoadFails
      BY <2>3, <3>1, <2>n DEF LoadLine, LoadFails, StepsLeft
    <3>2. CASE UNCHANGED <<evaluations, file, pc>> /\ pos' = pos + 1
      <4>1. Len(file') = Len(file) /\ Len(evaluations') = Len(evaluations) /\ pc' = "load"
        BY <2>3, <3>2 DEF LoadLine
      <4>. QED
        BY <2>3, <3>2, <4>1, <2>n DEF LoadLine, StepsLeft
    <3>. QED
      BY <2>3, <3>1, <3>2 DEF LoadLine, LineRead
  <2>4. CASE Truncate
    BY <2>4, <2>n DEF Truncate, StepsLeft
  <2>5. CASE SaveLine
    BY <2>5, <2>n DEF SaveLine, StepsLeft
  <2>6. CASE SavedAll
    BY <2>6, <2>n DEF SavedAll, StepsLeft
  <2>7. CASE Count
    BY <2>7, <2>n DEF Count, StepsLeft
  <2>8. CASE Kill
    <3>1. StepsLeft' = 0
      BY <2>8 DEF Kill, StepsLeft
    <3>2. StepsLeft >= 1
      BY <2>8, <2>n DEF IInv, TypeOK, StepsLeft
    <3>. QED
      BY <3>1, <3>2, <2>n
  <2>9. CASE MergeEvaluations \/ Annotate
    BY <2>9 DEF MergeEvaluations, Annotate, Correct, SetIgnore, Renumber, DeleteLine, Edit
  <2>. QED
    BY <2>1, <2>2, <2>3, <2>4, <2>5, <2>6, <2>7, <2>8, <2>9 DEF Next, Step
<1>2. IInv => StepsLeft \in Nat
  BY StepsLeftIsNat
<1>3. [pc # "idle" => StepsLeft' < StepsLeft]_vars
        /\ StepsLeft \in Nat /\ (StepsLeft \in Nat)' =>
        [pc # "idle" => StepsLeft' < StepsLeft
                        /\ {StepsLeft, StepsLeft'} \subseteq Nat]_vars
  OBVIOUS
<1>. QED
  BY <1>1, <1>2, <1>3, AlwaysIInv, PTL DEF Spec, RunGetsOn
=============================================================================
