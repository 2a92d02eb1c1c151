------------------------------- MODULE Arrays -------------------------------
(***************************************************************************)
(* The array functions of util.h, used by a caller that keeps a list in an *)
(* array it grows and shrinks, and a table in a second array.  An array is *)
(* a sequence (element i of the code is element i + 1), NULL is NULL.      *)
(* new does not return NULL: it throws, and the program ends.              *)
(***************************************************************************)
EXTENDS Integers, Sequences

CONSTANTS
  Values,
  Junk,      (* an element of a new array that was not set                 *)
  NULL,
  MaxSize    (* bound on every size, width and height                      *)

ASSUME ArraysAssumption ==
  /\ MaxSize \in Nat /\ Junk \notin Values
  /\ NULL \notin Seq(Values \cup {Junk})

VARIABLES
  arr, size,     (* the list's array and its size variable                 *)
  items,         (* what the caller put into it                            *)
  table, w, h,   (* the table's array and its two variables                *)
  asked          (* the width and height last asked for                    *)

list == <<arr, size, items>>
grid == <<table, w, h, asked>>
arrays == <<arr, size, items, table, w, h, asked>>

Used == Len(items)
New(n) == [i \in 1..n |-> Junk]

(* The early return of the three allocating functions.                     *)
Returns(array, old_size, new_size) ==
  \/ array # NULL /\ new_size = old_size
  \/ array = NULL /\ new_size = 0

InitArrays ==
  /\ arr = NULL /\ size = 0 /\ items = <<>>
  /\ table = NULL /\ w = 0 /\ h = 0 /\ asked = <<0, 0>>
-----------------------------------------------------------------------------
(* arr = alloc_array(arr, size, n): the elements are lost, unless the size *)
(* is the same: then all are left as they were.  The caller starts afresh. *)
alloc_array(n) ==
  /\ \/ /\ Returns(arr, size, n)
        /\ UNCHANGED <<arr, size>>
     \/ /\ ~Returns(arr, size, n)
        /\ arr' = New(n) /\ size' = n
  /\ items' = <<>>
  /\ UNCHANGED grid

(* mcopy(dest, src, num).                                                  *)
mcopy(dest, src, num) == SubSeq(src, 1, num) \o SubSeq(dest, num + 1, Len(dest))

(* arr = resize_array(arr, size, n, used).  It copies cur_used elements    *)
(* also if the new array has less: the caller must not ask for that.       *)
resize_array(n) ==
  /\ Used <= n
  /\ \/ /\ Returns(arr, size, n)
        /\ UNCHANGED <<arr, size>>
     \/ /\ ~Returns(arr, size, n)
        /\ arr' = IF arr = NULL THEN New(n) ELSE mcopy(New(n), arr, Used)
        /\ size' = n
  /\ UNCHANGED <<grid, items>>

free_array ==
  /\ arr' = NULL /\ size' = 0
  /\ items' = <<>>
  /\ UNCHANGED grid

(* The caller's own steps: one more, and one less, element in use.         *)
Append1(v) ==
  /\ Used < size
  /\ arr' = [arr EXCEPT ![Used + 1] = v]
  /\ items' = Append(items, v)
  /\ UNCHANGED <<size, grid>>

DropLast ==
  /\ items # <<>>
  /\ items' = SubSeq(items, 1, Used - 1)
  /\ UNCHANGED <<arr, size, grid>>

(* set_range(arr, start, num, v), of elements in use.                      *)
set_range(start, num, v) ==
  /\ arr # NULL /\ start + num <= Used
  /\ arr' = [i \in 1..size |-> IF i - 1 \in start..(start + num - 1) THEN v ELSE arr[i]]
  /\ items' = SubSeq(items, 1, start) \o [i \in 1..num |-> v]
                \o SubSeq(items, start + num + 1, Used)
  /\ UNCHANGED <<size, grid>>

(* find_item(arr, num, key), as the code counts.                           *)
find_item(num, key) ==
  IF \E i \in 1..num : arr[i] = key
  THEN CHOOSE i \in 0..(num - 1) :
         arr[i + 1] = key /\ \A j \in 1..i : arr[j] # key
  ELSE num

(* Mutant of the next one: only the width is compared.                     *)
TableByWidth(new_w, new_h) ==
  /\ asked' = <<new_w, new_h>>
  /\ \/ /\ Returns(table, w, new_w)
        /\ UNCHANGED <<table, w, h>>
     \/ /\ ~Returns(table, w, new_w)
        /\ table' = New(new_w * new_h)
        /\ w' = new_w /\ h' = new_h
  /\ UNCHANGED list

(* table = alloc_array2(table, w, h, new_w, new_h): the early return looks *)
(* at the area and leaves the width and height of before.                  *)
alloc_array2(new_w, new_h) ==
  /\ asked' = <<new_w, new_h>>
  /\ \/ /\ Returns(table, w * h, new_w * new_h)
        /\ UNCHANGED <<table, w, h>>
     \/ /\ ~Returns(table, w * h, new_w * new_h)
        /\ table' = New(new_w * new_h)
        /\ w' = new_w /\ h' = new_h
  /\ UNCHANGED list

NextArrays ==
  \/ \E n \in 0..MaxSize : alloc_array(n) \/ resize_array(n)
  \/ free_array
  \/ \E v \in Values : Append1(v)
  \/ DropLast
  \/ \E start \in 0..MaxSize, num \in 1..MaxSize, v \in Values : set_range(start, num, v)
  \/ \E new_w \in 0..MaxSize, new_h \in 0..MaxSize : alloc_array2(new_w, new_h)

ArraysSpec == InitArrays /\ [][NextArrays]_arrays
-----------------------------------------------------------------------------
(* The size variables are the sizes of what new returned, so that no index *)
(* below size, or below w * h, is out of bounds, after any calls.  The     *)
(* table has the elements that were asked for last, though its width and   *)
(* height may be those of an earlier call.                                 *)
SizesFit ==
  /\ size = (IF arr = NULL THEN 0 ELSE Len(arr))
  /\ w * h = (IF table = NULL THEN 0 ELSE Len(table))
  /\ w * h = asked[1] * asked[2]

(* Growing, shrinking and filling keep what the caller put into the array, *)
(* and find_item finds the first of equal elements, or num if there is     *)
(* none.                                                                   *)
KeepsItems ==
  /\ SizesFit
  /\ \A i \in 1..Used : arr[i] = items[i]
  /\ \A v \in Values :
       LET i == find_item(Used, v)
       IN  /\ \A j \in 1..i : items[j] # v
           /\ i < Used => items[i + 1] = v
=============================================================================
