------------------------------ MODULE LogFile ------------------------------
(***************************************************************************)
(* What a log file is to its readers while a logger may still write it: a  *)
(* sequence of whole records that only grows at its end, and behind them   *)
(* at most one record whose size is there and whose payload is not, or not *)
(* completely.  Logger implements it; Playback reads it.                   *)
(***************************************************************************)
EXTENDS Sequences

CONSTANT Records

VARIABLES
  records,  (* the whole records                                           *)
  half      (* the record that has only its size, or NoRecord              *)

logFile == <<records, half>>

NoRecord == [timestamp |-> 0]

InitLog ==
  /\ records = <<>>
  /\ half = NoRecord

WriteSize ==
  /\ half = NoRecord
  /\ half' \in Records
  /\ UNCHANGED records

WritePayload ==
  /\ half # NoRecord
  /\ records' = Append(records, half)
  /\ half' = NoRecord

NextLog == WriteSize \/ WritePayload

SpecLog == InitLog /\ [][NextLog]_logFile
=============================================================================
