--------------------------- MODULE MCRefereeLog ---------------------------
(***************************************************************************)
(* A small instance of RefereeLog in two sizes at once: one referee with a *)
(* long log, for every loss, repetition and reordering of its packets; and *)
(* three referees, two of whose ports have the same low bits, that issue   *)
(* only goals, with a short log, for every order of allocating slots.      *)
(***************************************************************************)
EXTENDS RefereeLog

TwoGroups == {"referee", "other"}

OneReferee ==
  /\ \A p \in Ports \ {RefboxPort} : issued[p] = <<>>
  /\ \A n \in DOMAIN log : log[n].address = "referee" /\ log[n].port = RefboxPort

ThreeReferees ==
  /\ Len(log) <= 3
  /\ \A p \in Ports :
       /\ Len(issued[p]) <= 2
       /\ \A n \in DOMAIN issued[p] :
            issued[p][n].command = "GOAL_BLUE" /\ issued[p][n].command_timestamp = 1

(* Bound: the states that TLC goes on from.                                *)
Small == OneReferee \/ ThreeReferees
=============================================================================
