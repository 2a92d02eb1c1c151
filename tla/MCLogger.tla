------------------------------ MODULE MCLogger ------------------------------
(***************************************************************************)
(* Small instances of Logger: which streams there are and which addresses  *)
(* and ports they have.                                                    *)
(***************************************************************************)
EXTENDS Logger

Groups == {"vision", "referee", "remote"}

(* The default streams, each with a port of its own.                       *)
DefaultGroup == << "vision", "referee" >>
DefaultPort == << 10006, 10003 >>

(* Two readings may give the same time, and the clock may be set back.     *)
Steps == {-1, 0, 1}

=============================================================================
