--------------------------- MODULE MCAnnotations ---------------------------
(***************************************************************************)
(* Small instances of Annotations: four evaluations, two edits.           *)
(***************************************************************************)
EXTENDS Annotations
=============================================================================
