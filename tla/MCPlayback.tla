---------------------------- MODULE MCPlayback ----------------------------
(* Small instances of Playback: records with every order of the stamps.    *)
EXTENDS Playback

CONSTANT Stamps

MCRecords == [timestamp: Stamps]
MCClockSteps == {-2, 2}
=============================================================================
