------------------------- MODULE MCRetentionSweeper -------------------------
(* Two documents and two sessions; loops that follow one another.          *)
EXTENDS RetentionSweeper
=============================================================================
