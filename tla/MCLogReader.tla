---------------------------- MODULE MCLogReader ----------------------------
(* An instance of LogReader for TLC: four lines, the second and the third of *)
(* the same time.                                                            *)
EXTENDS LogReader

MCStamp == <<1, 2, 2, 3>>
=============================================================================
