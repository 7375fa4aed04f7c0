--------------------------- MODULE MCControlPipe ---------------------------
(* Small instances of ControlPipe: messages of two and three units, reads  *)
(* of four, so that lines are split over reads in both ways.               *)
EXTENDS ControlPipe

Lengths == [t \in Type |-> IF t = "JOB_DONE" THEN 3 ELSE 2]
=============================================================================
