----------------------------- MODULE MCJobQueue -----------------------------
(* Instances of JobQueue for TLC. *)
EXTENDS JobQueue

CONSTANTS w1, w2, d1, d2, d3, d4, d5

TwoWorkers == {w1, w2}
ThreeJobs == {d1, d2, d3}
FiveJobs == {d1, d2, d3, d4, d5}
=============================================================================
