--------------------------- MODULE MCVersionedDb ---------------------------
(* Instances of VersionedDb for TLC: keys k1 and k2 share a bucket.        *)
EXTENDS VersionedDb

CONSTANTS p1, p2, k1, k2

TwoWriters == {p1, p2}
Keys == {k1, k2}
SameBucket == [k \in Keys |-> 1]
=============================================================================
