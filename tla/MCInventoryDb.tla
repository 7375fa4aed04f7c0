--------------------------- MODULE MCInventoryDb ---------------------------
(* Instances of InventoryDb: records of two and of three units.            *)
EXTENDS InventoryDb

CONSTANTS r1, r2, r3

Results == {r1, r2, r3}
Sizes == [r \in Results \cup {Past} |-> IF r = r2 THEN 3 ELSE 2]
=============================================================================
