---------------------------- MODULE MCInventory ----------------------------
(* Instances of Inventory for TLC: a small tree and one or two workers.    *)
EXTENDS Inventory

CONSTANTS w1, w2, top, sub, leaf, side, f1, f2, f3

OneWorker == {w1}
TwoWorkers == {w1, w2}
Dirs == {top, sub, leaf}
Files == {f1, f2, f3}
(* top holds a file and sub, sub a file and leaf, leaf a file.             *)
Chain == [d \in Dirs |-> CASE d = top -> {f1, sub}
                           [] d = sub -> {f2, leaf}
                           [] d = leaf -> {f3}]
(* A file at the bottom only, two levels below an overlooked directory.    *)
Deep == [d \in Dirs |-> CASE d = top -> {sub}
                          [] d = sub -> {leaf}
                          [] d = leaf -> {f1}]
(* top holds both subdirectories, so two can be queued at once.            *)
Fork == [d \in Dirs |-> CASE d = top -> {sub, leaf}
                          [] d = sub -> {f1, f2}
                          [] d = leaf -> {f3}]

(* top holds more directories than a queue of two has slots.               *)
WideDirs == Dirs \cup {side}
Wide == [d \in WideDirs |-> CASE d = top -> {sub, leaf, side}
                              [] d = sub -> {f1}
                              [] d = leaf -> {f2}
                              [] d = side -> {f3}]
=============================================================================
