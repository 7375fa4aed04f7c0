------------------------------ MODULE MCDbDiff ------------------------------
(* Instances of DbDiff for TLC: two keys in one bucket.                    *)
EXTENDS DbDiff

CONSTANTS k1, k2

TwoKeys == {k1, k2}
OneBucket == [k \in TwoKeys |-> 1]

Plain == [mtime |-> 1, checksum |-> 1, size_bytes |-> 1, type |-> "file", inode |-> 1]
(* An entry, and one that became a link in its place.                      *)
Files == {Plain, [Plain EXCEPT !.type = "symlink", !.inode = 2]}

Process == [comm |-> "sh", cmdline |-> "sh -c", rss |-> 300, ppid |-> 1]
(* In pages: beyond the threshold of the code, and just at it.             *)
Processes == {[Process EXCEPT !.rss = @ + n] : n \in {0, 1024 * 1024 + 1}}
AtThreshold == {[Process EXCEPT !.rss = @ + n] : n \in {0, 1024 * 1024}}
=============================================================================
