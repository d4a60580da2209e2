---------------------------- MODULE MCConsole ----------------------------
(* Instances of Console for TLC: the constants a .cfg cannot write. *)
EXTENDS Console, TLC

CONSTANTS r1, r2, w1

(* A file of leads with the same created_at, and one more lead. *)
Files == {{1, 2, 3}, {2}}

(* What a worker asks for: the lead that the files can bring back. *)
Asked == {{2}}
============================================================================
