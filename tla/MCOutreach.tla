----------------------------- MODULE MCOutreach -----------------------------
(* Instances of Outreach for TLC: the constants a .cfg cannot write. *)
EXTENDS Outreach, TLC

CONSTANTS l1, l2, s1, s2, m1, m2

OneRow       == m1 :> <<l1, s1>>
TwoLeads     == m1 :> <<l1, s1>> @@ m2 :> <<l2, s1>>
TwoSequences == m1 :> <<l1, s1>> @@ m2 :> <<l1, s2>>

(* Overlapping invocations of one worker are interchangeable. *)
Interchangeable == Permutations(Ticks) \cup Permutations(Handlers)
=============================================================================
