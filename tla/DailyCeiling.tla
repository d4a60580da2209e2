----------------------------- MODULE DailyCeiling -----------------------------
(***************************************************************************)
(* What the daily Gemini budget promises: tokens are admitted for a day    *)
(* only while they fit under the ceiling with all that was counted before, *)
(* and what is counted afterwards, when a call turns out longer than its   *)
(* estimate, is only ever added.                                           *)
(***************************************************************************)
EXTENDS Naturals

CONSTANTS Days, Ceiling   \* a number of tokens

VARIABLES
  admitted,   \* tokens admitted, by day
  overrun     \* tokens counted beyond what was admitted, by day

Init == admitted = [d \in Days |-> 0] /\ overrun = [d \in Days |-> 0]

(* The counts change on one day, where there is more than before. *)
Adds(d, counts, after) == after[d] > counts[d] /\ after = [counts EXCEPT ![d] = after[d]]

Admit(d) ==
  /\ Adds(d, admitted, admitted')
  /\ admitted'[d] + overrun[d] <= Ceiling
  /\ UNCHANGED overrun

Overrun(d) == Adds(d, overrun, overrun') /\ UNCHANGED admitted

Next == \E d \in Days : Admit(d) \/ Overrun(d)

Spec == Init /\ [][Next]_<<admitted, overrun>>
=============================================================================
