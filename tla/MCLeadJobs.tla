---------------------------- MODULE MCLeadJobs ----------------------------
(* Instances of LeadJobs for TLC: the constants a .cfg cannot write. *)
EXTENDS LeadJobs, TLC

CONSTANTS l1, l2

Ask(ids, tasks) == [ids |-> ids, tasks |-> tasks]

(* /process-all, /audit-batch and /hunt-all; SEO_AUDIT and RUN_MASSIVE_PIPELINE. *)
Overlapping ==
  [app |-> {Ask(<<>>, {"audit"}), Ask(<<l2, l1>>, {"audit"})}, execute |-> {Ask(<<>>, {"audit"})}]

Sweeps ==
  [app |-> {Ask(<<>>, {"hunt"}), Ask(<<l2, l1>>, {"audit"})}, execute |-> {Ask(<<>>, {"audit", "enrich"})}]

Answers == {{}, {l1}}

============================================================================
