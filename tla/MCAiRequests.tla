---------------------------- MODULE MCAiRequests ----------------------------
(* Instances of AiRequests for TLC: the constants a .cfg cannot write. *)
EXTENDS AiRequests, TLC

CONSTANTS c1, c2, c3, server, script

OneServer == [c \in Calls |-> server]
ServerAndScript == [c \in Calls |-> IF c = c1 THEN server ELSE script]

(* Every kind of request, and the longest of them against each other. *)
EveryKind == [c \in Calls |->
  IF c = c1 THEN {"ask", "strategy", "hunt", "upload"}
  ELSE {"insights", "draft", "linkedin", "audit", "enrichment"}]

============================================================================
