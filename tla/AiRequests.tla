------------------------------ MODULE AiRequests ------------------------------
(***************************************************************************)
(* What calls Gemini, and what becomes of a call that is refused, by the   *)
(* budget or by Google (429), or that fails: the endpoints behind the      *)
(* agentic router, and the calls made while a lead is audited, hunted and  *)
(* enriched or a CSV file is mapped.  A request is named by its call: it   *)
(* makes one call at a time.                                               *)
(***************************************************************************)
EXTENDS GeminiBudget

CONSTANTS
  Kinds,      \* what each call may be made for
  MaxDrafts   \* leads of a campaign strategy, 5 in the code

VARIABLE request

vars == <<budgetVars, request>>

(* What calls are made for.  A handler of a kind in Reporting answers with *)
(* the outcome of its call.  One of a kind in Silent answers that a lead   *)
(* or a file was worked on, whatever came of the call: a step of a job, an *)
(* upload, and also an audit, a hunt or an enrichment of one lead that the *)
(* operator asks for through /execute.                                     *)
Reporting == {"ask", "insights", "draft", "linkedin", "strategy"}
Silent == {"audit", "hunt", "enrichment", "upload"}

Sites == {"route", "query", "insights", "draft", "linkedin",
          "pain_points", "hooks", "business", "deep", "mapping"}

(* "saved" stands for the end of the work on a lead or a file: the row is  *)
(* written, and /execute answers that the task is completed.               *)
Answers == {"503", "text", "plan", "error", "saved"}

ASSUME RequestsAssumption ==
  /\ Kinds \in [Calls -> SUBSET (Reporting \cup Silent)] /\ MaxDrafts \in Nat \ {0}
  /\ NULL \notin Answers \cup Reporting \cup Silent

(* pain is what the lead's pain_points hold: nothing, a text, or the       *)
(* placeholder of a call that failed.                                      *)
Pains == {"none", "text", "placeholder"}

RequestState ==
  [kind : Reporting \cup Silent \cup {NULL}, at : Sites \cup {"idle", "done"}, drafts : 0..MaxDrafts,
   pain : Pains, refused : BOOLEAN,
   answer : Answers \cup {NULL}]

(* In the code 2048 or 4096 tokens of output, and a quarter of the prompt. *)
Estimate(site) == [in |-> 1, out |-> IF site \in {"draft", "linkedin", "pain_points"} THEN 2 ELSE 1]

Outcome(c, pcs) == call[c].pc \in pcs
Refused(c) == Outcome(c, {"denied", "quota"})
Failed(c) == Outcome(c, {"denied", "quota", "raised"})
Ended(c) == Outcome(c, {"returned", "denied", "quota", "raised"})
-----------------------------------------------------------------------------
GoTo(c, site, pain) ==
  /\ request' = [request EXCEPT ![c].at = site, ![c].pain = pain, ![c].refused = @ \/ Refused(c)]
  /\ Guard(c, Estimate(site))

End(c, answer) ==
  /\ request' = [request EXCEPT ![c].at = "done", ![c].answer = answer, ![c].pain = "none",
                                ![c].drafts = 0, ![c].refused = @ \/ Refused(c)]
  /\ call' = [call EXCEPT ![c] = Idle]
  /\ UNCHANGED <<today, usage, holder, overrun, spent, killed>>

At(c, site) == request[c].at = site /\ Ended(c)

(* The site a request begins with; a strategy begins with its first draft. *)
First == [ask |-> "route", insights |-> "insights", draft |-> "draft", linkedin |-> "linkedin",
          strategy |-> "draft", audit |-> "pain_points", hunt |-> "business",
          enrichment |-> "deep", upload |-> "mapping"]

Begin(c) ==
  /\ request[c].at = "idle"
  /\ \E kind \in Kinds[c], drafts \in 1..MaxDrafts, pain \in Pains :
       /\ kind # "strategy" => drafts = 1
       /\ kind # "enrichment" => pain = "none"
       /\ request' = [request EXCEPT ![c].kind = kind, ![c].at = First[kind],
                                     ![c].drafts = drafts, ![c].pain = pain]
       /\ Guard(c, Estimate(First[kind]))
-----------------------------------------------------------------------------
(* The router.  Refusals are raised again, up to the handlers that answer  *)
(* 503; every other exception becomes an error or an empty answer.         *)

(* Mutant: a catch-all that takes the refusals too. *)
RouteInstructionCatchAll(c) ==
  /\ At(c, "route")
  /\ IF Failed(c) THEN End(c, "plan")
     ELSE \/ \E site \in {"query", "insights"} : GoTo(c, site, request[c].pain)
          \/ End(c, "text") \/ End(c, "plan")

(* A routing that failed is a plan named ERROR.  Only two of the tasks     *)
(* that /ask executes at once make a call; others are put to the operator. *)
RouteInstruction(c) ==
  /\ At(c, "route")
  /\ IF Refused(c) THEN End(c, "503")
     ELSE IF Failed(c) THEN End(c, "plan")
     ELSE \/ \E site \in {"query", "insights"} : GoTo(c, site, request[c].pain)
          \/ End(c, "text") \/ End(c, "plan")

ExecuteDatabaseQuery(c) ==
  At(c, "query") /\ End(c, IF Refused(c) THEN "503" ELSE "text")

GetStrategicInsights(c) ==
  At(c, "insights") /\ End(c, IF Refused(c) THEN "503" ELSE "text")

GenerateOutreachDraft(c) ==
  /\ At(c, "draft") /\ request[c].kind = "draft"
  /\ End(c, IF Refused(c) THEN "503" ELSE IF Failed(c) THEN "error" ELSE "text")

GenerateLinkedinDraft(c) ==
  /\ At(c, "linkedin")
  /\ End(c, IF Refused(c) THEN "503" ELSE IF Failed(c) THEN "error" ELSE "text")

(* The refusal that _generate_outreach_draft raises again is caught here:  *)
(* the drafts already paid for are dropped.                                *)
GenerateCampaignStrategy(c) ==
  /\ At(c, "draft") /\ request[c].kind = "strategy"
  /\ IF Refused(c) THEN End(c, "error")
     ELSE IF request[c].drafts = 1 THEN End(c, "text")
     ELSE /\ request' = [request EXCEPT ![c].drafts = @ - 1]
          /\ Guard(c, Estimate("draft"))
-----------------------------------------------------------------------------
(* The work on a lead and on a file, where no exception leaves a call.     *)

(* audit_single_lead asks for hooks whatever came of the pain points. *)
AnalyzePainPoints(c) ==
  At(c, "pain_points") /\ GoTo(c, "hooks", IF Failed(c) THEN "placeholder" ELSE "text")

GenerateOutreachHooks(c) == At(c, "hooks") /\ End(c, "saved")

EnrichBusinessData(c) == At(c, "business") /\ End(c, "saved")

(* A DEEP_ENRICHMENT asks for hooks, unless its row has no pain points but *)
(* those that could not be analysed; a job does not.                       *)
DeepEnrichment(c, pain) ==
  \/ End(c, "saved")
  \/ pain = "text" /\ GoTo(c, "hooks", pain)

(* enrich_lead: the lead is COMPLETED with what the parse returned, if     *)
(* anything.                                                               *)
DeepAiParse(c) ==
  /\ At(c, "deep")
  /\ \E pain \in {request[c].pain} \cup (IF Failed(c) THEN {} ELSE {"text"}) : DeepEnrichment(c, pain)

GetColumnMapping(c) == At(c, "mapping") /\ End(c, "saved")

Step(c) ==
  \/ RouteInstruction(c) \/ ExecuteDatabaseQuery(c) \/ GetStrategicInsights(c)
  \/ GenerateOutreachDraft(c) \/ GenerateLinkedinDraft(c) \/ GenerateCampaignStrategy(c)
  \/ AnalyzePainPoints(c) \/ GenerateOutreachHooks(c) \/ EnrichBusinessData(c)
  \/ DeepAiParse(c) \/ GetColumnMapping(c)

Init ==
  /\ BudgetInit
  /\ request = [c \in Calls |-> [kind |-> NULL, at |-> "idle", drafts |-> 0, pain |-> "none",
                                 refused |-> FALSE, answer |-> NULL]]

(* The requests of a process that dies die with it. *)
Die(lock) ==
  /\ Kill(lock)
  /\ request' = [c \in Calls |->
       IF LockOf[c] = lock /\ request[c].at # "idle"
       THEN [request[c] EXCEPT !.at = "done", !.pain = "none", !.drafts = 0] ELSE request[c]]

Next ==
  \/ \E c \in Calls : Begin(c) \/ Step(c) \/ (Call(c) /\ UNCHANGED request)
  \/ Midnight /\ UNCHANGED request
  \/ \E lock \in Locks : Die(lock)

Spec == Init /\ [][Next]_vars

(* Fairness.  A call ends, within the client's timeouts, and the code that *)
(* awaits it goes on; requests, midnights and deaths need not happen.      *)
Fairness ==
  /\ \A c \in Calls : WF_vars(Step(c))
  /\ \A c \in Calls : SF_vars(Call(c) /\ UNCHANGED request)

FairSpec == Spec /\ Fairness
-----------------------------------------------------------------------------
TypeOK == BudgetTypeOK /\ request \in [Calls -> RequestState]

(* What becomes of a refusal.  Where the handler reports on its call, the  *)
(* endpoint answers 503, and only then, or, for a strategy, whose catch-   *)
(* all takes the refusal of any of its drafts, an error.  Where it does    *)
(* not, the work is reported as done.                                      *)
RefusalIsReported ==
  \A c \in Calls :
    request[c].kind \in Reporting /\ request[c].answer # NULL =>
      (request[c].refused <=>
         request[c].answer = IF request[c].kind = "strategy" THEN "error" ELSE "503")

(* What gemini_call.py says of every call: its refusal becomes a 503.      *)
(* Strategies violate it, and every kind in Silent: no run checks it.      *)
RefusalsAnswered503 ==
  \A c \in Calls :
    request[c].refused /\ request[c].answer # NULL => request[c].answer = "503"

(* Every request ends, however many wait for the lock. *)
RequestsEnd == \A c \in Calls : request[c].at # "idle" ~> request[c].at = "done"

(* The counter implements the daily ceiling. *)
Daily == INSTANCE DailyCeiling WITH
  admitted <- [d \in Days |-> Total(usage[d]) - overrun[d]]

DailySpec == Daily!Spec
=============================================================================
