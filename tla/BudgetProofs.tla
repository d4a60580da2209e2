---------------------------- MODULE BudgetProofs ----------------------------
(***************************************************************************)
(* What the daily budget promises for every number of calls, any ceiling,  *)
(* estimates and usage: with one process the ceiling holds, because the    *)
(* call that has passed the check keeps the lock until its debit, and      *)
(* nothing else writes the counter meanwhile.  With any number of          *)
(* processes, nothing that was spent is missing from the counter.          *)
(***************************************************************************)
EXTENDS AiRequests, FiniteSetTheorems, WellFoundedInduction, TLAPS

(* A request is over with its call. *)
Reset(c) ==
  /\ ~InProgress(c)
  /\ call' = [call EXCEPT ![c] = Idle]
  /\ UNCHANGED <<today, usage, holder, overrun, spent, killed>>

(* What the counter and the calls do, without the requests. *)
BudgetStep ==
  \/ \E c \in Calls : Call(c) \/ Reset(c) \/ \E est \in Tokens : Guard(c, est)
  \/ Midnight
  \/ \E lock \in Locks : Kill(lock)
  \/ UNCHANGED budgetVars

(* The total of a sum of two counts is the sum of their totals. *)
LEMMA TokensAdd ==
  ASSUME NEW t \in Tokens, NEW u \in Tokens
  PROVE  /\ Plus(t, u) \in Tokens /\ Total(t) \in Nat
         /\ Total(Plus(t, u)) = Total(t) + Total(u)
BY DEF Tokens, Plus, Total

(* No tokens are a count, with the total zero. *)
LEMMA NoTokens == None \in Tokens /\ Total(None) = 0
BY DEF Tokens, None, Total

(* A reconciliation is clamped at zero. *)
LEMMA DeltaTokens ==
  ASSUME BudgetTypeOK, NEW c \in Calls
  PROVE  Delta(c) \in Tokens
<1>1. call[c].actual \in Tokens /\ call[c].est \in Tokens
  BY DEF BudgetTypeOK, CallState
<1>2. \A a, e \in Nat : Over(a, e) \in Nat
  BY DEF Over
<1> QED BY <1>1, <1>2 DEF Delta, Tokens

(* What a call site is estimated to cost is a count. *)
LEMMA EstimateTokens == ASSUME NEW site PROVE Estimate(site) \in Tokens
BY DEF Estimate, Tokens
-----------------------------------------------------------------------------
(* Every step of a request is a step of its call, or leaves all as it is. *)
LEMMA GoesTo ==
  ASSUME NEW c \in Calls, NEW site, NEW pain, GoTo(c, site, pain)
  PROVE  BudgetStep
BY EstimateTokens DEF GoTo, BudgetStep

(* A request that ends gives up its call, which is over. *)
LEMMA Ends ==
  ASSUME NEW c \in Calls, NEW site, NEW answer, At(c, site), End(c, answer)
  PROVE  BudgetStep
<1>1. ~InProgress(c)
  BY DEF At, Ended, Outcome, InProgress
<1>2. Reset(c)
  BY <1>1 DEF End, Reset
<1> QED BY <1>2 DEF BudgetStep

(* Every step of every kind of request goes to a call site or ends. *)
LEMMA StepIsBudgetStep ==
  ASSUME NEW c \in Calls, Step(c)
  PROVE  BudgetStep
<1>1. CASE RouteInstruction(c) \/ ExecuteDatabaseQuery(c) \/ GetStrategicInsights(c)
  BY <1>1, GoesTo, Ends DEF RouteInstruction, ExecuteDatabaseQuery, GetStrategicInsights
<1>2. CASE GenerateOutreachDraft(c) \/ GenerateLinkedinDraft(c)
  BY <1>2, Ends DEF GenerateOutreachDraft, GenerateLinkedinDraft
<1>3. CASE GenerateCampaignStrategy(c)
  <2>1. CASE Guard(c, Estimate("draft"))
    BY <2>1, EstimateTokens DEF BudgetStep
  <2> QED BY <1>3, <2>1, Ends DEF GenerateCampaignStrategy
<1>4. CASE AnalyzePainPoints(c) \/ GenerateOutreachHooks(c) \/ EnrichBusinessData(c)
  BY <1>4, GoesTo, Ends DEF AnalyzePainPoints, GenerateOutreachHooks, EnrichBusinessData
<1>5. CASE DeepAiParse(c)
  BY <1>5, GoesTo, Ends DEF DeepAiParse, DeepEnrichment
<1>6. CASE GetColumnMapping(c)
  BY <1>6, Ends DEF GetColumnMapping
<1> QED BY <1>1, <1>2, <1>3, <1>4, <1>5, <1>6 DEF Step

(* The counter and the calls move by steps of calls, kills and midnights   *)
(* only, whatever the requests are about.                                  *)
LEMMA NextIsBudgetStep == [Next]_vars => BudgetStep
<1> SUFFICES ASSUME [Next]_vars PROVE BudgetStep
  OBVIOUS
<1>1. ASSUME NEW c \in Calls, Begin(c) PROVE BudgetStep
  BY <1>1, EstimateTokens DEF Begin, BudgetStep
<1>2. ASSUME NEW c \in Calls, Step(c) PROVE BudgetStep
  BY <1>2, StepIsBudgetStep
<1>3. ASSUME NEW c \in Calls, Call(c) PROVE BudgetStep
  BY <1>3 DEF BudgetStep
<1>4. CASE Midnight \/ UNCHANGED vars
  BY <1>4 DEF BudgetStep, vars
<1>5. ASSUME NEW lock \in Locks, Die(lock) PROVE BudgetStep
  BY <1>5 DEF Die, BudgetStep
<1> QED BY <1>1, <1>2, <1>3, <1>4, <1>5 DEF Next
-----------------------------------------------------------------------------
(* The counter and the calls have their types at first, *)
LEMMA TypesInit == Init => BudgetTypeOK
<1> SUFFICES ASSUME Init PROVE BudgetTypeOK
  OBVIOUS
<1>1. 1 \in Days
  BY BudgetAssumption DEF Days
<1>2. Idle \in CallState
  BY <1>1, NoTokens DEF Idle, CallState
<1> QED BY <1>1, <1>2, NoTokens DEF Init, BudgetInit, BudgetTypeOK

(* One conjunct of the type invariant after another, for a call's steps. *)
LEMMA CallTypes ==
  ASSUME BudgetTypeOK, NEW c \in Calls, Call(c)
  PROVE  BudgetTypeOK'
<1> USE DEF BudgetTypeOK
<1>1. call[c] \in CallState /\ call[c].day \in Days /\ call[c].est \in Tokens /\ call[c].actual \in Tokens
  BY DEF CallState
<1>2. ASSUME NEW pc \in {"denied", "debiting", "calling", "returned", "quota", "raised"}, SetPc(c, pc)
      PROVE  call' \in [Calls -> CallState]
  BY <1>2 DEF SetPc, CallState
<1>3. CASE Check(c)
  BY <1>1, <1>2, <1>3, BudgetAssumption DEF Check
<1>4. CASE Debit(c)
  <2>1. Plus(usage[call[c].day], call[c].est) \in Tokens
    BY <1>1, TokensAdd
  <2> QED BY <1>1, <1>2, <1>4, <2>1 DEF Debit
<1>5. CASE Record(c)
  <2>1. Delta(c) \in Tokens /\ Total(Delta(c)) \in Nat
    BY DeltaTokens, TokensAdd
  <2>2. Plus(usage[call[c].day], Delta(c)) \in Tokens /\ Plus(spent, call[c].actual) \in Tokens
    BY <1>1, <2>1, TokensAdd
  <2> QED BY <1>1, <1>2, <1>5, <2>1, <2>2 DEF Record
<1>6. CASE CallFails(c)
  BY <1>1, <1>2, <1>6 DEF CallFails
<1>7. ASSUME NEW reported \in [in : Amounts, out : Amounts], Answer(c, reported)
      PROVE  BudgetTypeOK'
  <2>1. Extracted(reported, call[c].est) \in Tokens
    BY <1>1, BudgetAssumption DEF Extracted, Tokens
  <2> QED BY <1>1, <1>7, <2>1 DEF Answer, CallState
<1> QED BY <1>3, <1>4, <1>5, <1>6, <1>7 DEF Call

(* and every step keeps them. *)
LEMMA TypesNext == BudgetTypeOK /\ BudgetStep => BudgetTypeOK'
<1> SUFFICES ASSUME BudgetTypeOK, BudgetStep PROVE BudgetTypeOK'
  OBVIOUS
<1> USE DEF BudgetTypeOK
<1>1. Idle \in CallState
  BY NoTokens, BudgetAssumption DEF Idle, CallState, Days
<1>2. ASSUME NEW c \in Calls, NEW est \in Tokens, Guard(c, est) PROVE BudgetTypeOK'
  BY <1>2, NoTokens DEF Guard, CallState
<1>3. ASSUME NEW c \in Calls, Reset(c) PROVE BudgetTypeOK'
  BY <1>1, <1>3 DEF Reset
<1>4. CASE Midnight
  BY <1>4, BudgetAssumption DEF Midnight, Days
<1>5. ASSUME NEW lock \in Locks, Kill(lock) PROVE BudgetTypeOK'
  BY <1>1, <1>5 DEF Kill
<1>6. CASE UNCHANGED budgetVars
  BY <1>6 DEF budgetVars
<1> QED BY <1>2, <1>3, <1>4, <1>5, <1>6, CallTypes DEF BudgetStep

(* The counter, the lock and the calls keep their types. *)
THEOREM BudgetTypes == Spec => []BudgetTypeOK
<1>1. BudgetTypeOK /\ [Next]_vars => BudgetTypeOK'
  BY TypesNext, NextIsBudgetStep
<1> QED BY <1>1, TypesInit, PTL DEF Spec
-----------------------------------------------------------------------------
(* The inductive invariant: a call between its check and its debit holds   *)
(* the lock, and its estimate still fits.                                  *)
Admitted(c) ==
  /\ holder[LockOf[c]] = c
  /\ Total(usage[call[c].day]) + Total(call[c].est) <= Ceiling

AdmittedInv == \A c \in Calls : call[c].pc = "debiting" => Admitted(c)

BudgetInv == BudgetTypeOK /\ AdmittedInv /\ BudgetHeld

(* At first no call is under way and nothing has been counted. *)
LEMMA BudgetInvInit == Init => BudgetInv
<1> SUFFICES ASSUME Init PROVE AdmittedInv /\ BudgetHeld
  BY TypesInit DEF BudgetInv
<1>1. AdmittedInv
  BY DEF Init, BudgetInit, AdmittedInv, Idle
<1>2. BudgetHeld
  BY NoTokens, BudgetAssumption DEF Init, BudgetInit, BudgetHeld
<1> QED BY <1>1, <1>2

(* A debit and a reconciliation leave no other call between its check and  *)
(* its debit: the lock is the debiting call's, or nobody's.                *)
LEMMA AloneAtTheCounter ==
  ASSUME OneProcess, BudgetInv, NEW c \in Calls, Debit(c) \/ Record(c)
  PROVE  \A d \in Calls : call'[d].pc # "debiting"
<1>1. \A d \in Calls : call[d].pc = "debiting" => d = c
  BY BudgetAssumption DEF OneProcess, BudgetInv, AdmittedInv, Admitted, Debit, Record
<1>2. SetPc(c, "calling") \/ SetPc(c, "returned")
  BY DEF Debit, Record
<1>3. call \in [Calls -> CallState]
  BY DEF BudgetInv, BudgetTypeOK
<1> QED BY <1>1, <1>2, <1>3 DEF SetPc, CallState

(* A debit counts what was checked: the estimate still fits, as the lock   *)
(* was not given away since.                                               *)
LEMMA DebitHeld ==
  ASSUME OneProcess, BudgetInv, NEW c \in Calls, Debit(c)
  PROVE  BudgetInv'
<1>1. BudgetTypeOK'
  BY CallTypes DEF BudgetInv, Call
<1>2. AdmittedInv'
  BY AloneAtTheCounter DEF AdmittedInv
<1>3. BudgetHeld'
  <2> DEFINE day == call[c].day
  <2>1. day \in Days /\ call[c].est \in Tokens /\ usage[day] \in Tokens /\ usage' = [usage EXCEPT ![day] = Plus(@, call[c].est)]
    BY DEF BudgetInv, BudgetTypeOK, CallState, Debit
  <2>2. Total(usage'[day]) = Total(usage[day]) + Total(call[c].est)
    BY <2>1, TokensAdd DEF BudgetInv, BudgetTypeOK
  <2>3. Total(usage'[day]) <= Ceiling + overrun[day]
    BY <2>1, <2>2, TokensAdd, BudgetAssumption DEF BudgetInv, AdmittedInv, Admitted, BudgetTypeOK, Debit
  <2> HIDE DEF day
  <2> QED BY <2>1, <2>3 DEF BudgetInv, BudgetHeld, BudgetTypeOK, Debit
<1> QED BY <1>1, <1>2, <1>3 DEF BudgetInv

(* A reconciliation adds to the counter only what it also adds to the      *)
(* overrun, and no other call holds a check meanwhile.                     *)
LEMMA RecordHeld ==
  ASSUME OneProcess, BudgetInv, NEW c \in Calls, Record(c)
  PROVE  BudgetInv'
<1>1. BudgetTypeOK'
  BY CallTypes DEF BudgetInv, Call
<1>2. AdmittedInv'
  BY AloneAtTheCounter DEF AdmittedInv
<1>3. BudgetHeld'
  <2> DEFINE day == call[c].day
             delta == Delta(c)
  <2>1. day \in Days /\ usage[day] \in Tokens /\ delta \in Tokens
    BY DeltaTokens DEF BudgetInv, BudgetTypeOK, CallState
  <2>2. /\ usage' = [usage EXCEPT ![day] = Plus(@, delta)]
        /\ overrun' = [overrun EXCEPT ![day] = @ + Total(delta)]
    BY DEF Record
  <2> HIDE DEF day, delta
  <2>3. \A e \in Days : IF e = day THEN /\ Total(usage'[e]) = Total(usage[e]) + Total(delta)
                                        /\ overrun'[e] = overrun[e] + Total(delta)
                                   ELSE usage'[e] = usage[e] /\ overrun'[e] = overrun[e]
    BY <2>1, <2>2, TokensAdd DEF BudgetInv, BudgetTypeOK
  <2>4. \A e \in Days : Total(usage[e]) \in Nat /\ overrun[e] \in Nat
    BY TokensAdd DEF BudgetInv, BudgetTypeOK
  <2>5. Total(delta) \in Nat
    BY <2>1, TokensAdd
  <2> QED BY <2>3, <2>4, <2>5, BudgetAssumption DEF BudgetInv, BudgetHeld
<1> QED BY <1>1, <1>2, <1>3 DEF BudgetInv

(* A check takes a lock that is free, so it takes it from nobody. *)
LEMMA CheckHeld ==
  ASSUME BudgetInv, NEW c \in Calls, Check(c)
  PROVE  BudgetInv'
<1>1. BudgetTypeOK'
  BY CallTypes DEF BudgetInv, Call
<1>2. BudgetHeld'
  BY DEF Check, BudgetInv, BudgetHeld
<1>3. ASSUME NEW d \in Calls, call'[d].pc = "debiting" PROVE Admitted(d)'
  <2>1. call[c].day \in Days /\ call[c].est \in Tokens /\ usage[call[c].day] \in Tokens
    BY DEF BudgetInv, BudgetTypeOK, CallState
  <2>2. Total(usage[call[c].day]) + Total(call[c].est) \in Nat
    BY <2>1, TokensAdd
  <2>3. CASE d = c
    <3>1. ~ (Total(usage[call[c].day]) + Total(call[c].est) > Ceiling)
      BY <1>3, <2>3 DEF Check, SetPc, BudgetInv, BudgetTypeOK, CallState
    <3>2. holder' = [holder EXCEPT ![LockOf[c]] = c] /\ usage' = usage
      BY <3>1 DEF Check
    <3>3. call'[c].day = call[c].day /\ call'[c].est = call[c].est
      BY DEF Check, SetPc, BudgetInv, BudgetTypeOK, CallState
    <3>4. holder'[LockOf[c]] = c
      BY <3>2, BudgetAssumption DEF BudgetInv, BudgetTypeOK
    <3> QED BY <2>2, <2>3, <3>1, <3>2, <3>3, <3>4, BudgetAssumption DEF Admitted
  <2>4. CASE d # c
    <3>1. call'[d] = call[d] /\ usage' = usage
      BY <2>4 DEF Check, SetPc, BudgetInv, BudgetTypeOK
    <3>2. Admitted(d)
      BY <1>3, <3>1 DEF BudgetInv, AdmittedInv
    <3>3. holder'[LockOf[d]] = holder[LockOf[d]]
      BY <3>2, BudgetAssumption DEF Check, Admitted, BudgetInv, BudgetTypeOK
    <3> QED BY <3>1, <3>2, <3>3 DEF Admitted
  <2> QED BY <2>3, <2>4
<1> QED BY <1>1, <1>2, <1>3 DEF BudgetInv, AdmittedInv

(* Every other step leaves the counter and the call that holds the lock. *)
LEMMA QuietHeld ==
  ASSUME BudgetInv, BudgetTypeOK', UNCHANGED <<usage, overrun>>,
         \A d \in Calls : call'[d].pc = "debiting" =>
           call'[d] = call[d] /\ holder'[LockOf[d]] = holder[LockOf[d]]
  PROVE  BudgetInv'
<1>1. BudgetHeld'
  BY DEF BudgetInv, BudgetHeld
<1>2. AdmittedInv'
  BY DEF BudgetInv, AdmittedInv, Admitted
<1> QED BY <1>1, <1>2 DEF BudgetInv

(* With one process, the ceiling is kept by every step. *)
LEMMA BudgetInvNext == OneProcess /\ BudgetInv /\ [Next]_vars => BudgetInv'
<1> SUFFICES ASSUME OneProcess, BudgetInv, BudgetStep PROVE BudgetInv'
  BY NextIsBudgetStep
<1> DEFINE Quiet == \A d \in Calls : call'[d].pc = "debiting" =>
                      call'[d] = call[d] /\ holder'[LockOf[d]] = holder[LockOf[d]]
<1>1. BudgetTypeOK /\ BudgetTypeOK'
  BY TypesNext DEF BudgetInv
<1>2. ASSUME NEW c \in Calls, CallFails(c) \/ (\E r : Answer(c, r)) PROVE BudgetInv'
  <2>1. Quiet /\ UNCHANGED <<usage, overrun>>
    BY <1>1, <1>2 DEF CallFails, Answer, SetPc, BudgetTypeOK, CallState
  <2> QED BY <1>1, <2>1, QuietHeld
<1>3. ASSUME NEW c \in Calls, Reset(c) \/ \E est \in Tokens : Guard(c, est) PROVE BudgetInv'
  <2>1. Quiet /\ UNCHANGED <<usage, overrun>>
    BY <1>1, <1>3 DEF Reset, Guard, Idle, BudgetTypeOK
  <2> QED BY <1>1, <2>1, QuietHeld
<1>4. CASE Midnight \/ UNCHANGED budgetVars
  <2>1. Quiet /\ UNCHANGED <<usage, overrun>>
    BY <1>4 DEF Midnight, budgetVars
  <2> QED BY <1>1, <2>1, QuietHeld
<1>5. ASSUME NEW lock \in Locks, Kill(lock) PROVE BudgetInv'
  <2>1. Quiet /\ UNCHANGED <<usage, overrun>>
    BY <1>1, <1>5, BudgetAssumption DEF Kill, Idle, BudgetTypeOK
  <2> QED BY <1>1, <2>1, QuietHeld
<1> QED BY <1>2, <1>3, <1>4, <1>5, CheckHeld, DebitHeld, RecordHeld DEF BudgetStep, Call

(* With one process, the estimates debited on a day stay under the         *)
(* ceiling, for every number of calls, whatever they report and whenever   *)
(* midnight falls.                                                         *)
THEOREM CeilingHolds == OneProcess /\ Spec => []BudgetHeld
<1> SUFFICES ASSUME OneProcess PROVE Spec => []BudgetHeld
  OBVIOUS
<1>1. BudgetInv /\ [Next]_vars => BudgetInv'
  BY BudgetInvNext
<1>2. BudgetInv => BudgetHeld
  BY DEF BudgetInv
<1> QED BY <1>1, <1>2, BudgetInvInit, PTL DEF Spec
-----------------------------------------------------------------------------
(* The counter implements DailyCeiling: what is admitted for a day is what *)
(* it counts, less what reconciliations have added.                        *)
AdmittedOn(d) == Total(usage[d]) - overrun[d]

DailyStep == Daily!Next \/ UNCHANGED <<[d \in Days |-> AdmittedOn(d)], overrun>>

(* A debit is the abstract admission, or a stutter when the estimate is    *)
(* empty.                                                                  *)
LEMMA DebitImplements ==
  ASSUME BudgetInv, NEW c \in Calls, Debit(c), NEW day \in Days, day = call[c].day
  PROVE  DailyStep
<1> DEFINE sum == [d \in Days |-> AdmittedOn(d)]
<1>1. call[c].est \in Tokens /\ usage[day] \in Tokens
  BY DEF BudgetInv, BudgetTypeOK, CallState
<1>2. /\ usage' = [usage EXCEPT ![day] = Plus(@, call[c].est)]
      /\ overrun' = overrun
  BY DEF Debit
<1>3. Total(call[c].est) \in Nat /\ Total(usage[day]) \in Nat /\ overrun[day] \in Nat
  BY <1>1, TokensAdd DEF BudgetInv, BudgetTypeOK
<1>4. Total(usage[day]) + Total(call[c].est) <= Ceiling
  BY DEF BudgetInv, AdmittedInv, Admitted, Debit
<1>5. /\ Total(usage'[day]) = Total(usage[day]) + Total(call[c].est)
      /\ \A d \in Days \ {day} : usage'[d] = usage[d]
  BY <1>1, <1>2, TokensAdd DEF BudgetInv, BudgetTypeOK
<1>6. /\ sum'[day] = sum[day] + Total(call[c].est)
      /\ \A d \in Days \ {day} : sum'[d] = sum[d]
  BY <1>1, <1>2, <1>3, <1>5 DEF AdmittedOn
<1>7. sum'[day] + overrun[day] <= Ceiling
  BY <1>1, <1>2, <1>3, <1>4, <1>5 DEF AdmittedOn
<1>8. sum[day] \in Int
  BY <1>1, <1>3 DEF AdmittedOn
<1>9. sum' = [sum EXCEPT ![day] = sum'[day]]
  BY <1>1, <1>6
<1>10. CASE Total(call[c].est) = 0
  <2>1. sum' = sum
    BY <1>6, <1>8, <1>9, <1>10
  <2> QED BY <1>2, <2>1 DEF DailyStep
<1>11. CASE Total(call[c].est) # 0
  <2>1. sum'[day] > sum[day]
    BY <1>3, <1>6, <1>8, <1>11
  <2>2. Daily!Admit(day)
    BY <1>2, <1>7, <1>9, <2>1 DEF Daily!Admit, Daily!Adds, AdmittedOn
  <2> QED BY <1>1, <2>2 DEF DailyStep, Daily!Next
<1> QED BY <1>10, <1>11

(* A reconciliation is the abstract overrun, or a stutter when it finds no *)
(* more than the estimate.                                                 *)
LEMMA RecordImplements ==
  ASSUME BudgetInv, NEW c \in Calls, Record(c), NEW day \in Days, day = call[c].day
  PROVE  DailyStep
<1> DEFINE delta == Delta(c)
           sum == [d \in Days |-> AdmittedOn(d)]
<1>1. delta \in Tokens /\ usage[day] \in Tokens
  BY DeltaTokens DEF BudgetInv, BudgetTypeOK, CallState
<1>2. /\ usage' = [usage EXCEPT ![day] = Plus(@, delta)]
      /\ overrun' = [overrun EXCEPT ![day] = @ + Total(delta)]
  BY DEF Record
<1>3. Total(delta) \in Nat /\ Total(usage[day]) \in Nat /\ overrun[day] \in Nat
  BY <1>1, TokensAdd DEF BudgetInv, BudgetTypeOK
<1> HIDE DEF delta
<1>4. /\ Total(usage'[day]) = Total(usage[day]) + Total(delta)
      /\ overrun'[day] = overrun[day] + Total(delta)
      /\ \A d \in Days \ {day} : usage'[d] = usage[d] /\ overrun'[d] = overrun[d]
  BY <1>1, <1>2, TokensAdd DEF BudgetInv, BudgetTypeOK
<1>5. \A d \in Days : AdmittedOn(d)' = AdmittedOn(d)
  BY <1>3, <1>4 DEF AdmittedOn
<1>6. sum' = sum
  BY <1>5
<1>7. CASE Total(delta) = 0
  <2>1. overrun' = overrun
    BY <1>1, <1>2, <1>3, <1>7 DEF BudgetInv, BudgetTypeOK
  <2> QED BY <1>6, <2>1 DEF DailyStep
<1>8. CASE Total(delta) # 0
  <2>1. overrun'[day] > overrun[day]
    BY <1>3, <1>4, <1>8
  <2>2. overrun' = [overrun EXCEPT ![day] = overrun'[day]]
    BY <1>2, <1>4
  <2>3. Daily!Overrun(day)
    BY <1>6, <2>1, <2>2 DEF Daily!Overrun, Daily!Adds, AdmittedOn
  <2> QED BY <2>3 DEF DailyStep, Daily!Next
<1> QED BY <1>7, <1>8

(* All but debits and reconciliations are stuttering steps of the ceiling. *)
LEMMA StepImplements ==
  ASSUME BudgetInv, BudgetStep
  PROVE  DailyStep
<1>1. ASSUME UNCHANGED <<usage, overrun>> PROVE DailyStep
  BY <1>1 DEF DailyStep, AdmittedOn
<1>2. ASSUME NEW c \in Calls, Call(c) PROVE DailyStep
  <2>1. call[c].day \in Days
    BY DEF BudgetInv, BudgetTypeOK, CallState
  <2>2. PICK day \in Days : day = call[c].day
    BY <2>1
  <2> QED BY <1>1, <1>2, <2>2, DebitImplements, RecordImplements DEF Call, Check, Answer, CallFails
<1>3. ASSUME NEW c \in Calls, Reset(c) \/ \E est \in Tokens : Guard(c, est) PROVE DailyStep
  BY <1>1, <1>3 DEF Reset, Guard
<1>4. CASE Midnight \/ UNCHANGED budgetVars \/ \E lock \in Locks : Kill(lock)
  BY <1>1, <1>4 DEF Midnight, Kill, budgetVars
<1> QED BY <1>2, <1>3, <1>4 DEF BudgetStep

(* With one process, the counter is a daily ceiling: no estimate is        *)
(* admitted beyond it, and nothing that was counted is ever given back.    *)
THEOREM CounterImplementsCeiling == OneProcess /\ Spec => DailySpec
<1> SUFFICES ASSUME OneProcess PROVE Spec => DailySpec
  OBVIOUS
<1>1. Init => Daily!Init
  <2> SUFFICES ASSUME Init PROVE Daily!Init
    OBVIOUS
  <2>1. \A d \in Days : AdmittedOn(d) = 0 /\ overrun[d] = 0
    BY NoTokens DEF Init, BudgetInit, AdmittedOn
  <2> QED BY <2>1 DEF Daily!Init, Init, BudgetInit, AdmittedOn
<1>2. BudgetInv /\ [Next]_vars => BudgetInv'
  BY BudgetInvNext
<1>3. BudgetInv /\ [Next]_vars => [Daily!Next]_<<[d \in Days |-> Total(usage[d]) - overrun[d]], overrun>>
  BY NextIsBudgetStep, StepImplements DEF DailyStep, AdmittedOn
<1> QED BY <1>1, <1>2, <1>3, BudgetInvInit, PTL DEF Spec, DailySpec, Daily!Spec
-----------------------------------------------------------------------------
(* Where a request can be, by its kind, and what it has answered so far.   *)
Interacts(r) ==
  /\ r.at \in {"route", "query"} => r.kind = "ask"
  /\ r.at = "insights" => r.kind \in {"ask", "insights"}
  /\ r.at = "draft" => r.kind \in {"draft", "strategy"} /\ r.drafts # 0
  /\ r.at = "linkedin" => r.kind = "linkedin"
  /\ r.at \in {"pain_points", "hooks", "business", "deep", "mapping"} => r.kind \notin Reporting
  /\ r.at = "idle" => r.answer = NULL /\ ~ r.refused
  /\ r.kind \in Reporting /\ r.at # "done" => r.answer = NULL /\ ~ r.refused

Reported(r) ==
  r.kind \in Reporting /\ r.answer # NULL =>
    (r.refused <=> r.answer = IF r.kind = "strategy" THEN "error" ELSE "503")

RequestInv ==
  /\ request \in [Calls -> RequestState]
  /\ \A c \in Calls : Interacts(request[c]) /\ Reported(request[c])

(* What a step may make of the request it belongs to. *)
LEMMA RequestChanges ==
  ASSUME RequestInv, NEW c \in Calls, NEW r \in RequestState, Interacts(r), Reported(r),
         request' = [request EXCEPT ![c] = r]
  PROVE  RequestInv'
BY DEF RequestInv

(* After a call: the next site, or the answer. *)
LEMMA GoesOn ==
  ASSUME RequestInv, NEW c \in Calls, NEW site \in Sites, NEW pain \in Pains,
         GoTo(c, site, pain), request[c].kind \in Reporting => ~ Refused(c),
         Interacts([request[c] EXCEPT !.at = site])
  PROVE  RequestInv'
<1> DEFINE r == [request[c] EXCEPT !.at = site, !.pain = pain, !.refused = @ \/ Refused(c)]
<1>1. request[c] \in RequestState /\ Interacts(request[c]) /\ Reported(request[c])
  BY DEF RequestInv
<1>2. request' = [request EXCEPT ![c] = r]
  BY DEF GoTo
<1>3. r \in RequestState /\ r.kind = request[c].kind /\ r.answer = request[c].answer /\ r.at = site
      /\ r.refused = (request[c].refused \/ Refused(c))
  BY <1>1 DEF RequestState
<1> HIDE DEF r
<1>4. r.drafts = request[c].drafts
  BY <1>1 DEF r, RequestState
<1>5. Interacts(r)
  <2> DEFINE q == [request[c] EXCEPT !.at = site]
  <2>1. q.at = site /\ q.kind = r.kind /\ q.answer = r.answer /\ q.refused = request[c].refused
        /\ q.drafts = r.drafts
    BY <1>1, <1>3, <1>4 DEF RequestState
  <2>2. Interacts(q)
    OBVIOUS
  <2> HIDE DEF q
  <2> QED BY <1>3, <2>1, <2>2 DEF Interacts, Sites
<1>6. Reported(r)
  BY <1>1, <1>3 DEF Interacts, Reported, RequestState, Sites
<1> QED BY <1>2, <1>3, <1>5, <1>6, RequestChanges

(* A request that ends with the answer for a refusal exactly when it met   *)
(* one keeps the invariant.                                                *)
LEMMA EndsReported ==
  ASSUME RequestInv, NEW c \in Calls, NEW site \in Sites, At(c, site), NEW answer \in Answers,
         End(c, answer),
         request[c].kind \in Reporting =>
           (Refused(c) <=> answer = IF request[c].kind = "strategy" THEN "error" ELSE "503")
  PROVE  RequestInv'
<1> DEFINE r == [request[c] EXCEPT !.at = "done", !.answer = answer, !.pain = "none", !.drafts = 0,
                                   !.refused = @ \/ Refused(c)]
<1>1. request[c] \in RequestState /\ Interacts(request[c]) /\ Reported(request[c])
  BY DEF RequestInv
<1>2. request' = [request EXCEPT ![c] = r]
  BY DEF End
<1>3. /\ r \in RequestState
      /\ r.kind = request[c].kind /\ r.answer = answer /\ r.at = "done"
      /\ r.refused = (request[c].refused \/ Refused(c))
  <2>1. 0 \in 0..MaxDrafts /\ "none" \in Pains /\ (request[c].refused \/ Refused(c)) \in BOOLEAN
    BY RequestsAssumption DEF Pains
  <2> QED BY <1>1, <2>1 DEF RequestState
<1>4. request[c].at # "done"
  BY DEF At, Sites
<1> HIDE DEF r
<1>5. Interacts(r) /\ Reported(r)
  BY <1>1, <1>3, <1>4 DEF Interacts, Reported, RequestState
<1> QED BY <1>2, <1>3, <1>5, RequestChanges
-----------------------------------------------------------------------------
(* The endpoints of the router. *)
LEMMA RouterReports ==
  ASSUME RequestInv, NEW c \in Calls,
         RouteInstruction(c) \/ ExecuteDatabaseQuery(c) \/ GetStrategicInsights(c)
  PROVE  RequestInv'
<1>1. request[c] \in RequestState /\ Interacts(request[c])
  BY DEF RequestInv
<1>2. CASE RouteInstruction(c)
  <2>1. request[c].kind = "ask" /\ request[c].at = "route"
    BY <1>1, <1>2 DEF RouteInstruction, At, Interacts
  <2>2. request[c].answer = NULL /\ ~ request[c].refused
    BY <1>1, <2>1 DEF Interacts, Reporting
  <2>3. ASSUME NEW site \in {"query", "insights"}, GoTo(c, site, request[c].pain), ~ Refused(c)
        PROVE  RequestInv'
    <3>1. Interacts([request[c] EXCEPT !.at = site])
      BY <1>1, <2>1, <2>2 DEF Interacts, RequestState
    <3> QED BY <1>1, <2>3, <3>1, GoesOn DEF Sites, RequestState
  <2>4. ASSUME NEW answer \in Answers, End(c, answer), Refused(c) <=> answer = "503"
        PROVE  RequestInv'
    BY <1>2, <2>1, <2>4, EndsReported DEF RouteInstruction, Sites
  <2> QED BY <1>2, <2>3, <2>4 DEF RouteInstruction, Answers, Refused, Failed, Outcome
<1>3. CASE ExecuteDatabaseQuery(c)
  <2>1. request[c].kind = "ask" /\ At(c, "query")
    BY <1>1, <1>3 DEF ExecuteDatabaseQuery, At, Interacts
  <2> QED BY <1>3, <2>1, EndsReported DEF ExecuteDatabaseQuery, Answers, Sites
<1>4. CASE GetStrategicInsights(c)
  <2>1. request[c].kind \in {"ask", "insights"} /\ At(c, "insights")
    BY <1>1, <1>4 DEF GetStrategicInsights, At, Interacts
  <2> QED BY <1>4, <2>1, EndsReported DEF GetStrategicInsights, Answers, Sites
<1> QED BY <1>2, <1>3, <1>4

(* The three generators of texts report a refusal. *)
LEMMA DraftsReport ==
  ASSUME RequestInv, NEW c \in Calls,
         GenerateOutreachDraft(c) \/ GenerateLinkedinDraft(c) \/ GenerateCampaignStrategy(c)
  PROVE  RequestInv'
<1>1. request[c] \in RequestState /\ Interacts(request[c]) /\ Reported(request[c])
  BY DEF RequestInv
<1>2. CASE GenerateOutreachDraft(c)
  BY <1>2, EndsReported DEF GenerateOutreachDraft, Answers, Sites
<1>3. CASE GenerateLinkedinDraft(c)
  <2>1. request[c].kind = "linkedin" /\ At(c, "linkedin")
    BY <1>1, <1>3 DEF GenerateLinkedinDraft, At, Interacts
  <2> QED BY <1>3, <2>1, EndsReported DEF GenerateLinkedinDraft, Answers, Sites
<1>4. CASE GenerateCampaignStrategy(c)
  <2>1. CASE Refused(c) \/ request[c].drafts = 1
    BY <1>4, <2>1, EndsReported DEF GenerateCampaignStrategy, Answers, Sites
  <2>2. CASE ~ (Refused(c) \/ request[c].drafts = 1)
    <3> DEFINE r == [request[c] EXCEPT !.drafts = @ - 1]
    <3>1. request' = [request EXCEPT ![c] = r]
      BY <1>4, <2>2 DEF GenerateCampaignStrategy
    <3>2. request[c].drafts \in Nat \ {0, 1} /\ request[c].drafts <= MaxDrafts
      BY <1>1, <1>4, <2>2, RequestsAssumption DEF RequestState, Interacts, At, GenerateCampaignStrategy
    <3>3. r \in RequestState /\ r.drafts # 0
      BY <1>1, <3>2, RequestsAssumption DEF RequestState
    <3>4. r.kind = request[c].kind /\ r.at = request[c].at /\ r.answer = request[c].answer
          /\ r.refused = request[c].refused
      BY <1>1 DEF RequestState
    <3> HIDE DEF r
    <3>5. Interacts(r) /\ Reported(r)
      BY <1>1, <3>3, <3>4 DEF Interacts, Reported
    <3> QED BY <3>1, <3>3, <3>5, RequestChanges DEF r
  <2> QED BY <2>1, <2>2
<1> QED BY <1>2, <1>3, <1>4

(* Nobody waits for the work on a lead or on a file. *)
LEMMA SilentReports ==
  ASSUME RequestInv, NEW c \in Calls,
         \/ AnalyzePainPoints(c) \/ GenerateOutreachHooks(c) \/ EnrichBusinessData(c)
         \/ DeepAiParse(c) \/ GetColumnMapping(c)
  PROVE  RequestInv'
<1>1. request[c] \in RequestState /\ Interacts(request[c]) /\ request[c].kind \notin Reporting
  BY DEF RequestInv, Interacts, At, AnalyzePainPoints, GenerateOutreachHooks, EnrichBusinessData,
         DeepAiParse, GetColumnMapping
<1>2. ASSUME NEW pain \in Pains, GoTo(c, "hooks", pain)
      PROVE  RequestInv'
  <2>1. Interacts([request[c] EXCEPT !.at = "hooks"])
    BY <1>1 DEF Interacts, RequestState
  <2> QED BY <1>1, <1>2, <2>1, GoesOn DEF Sites
<1>3. ASSUME NEW site \in Sites, At(c, site), End(c, "saved")
      PROVE  RequestInv'
  BY <1>1, <1>3, EndsReported DEF Answers
<1>4. request[c].pain \in Pains /\ {"none", "text", "placeholder"} \subseteq Pains
  BY <1>1 DEF RequestState, Pains
<1> QED BY <1>2, <1>3, <1>4
        DEF AnalyzePainPoints, GenerateOutreachHooks, EnrichBusinessData, DeepAiParse, DeepEnrichment,
            GetColumnMapping, Sites

(* At first no request has begun. *)
LEMMA RequestInvInit == Init => RequestInv
<1> SUFFICES ASSUME Init PROVE RequestInv
  OBVIOUS
<1>1. \A c \in Calls : request[c] = [kind |-> NULL, at |-> "idle", drafts |-> 0, pain |-> "none",
                                     refused |-> FALSE, answer |-> NULL]
  BY DEF Init
<1>2. request \in [Calls -> RequestState]
  BY RequestsAssumption DEF Init, RequestState, Pains
<1>3. \A c \in Calls : Interacts(request[c]) /\ Reported(request[c])
  <2> SUFFICES ASSUME NEW r, r.kind = NULL, r.at = "idle", r.answer = NULL, r.refused = FALSE
               PROVE  Interacts(r) /\ Reported(r)
    BY <1>1
  <2> QED BY RequestsAssumption DEF Interacts, Reported
<1> QED BY <1>2, <1>3 DEF RequestInv

(* Where a request of each kind begins. *)
LEMMA FirstSites ==
  ASSUME NEW kind \in Reporting \cup Silent
  PROVE  /\ First[kind] \in Sites
         /\ First[kind] \in {"route", "query"} => kind = "ask"
         /\ First[kind] = "insights" => kind = "insights"
         /\ First[kind] = "draft" => kind \in {"draft", "strategy"}
         /\ First[kind] = "linkedin" => kind = "linkedin"
         /\ First[kind] \in {"pain_points", "hooks", "business", "deep", "mapping"} => kind \notin Reporting
<1>1. /\ First["ask"] = "route" /\ First["insights"] = "insights" /\ First["draft"] = "draft"
      /\ First["linkedin"] = "linkedin" /\ First["strategy"] = "draft" /\ First["audit"] = "pain_points"
      /\ First["hunt"] = "business" /\ First["enrichment"] = "deep" /\ First["upload"] = "mapping"
  BY DEF First
<1> QED BY <1>1 DEF Reporting, Silent, Sites

(* A request begins without answer or refusal, at a site of its kind. *)
LEMMA BeginReports ==
  ASSUME RequestInv, NEW c \in Calls, Begin(c)
  PROVE  RequestInv'
<1>1. request[c] \in RequestState /\ Interacts(request[c]) /\ Reported(request[c]) /\ request[c].at = "idle"
  BY DEF RequestInv, Begin
<1>2. PICK kind \in Kinds[c], drafts \in 1..MaxDrafts, pain \in Pains :
        request' = [request EXCEPT ![c].kind = kind, ![c].at = First[kind],
                                   ![c].drafts = drafts, ![c].pain = pain]
  BY DEF Begin
<1> DEFINE r == [request[c] EXCEPT !.kind = kind, !.at = First[kind], !.drafts = drafts, !.pain = pain]
<1>3. kind \in Reporting \cup Silent
  BY RequestsAssumption
<1>4. First[kind] \in Sites /\ drafts \in 0..MaxDrafts /\ drafts # 0
  <2>1. First[kind] \in Sites
    BY <1>3, FirstSites
  <2> QED BY <2>1, RequestsAssumption
<1>5. r \in RequestState
  BY <1>1, <1>3, <1>4 DEF RequestState
<1>6. r.kind = kind /\ r.at = First[kind] /\ r.answer = request[c].answer /\ r.refused = request[c].refused
      /\ r.drafts # 0
  BY <1>1, <1>4 DEF RequestState
<1>7. request[c].answer = NULL /\ ~ request[c].refused
  BY <1>1 DEF Interacts
<1> HIDE DEF r
<1>8. Interacts(r)
  BY <1>3, <1>6, <1>7, FirstSites DEF Interacts
<1>9. Reported(r)
  BY <1>6, <1>7 DEF Reported
<1> QED BY <1>2, <1>5, <1>8, <1>9, RequestChanges DEF r

(* Every step of a request, a call or the process keeps the invariant. *)
LEMMA RequestInvNext == RequestInv /\ [Next]_vars => RequestInv'
<1> SUFFICES ASSUME RequestInv, [Next]_vars PROVE RequestInv'
  OBVIOUS
<1>1. CASE UNCHANGED request
  BY <1>1 DEF RequestInv
<1>2. ASSUME NEW lock \in Locks, Die(lock) PROVE RequestInv'
  <2>1. \A c \in Calls : \/ request'[c] = request[c]
                         \/ request'[c] = [request[c] EXCEPT !.at = "done", !.pain = "none", !.drafts = 0]
    BY <1>2 DEF Die
  <2>2. ASSUME NEW c \in Calls, NEW r,
               r = [request[c] EXCEPT !.at = "done", !.pain = "none", !.drafts = 0]
        PROVE  r \in RequestState /\ Interacts(r) /\ Reported(r)
    <3>1. request[c] \in RequestState /\ Reported(request[c])
      BY DEF RequestInv
    <3>2. r \in RequestState
      <4>1. 0 \in 0..MaxDrafts /\ "none" \in Pains
        BY RequestsAssumption DEF Pains
      <4> QED BY <2>2, <3>1, <4>1 DEF RequestState
    <3>3. r.at = "done" /\ r.kind = request[c].kind /\ r.answer = request[c].answer
          /\ r.refused = request[c].refused
      BY <2>2, <3>1 DEF RequestState
    <3> QED BY <3>1, <3>2, <3>3 DEF Interacts, Reported
  <2>4. \A c \in Calls : request'[c] \in RequestState /\ Interacts(request'[c]) /\ Reported(request'[c])
    BY <2>1, <2>2 DEF RequestInv
  <2>3. request' = [c \in Calls |-> request'[c]]
    BY <1>2 DEF Die
  <2> QED BY <2>3, <2>4 DEF RequestInv
<1>3. ASSUME NEW c \in Calls, Begin(c) \/ Step(c) PROVE RequestInv'
  BY <1>3, BeginReports, RouterReports, DraftsReport, SilentReports DEF Step
<1> QED BY <1>1, <1>2, <1>3 DEF Next, vars

(* A request whose handler reports on its call (Reporting) answers 503, or *)
(* an error if it is a strategy, exactly if one of its calls was refused,  *)
(* for every number of requests, however their calls are refused or fail.  *)
(* Of audits, hunts, enrichments and uploads (Silent) it says nothing:     *)
(* these answer that they are done, refused or not.                        *)
THEOREM RefusalsReported == Spec => []RefusalIsReported
<1>1. RequestInv => RefusalIsReported
  BY DEF RequestInv, Reported, RefusalIsReported
<1> QED BY <1>1, RequestInvInit, RequestInvNext, PTL DEF Spec
-----------------------------------------------------------------------------
(* Sums over a counter.  What a fold returns is proved from the recursion  *)
(* it is defined with, along the sizes of the sets it is taken over.       *)

(* Induction on the natural numbers, for a set. *)
LEMMA AllNumbers ==
  ASSUME NEW T, T \subseteq Nat, 0 \in T, \A n \in T : n + 1 \in T
  PROVE  T = Nat
<1> SUFFICES ASSUME Nat \ T # {} PROVE FALSE
  OBVIOUS
<1>1. PICK n \in Nat \ T : \A m \in Nat \ T : ~ (<<m, n>> \in OpToRel(<, Nat))
  BY NatLessThanWellFounded, WFMin
<1>2. n # 0 /\ n - 1 \in Nat /\ n - 1 < n /\ n = (n - 1) + 1
  OBVIOUS
<1>3. <<n - 1, n>> \in OpToRel(<, Nat)
  BY <1>2 DEF OpToRel
<1> QED BY <1>1, <1>2, <1>3

(* One step of the fold: what g holds for s, if it holds it for less. *)
Folded(g, fn, s) ==
  g[s] = IF s = {} THEN None
         ELSE LET x == CHOOSE x \in s : TRUE IN Plus(fn[x], g[s \ {x}])

(* The fold over the subsets of D, as Folds!MapThenFoldSet recurs. *)
FoldsOver(g, D, fn) ==
  g = [s \in SUBSET D |-> IF s = {} THEN None
                          ELSE LET x == CHOOSE x \in s : TRUE IN Plus(fn[x], g[s \ {x}])]

(* The recursion by which the fold is defined has a solution over a finite *)
(* set.                                                                    *)
LEMMA FoldExists ==
  ASSUME NEW D, IsFiniteSet(D), NEW fn
  PROVE  \E g : FoldsOver(g, D, fn)
<1> DEFINE T == {n \in Nat : \E g : \A s \in SUBSET D : Cardinality(s) <= n => Folded(g, fn, s)}
<1>1. \A s \in SUBSET D : IsFiniteSet(s) /\ Cardinality(s) \in Nat /\ (Cardinality(s) = 0 <=> s = {})
  BY FS_Subset, FS_CardinalityType, FS_EmptySet
<1>2. ASSUME NEW s \in SUBSET D, s # {}
      PROVE  LET x == CHOOSE x \in s : TRUE
             IN  x \in s /\ s \ {x} \in SUBSET D /\ Cardinality(s \ {x}) = Cardinality(s) - 1
  <2> DEFINE x == CHOOSE x \in s : TRUE
  <2>1. x \in s
    BY <1>2
  <2> HIDE DEF x
  <2>2. Cardinality(s \ {x}) = Cardinality(s) - 1
    BY <1>1, <2>1, FS_RemoveElement
  <2> QED BY <2>1, <2>2 DEF x
<1>3. 0 \in T
  <2> DEFINE g == [s \in SUBSET D |-> None]
  <2>1. \A s \in SUBSET D : Cardinality(s) <= 0 => Folded(g, fn, s)
    BY <1>1 DEF Folded
  <2> QED BY <2>1
<1>4. ASSUME NEW n \in T PROVE n + 1 \in T
  <2>1. PICK g : \A s \in SUBSET D : Cardinality(s) <= n => Folded(g, fn, s)
    OBVIOUS
  <2> DEFINE h == [s \in SUBSET D |-> IF Cardinality(s) <= n THEN g[s]
                                      ELSE LET x == CHOOSE x \in s : TRUE IN Plus(fn[x], g[s \ {x}])]
  <2>2. ASSUME NEW s \in SUBSET D, Cardinality(s) <= n + 1 PROVE Folded(h, fn, s)
    <3> DEFINE x == CHOOSE x \in s : TRUE
    <3>1. CASE s = {}
      <4>1. h[s] = g[s] /\ g[s] = None
        BY <1>1, <2>1, <3>1 DEF Folded
      <4> QED BY <3>1, <4>1 DEF Folded
    <3>2. CASE s # {}
      <4>1. s \ {x} \in SUBSET D /\ Cardinality(s \ {x}) = Cardinality(s) - 1 /\ Cardinality(s) \in Nat
        BY <1>1, <1>2, <3>2
      <4> HIDE DEF x
      <4>2. Cardinality(s \ {x}) <= n
        BY <2>2, <4>1
      <4>3. h[s \ {x}] = g[s \ {x}]
        BY <4>1, <4>2
      <4>4. h[s] = Plus(fn[x], g[s \ {x}])
        BY <2>1, <3>2 DEF x, Folded
      <4> QED BY <3>2, <4>3, <4>4 DEF x, Folded
    <3> QED BY <3>1, <3>2
  <2> HIDE DEF h
  <2> QED BY <2>2
<1> HIDE DEF T
<1>5. Cardinality(D) \in T
  BY <1>1, <1>3, <1>4, AllNumbers DEF T
<1>6. PICK g : \A s \in SUBSET D : Cardinality(s) <= Cardinality(D) => Folded(g, fn, s)
  BY <1>5 DEF T
<1>7. \A s \in SUBSET D : Cardinality(s) <= Cardinality(D)
  BY FS_Subset
<1> DEFINE h == [s \in SUBSET D |-> g[s]]
<1>8. FoldsOver(h, D, fn)
  <2>1. ASSUME NEW s \in SUBSET D PROVE h[s] = IF s = {} THEN None
                              ELSE LET x == CHOOSE x \in s : TRUE IN Plus(fn[x], h[s \ {x}])
    BY <1>6, <1>7 DEF Folded
  <2> QED BY <2>1 DEF FoldsOver
<1> HIDE DEF h
<1> QED BY <1>8

(* What FoldFunction returns, by the recursion it is defined with. *)
LEMMA FoldIs ==
  ASSUME NEW fn, IsFiniteSet(DOMAIN fn)
  PROVE  \E g : /\ FoldFunction(Plus, None, fn) = g[DOMAIN fn]
                /\ \A s \in SUBSET DOMAIN fn : Folded(g, fn, s)
<1> DEFINE D == DOMAIN fn
           iter == CHOOSE g : FoldsOver(g, D, fn)
<1>1. FoldsOver(iter, D, fn)
  BY FoldExists
<1>2. FoldFunction(Plus, None, fn) = iter[D]
  BY DEF FoldFunction, FoldFunctionOnSet, MapThenFoldSet, FoldsOver
<1> HIDE DEF iter
<1>3. \A s \in SUBSET D : Folded(iter, fn, s)
  BY <1>1 DEF Folded, FoldsOver
<1> QED BY <1>2, <1>3
-----------------------------------------------------------------------------
(* Induction on the subsets of a finite set, an element at a time. *)
LEMMA AllSubsets ==
  ASSUME NEW D, IsFiniteSet(D), NEW P, {} \in P,
         \A s \in SUBSET D : s # {} /\ s \ {CHOOSE x \in s : TRUE} \in P => s \in P
  PROVE  SUBSET D \subseteq P
<1> DEFINE T == {n \in Nat : \A s \in SUBSET D : Cardinality(s) <= n => s \in P}
<1>1. \A s \in SUBSET D : IsFiniteSet(s) /\ Cardinality(s) \in Nat /\ (Cardinality(s) = 0 <=> s = {})
  BY FS_Subset, FS_CardinalityType, FS_EmptySet
<1>2. 0 \in T
  BY <1>1
<1>3. ASSUME NEW n \in T PROVE n + 1 \in T
  <2>1. ASSUME NEW s \in SUBSET D, Cardinality(s) <= n + 1, s # {} PROVE s \in P
    <3> DEFINE x == CHOOSE x \in s : TRUE
    <3>1. x \in s
      BY <2>1
    <3> HIDE DEF x
    <3>2. Cardinality(s \ {x}) = Cardinality(s) - 1
      BY <1>1, <3>1, FS_RemoveElement
    <3>3. s \ {x} \in SUBSET D /\ Cardinality(s \ {x}) <= n
      BY <1>1, <2>1, <3>2
    <3> QED BY <2>1, <3>3 DEF x
  <2> QED BY <2>1
<1> HIDE DEF T
<1>4. Cardinality(D) \in T
  BY <1>1, <1>2, <1>3, AllNumbers DEF T
<1> QED BY <1>4, FS_Subset DEF T

Sum(fn) == FoldFunction(Plus, None, fn)

(* The arithmetic of a place that both sums share. *)
LEMMA SharedTerm ==
  ASSUME NEW a \in Nat, NEW p \in Nat, NEW q \in Nat, NEW b \in Nat, NEW c \in Nat, p + b = q + c
  PROVE  (a + p) + b = (a + q) + c
OBVIOUS

(* A counter that covers what was used and what is outstanding still does, *)
(* when it grows by as much as they do.                                    *)
LEMMA Balance ==
  ASSUME NEW counter \in Nat, NEW after \in Nat, NEW held \in Nat, NEW plus \in Nat,
         NEW used \in Nat, NEW real \in Nat, NEW debited \in Nat, NEW left \in Nat,
         NEW before \in Nat, NEW est \in Nat,
         counter >= used + debited, real + left <= plus + est,
         before + est = debited + left, after + held = counter + (held + plus)
  PROVE  after >= (used + real) + before
OBVIOUS

(* The two sides of a sum. *)
LEMMA TokenFields ==
  ASSUME NEW t \in Tokens, NEW u \in Tokens
  PROVE  /\ t.in \in Nat /\ t.out \in Nat
         /\ Plus(t, u).in = t.in + u.in /\ Plus(t, u).out = t.out + u.out
BY DEF Tokens, Plus

(* Sums of tokens, of functions that differ in one place, or of which one  *)
(* is below the other.                                                     *)
LEMMA FoldTokens ==
  ASSUME NEW D, IsFiniteSet(D), NEW fn \in [D -> Tokens], NEW g, \A s \in SUBSET D : Folded(g, fn, s)
  PROVE  \A s \in SUBSET D : g[s] \in Tokens
<1> DEFINE P == {s \in SUBSET D : g[s] \in Tokens}
<1>1. {} \in P
  BY NoTokens DEF Folded
<1>2. ASSUME NEW s \in SUBSET D, s # {}, s \ {CHOOSE x \in s : TRUE} \in P PROVE s \in P
  <2> DEFINE x == CHOOSE x \in s : TRUE
  <2>1. x \in s
    BY <1>2
  <2>2. g[s] = Plus(fn[x], g[s \ {x}])
    BY <1>2 DEF Folded
  <2>3. g[s \ {x}] \in Tokens
    BY <1>2
  <2> HIDE DEF x
  <2> QED BY <2>1, <2>2, <2>3, TokensAdd
<1> HIDE DEF P
<1>3. SUBSET D \subseteq P
  BY <1>1, <1>2, AllSubsets
<1> QED BY <1>3 DEF P

(* A sum does not get smaller where no term does. *)
LEMMA SumLess ==
  ASSUME NEW D, IsFiniteSet(D), NEW fn \in [D -> Tokens], NEW gn \in [D -> Tokens],
         \A d \in D : fn[d].in <= gn[d].in /\ fn[d].out <= gn[d].out
  PROVE  /\ Sum(fn) \in Tokens /\ Sum(gn) \in Tokens
         /\ Sum(fn).in <= Sum(gn).in /\ Sum(fn).out <= Sum(gn).out
<1>1. PICK g : Sum(fn) = g[D] /\ \A s \in SUBSET D : Folded(g, fn, s)
  BY FoldIs DEF Sum
<1>2. PICK h : Sum(gn) = h[D] /\ \A s \in SUBSET D : Folded(h, gn, s)
  BY FoldIs DEF Sum
<1>3. \A s \in SUBSET D : g[s] \in Tokens /\ h[s] \in Tokens
  BY <1>1, <1>2, FoldTokens
<1> DEFINE P == {s \in SUBSET D : g[s].in <= h[s].in /\ g[s].out <= h[s].out}
<1>4. {} \in P
  <2>1. g[{}] = None /\ h[{}] = None
    BY <1>1, <1>2 DEF Folded
  <2>2. None.in <= None.in /\ None.out <= None.out
    BY DEF None
  <2> QED BY <2>1, <2>2
<1>5. ASSUME NEW s \in SUBSET D, s # {}, s \ {CHOOSE x \in s : TRUE} \in P PROVE s \in P
  <2> DEFINE x == CHOOSE x \in s : TRUE
  <2>1. x \in s
    BY <1>5
  <2>2. g[s] = Plus(fn[x], g[s \ {x}]) /\ h[s] = Plus(gn[x], h[s \ {x}])
    BY <1>1, <1>2, <1>5 DEF Folded
  <2>3. s \ {x} \in P /\ s \ {x} \in SUBSET D
    BY <1>5
  <2> HIDE DEF x
  <2>4. fn[x] \in Tokens /\ gn[x] \in Tokens /\ fn[x].in <= gn[x].in /\ fn[x].out <= gn[x].out
    BY <2>1
  <2>5. g[s \ {x}] \in Tokens /\ h[s \ {x}] \in Tokens
    BY <1>3, <2>3
  <2>6. /\ g[s].in = fn[x].in + g[s \ {x}].in /\ g[s].out = fn[x].out + g[s \ {x}].out
        /\ h[s].in = gn[x].in + h[s \ {x}].in /\ h[s].out = gn[x].out + h[s \ {x}].out
    BY <2>2, <2>4, <2>5, TokenFields
  <2>7. g[s \ {x}].in <= h[s \ {x}].in /\ g[s \ {x}].out <= h[s \ {x}].out
    BY <2>3
  <2>8. g[s].in <= h[s].in /\ g[s].out <= h[s].out
    BY <2>4, <2>5, <2>6, <2>7, TokenFields
  <2> QED BY <2>8
<1> HIDE DEF P
<1>6. SUBSET D \subseteq P
  BY <1>4, <1>5, AllSubsets
<1> QED BY <1>1, <1>2, <1>3, <1>6 DEF P

(* A sum changes by as much as the one term that does. *)
LEMMA SumSwap ==
  ASSUME NEW D, IsFiniteSet(D), NEW fn \in [D -> Tokens], NEW gn \in [D -> Tokens],
         NEW c \in D, \A d \in D \ {c} : gn[d] = fn[d]
  PROVE  /\ Sum(fn) \in Tokens /\ Sum(gn) \in Tokens
         /\ Sum(gn).in + fn[c].in = Sum(fn).in + gn[c].in
         /\ Sum(gn).out + fn[c].out = Sum(fn).out + gn[c].out
<1>1. PICK g : Sum(fn) = g[D] /\ \A s \in SUBSET D : Folded(g, fn, s)
  BY FoldIs DEF Sum
<1>2. PICK h : Sum(gn) = h[D] /\ \A s \in SUBSET D : Folded(h, gn, s)
  BY FoldIs DEF Sum
<1>3. \A s \in SUBSET D : g[s] \in Tokens /\ h[s] \in Tokens
  BY <1>1, <1>2, FoldTokens
<1>4. fn[c] \in Tokens /\ gn[c] \in Tokens
  OBVIOUS
<1> DEFINE P == {s \in SUBSET D :
                   IF c \in s THEN /\ h[s].in + fn[c].in = g[s].in + gn[c].in
                                   /\ h[s].out + fn[c].out = g[s].out + gn[c].out
                   ELSE h[s] = g[s]}
<1>5. {} \in P
  BY <1>1, <1>2 DEF Folded
<1>6. ASSUME NEW s \in SUBSET D, s # {}, s \ {CHOOSE x \in s : TRUE} \in P PROVE s \in P
  <2> DEFINE x == CHOOSE x \in s : TRUE
  <2>1. x \in s
    BY <1>6
  <2>2. g[s] = Plus(fn[x], g[s \ {x}]) /\ h[s] = Plus(gn[x], h[s \ {x}])
    BY <1>1, <1>2, <1>6 DEF Folded
  <2>3. s \ {x} \in P /\ s \ {x} \in SUBSET D
    BY <1>6
  <2> HIDE DEF x
  <2>4. fn[x] \in Tokens /\ gn[x] \in Tokens
    BY <2>1
  <2>5. g[s \ {x}] \in Tokens /\ h[s \ {x}] \in Tokens
    BY <1>3, <2>3
  <2>6. CASE x = c
    <3>1. h[s \ {x}] = g[s \ {x}]
      BY <2>3, <2>6
    <3> QED BY <1>4, <2>1, <2>2, <2>4, <2>5, <2>6, <3>1 DEF Plus, Tokens
  <2>7. CASE x # c /\ c \in s
    <3>1. /\ h[s \ {x}].in + fn[c].in = g[s \ {x}].in + gn[c].in
          /\ h[s \ {x}].out + fn[c].out = g[s \ {x}].out + gn[c].out
      BY <2>3, <2>7
    <3>2. gn[x] = fn[x]
      BY <2>1, <2>7
    <3>3. /\ g[s].in = fn[x].in + g[s \ {x}].in /\ g[s].out = fn[x].out + g[s \ {x}].out
          /\ h[s].in = fn[x].in + h[s \ {x}].in /\ h[s].out = fn[x].out + h[s \ {x}].out
      BY <2>2, <2>4, <2>5, <3>2, TokenFields
    <3>4. /\ fn[c].in \in Nat /\ gn[c].in \in Nat /\ fn[x].in \in Nat
          /\ fn[c].out \in Nat /\ gn[c].out \in Nat /\ fn[x].out \in Nat
      BY <1>4, <2>4, TokenFields
    <3>5. /\ g[s \ {x}].in \in Nat /\ h[s \ {x}].in \in Nat
          /\ g[s \ {x}].out \in Nat /\ h[s \ {x}].out \in Nat
      BY <2>5, TokenFields
    <3>6. h[s].in + fn[c].in = g[s].in + gn[c].in
      <4> DEFINE p == h[s \ {x}].in
                 q == g[s \ {x}].in
      <4>1. p \in Nat /\ q \in Nat /\ p + fn[c].in = q + gn[c].in
        BY <3>1, <3>5
      <4>2. h[s].in = fn[x].in + p /\ g[s].in = fn[x].in + q
        BY <3>3
      <4> HIDE DEF p, q
      <4> QED BY <3>4, <4>1, <4>2, SharedTerm
    <3>7. h[s].out + fn[c].out = g[s].out + gn[c].out
      BY <3>1, <3>3, <3>4, <3>5, SharedTerm
    <3> QED BY <2>7, <3>6, <3>7
  <2>8. CASE c \notin s
    <3>1. h[s \ {x}] = g[s \ {x}] /\ gn[x] = fn[x]
      BY <2>1, <2>3, <2>8
    <3> QED BY <2>2, <2>8, <3>1
  <2> QED BY <2>6, <2>7, <2>8
<1> HIDE DEF P
<1>7. SUBSET D \subseteq P
  BY <1>5, <1>6, AllSubsets
<1> QED BY <1>1, <1>2, <1>3, <1>7 DEF P
-----------------------------------------------------------------------------
(* SpendIsCounted of a counter, of calls and of what was spent: the        *)
(* estimates in the counter that are not yet reconciled, beside the usage. *)
Debited(calls) ==
  [c \in Calls |-> IF calls[c].pc \in {"calling", "answered"} THEN calls[c].est ELSE None]

Counts(counter, calls, used) ==
  /\ Sum(counter).in >= used.in + Sum(Debited(calls)).in
  /\ Sum(counter).out >= used.out + Sum(Debited(calls)).out

(* Counts is the property, of any counter, calls and spending. *)
LEMMA CountsIs ==
  /\ SpendIsCounted <=> Counts(usage, call, spent)
  /\ SpendIsCounted' <=> Counts(usage', call', spent')
BY DEF SpendIsCounted, Counted, Outstanding, Counts, Debited, Sum

(* Days and calls are finite, so that sums over them are counts. *)
LEMMA Counters ==
  ASSUME NEW counter \in [Days -> Tokens], NEW calls \in [Calls -> CallState]
  PROVE  /\ IsFiniteSet(Days) /\ IsFiniteSet(Calls)
         /\ Debited(calls) \in [Calls -> Tokens]
         /\ Sum(counter) \in Tokens /\ Sum(Debited(calls)) \in Tokens
<1>1. IsFiniteSet(Days)
  <2>1. 1 \in Int /\ LastDay \in Int
    BY BudgetAssumption
  <2> QED BY <2>1, FS_Interval DEF Days
<1>2. Debited(calls) \in [Calls -> Tokens] /\ IsFiniteSet(Calls)
  <2>1. \A c \in Calls : calls[c].est \in Tokens
    BY DEF CallState
  <2> QED BY <2>1, NoTokens, BudgetAssumption DEF Debited
<1>3. \A t \in Tokens : t.in <= t.in /\ t.out <= t.out
  BY DEF Tokens
<1>4. Sum(counter) \in Tokens
  BY <1>1, <1>3, SumLess
<1>5. Sum(Debited(calls)) \in Tokens
  <2> DEFINE fn == Debited(calls)
  <2>1. fn \in [Calls -> Tokens]
    BY <1>2
  <2> HIDE DEF fn
  <2>2. Sum(fn) \in Tokens
    BY <1>2, <1>3, <2>1, SumLess
  <2> QED BY <2>2 DEF fn
<1> QED BY <1>1, <1>2, <1>4, <1>5

(* A call may end without a trace of its estimate being taken out. *)
LEMMA QuietCounts ==
  ASSUME NEW counter \in [Days -> Tokens], NEW used \in Tokens,
         NEW calls \in [Calls -> CallState], NEW next \in [Calls -> CallState],
         Counts(counter, calls, used),
         \A c \in Calls : Debited(next)[c] \in {Debited(calls)[c], None}
  PROVE  Counts(counter, next, used)
<1> DEFINE fn == Debited(next)
           gn == Debited(calls)
<1>1. IsFiniteSet(Calls) /\ fn \in [Calls -> Tokens] /\ gn \in [Calls -> Tokens] /\ Sum(counter) \in Tokens
  BY Counters
<1>2. \A c \in Calls : fn[c] \in {gn[c], None}
  OBVIOUS
<1>3. Sum(counter).in >= used.in + Sum(gn).in /\ Sum(counter).out >= used.out + Sum(gn).out
  BY DEF Counts
<1> HIDE DEF fn, gn
<1>4. \A c \in Calls : fn[c].in <= gn[c].in /\ fn[c].out <= gn[c].out
  BY <1>1, <1>2 DEF Tokens, None
<1>5. /\ Sum(fn) \in Tokens /\ Sum(gn) \in Tokens
      /\ Sum(fn).in <= Sum(gn).in /\ Sum(fn).out <= Sum(gn).out
  BY <1>1, <1>4, SumLess
<1>6. Sum(counter).in >= used.in + Sum(fn).in /\ Sum(counter).out >= used.out + Sum(fn).out
  BY <1>1, <1>3, <1>5 DEF Tokens
<1> QED BY <1>6 DEF Counts, fn

(* What a debit and a reconciliation do to both sides: the counter grows   *)
(* by plus on one day, the usage by real, and the call's estimate goes     *)
(* from one amount to another that is less by no more than they leave.     *)
LEMMA PlacesCount ==
  ASSUME NEW counter \in [Days -> Tokens], NEW used \in Tokens,
         NEW calls \in [Calls -> CallState], NEW next \in [Calls -> CallState],
         Counts(counter, calls, used),
         NEW day \in Days, NEW plus \in Tokens, NEW real \in Tokens,
         NEW c \in Calls, \A d \in Calls \ {c} : next[d] = calls[d],
         real.in + Debited(next)[c].in <= plus.in + Debited(calls)[c].in,
         real.out + Debited(next)[c].out <= plus.out + Debited(calls)[c].out
  PROVE  Counts([counter EXCEPT ![day] = Plus(@, plus)], next, Plus(used, real))
<1> DEFINE fn == Debited(calls)
           gn == Debited(next)
           after == [counter EXCEPT ![day] = Plus(@, plus)]
<1>1. /\ IsFiniteSet(Calls) /\ IsFiniteSet(Days)
      /\ fn \in [Calls -> Tokens] /\ gn \in [Calls -> Tokens]
  BY Counters
<1>2. \A d \in Calls \ {c} : gn[d] = fn[d]
  BY DEF Debited
<1>3. after \in [Days -> Tokens] /\ after[day] = Plus(counter[day], plus)
      /\ \A d \in Days \ {day} : after[d] = counter[d]
  BY TokensAdd
<1>4. Sum(counter).in >= used.in + Sum(fn).in /\ Sum(counter).out >= used.out + Sum(fn).out
  BY DEF Counts
<1>5. /\ real.in + gn[c].in <= plus.in + fn[c].in
      /\ real.out + gn[c].out <= plus.out + fn[c].out
  OBVIOUS
<1> HIDE DEF fn, gn, after
<1>6. /\ Sum(fn) \in Tokens /\ Sum(gn) \in Tokens
      /\ Sum(gn).in + fn[c].in = Sum(fn).in + gn[c].in
      /\ Sum(gn).out + fn[c].out = Sum(fn).out + gn[c].out
  BY <1>1, <1>2, SumSwap
<1>7. /\ Sum(counter) \in Tokens /\ Sum(after) \in Tokens
      /\ Sum(after).in + counter[day].in = Sum(counter).in + after[day].in
      /\ Sum(after).out + counter[day].out = Sum(counter).out + after[day].out
  BY <1>1, <1>3, SumSwap
<1>8. /\ after[day].in = counter[day].in + plus.in /\ after[day].out = counter[day].out + plus.out
      /\ Plus(used, real).in = used.in + real.in /\ Plus(used, real).out = used.out + real.out
  BY <1>3, TokenFields
<1>9. fn[c] \in Tokens /\ gn[c] \in Tokens /\ counter[day] \in Tokens
  BY <1>1
<1>10. Sum(after).in >= Plus(used, real).in + Sum(gn).in
  <2>1. /\ Sum(fn).in \in Nat /\ Sum(gn).in \in Nat /\ Sum(counter).in \in Nat /\ Sum(after).in \in Nat
        /\ fn[c].in \in Nat /\ gn[c].in \in Nat /\ counter[day].in \in Nat /\ plus.in \in Nat
        /\ real.in \in Nat /\ used.in \in Nat
    BY <1>6, <1>7, <1>9, TokenFields
  <2> QED BY <1>4, <1>5, <1>6, <1>7, <1>8, <2>1, Balance
<1>11. Sum(after).out >= Plus(used, real).out + Sum(gn).out
  <2>1. /\ Sum(fn).out \in Nat /\ Sum(gn).out \in Nat /\ Sum(counter).out \in Nat /\ Sum(after).out \in Nat
        /\ fn[c].out \in Nat /\ gn[c].out \in Nat /\ counter[day].out \in Nat /\ plus.out \in Nat
        /\ real.out \in Nat /\ used.out \in Nat
    BY <1>6, <1>7, <1>9, TokenFields
  <2> QED BY <1>4, <1>5, <1>6, <1>7, <1>8, <2>1, Balance
<1> QED BY <1>10, <1>11 DEF Counts, after, gn
-----------------------------------------------------------------------------
(* At first nothing is spent. *)
LEMMA CountsInit == Init => SpendIsCounted
<1> SUFFICES ASSUME Init PROVE Counts(usage, call, spent)
  BY CountsIs
<1>1. BudgetTypeOK
  BY TypesInit
<1> DEFINE fn == Debited(call)
<1>2. fn = [c \in Calls |-> None]
  BY DEF Init, BudgetInit, Debited, Idle
<1>3. IsFiniteSet(Calls) /\ fn \in [Calls -> Tokens] /\ Sum(usage) \in Tokens
  BY <1>1, Counters DEF BudgetTypeOK
<1> HIDE DEF fn
<1>4. PICK g : Sum(fn) = g[Calls] /\ \A s \in SUBSET Calls : Folded(g, fn, s)
  BY <1>3, FoldIs DEF Sum
<1>5. Sum(fn) = None
  <2> DEFINE P == {s \in SUBSET Calls : g[s] = None}
  <2>1. {} \in P
    BY <1>4 DEF Folded
  <2>2. ASSUME NEW s \in SUBSET Calls, s # {}, s \ {CHOOSE x \in s : TRUE} \in P PROVE s \in P
    <3> DEFINE x == CHOOSE x \in s : TRUE
    <3>1. x \in s /\ g[s \ {x}] = None
      BY <2>2
    <3>2. g[s] = Plus(fn[x], g[s \ {x}])
      BY <1>4, <2>2 DEF Folded
    <3> HIDE DEF x
    <3>3. g[s] = Plus(None, None)
      BY <1>2, <3>1, <3>2
    <3> QED BY <3>3 DEF Plus, None
  <2> HIDE DEF P
  <2>3. SUBSET Calls \subseteq P
    BY <1>3, <2>1, <2>2, AllSubsets
  <2> QED BY <1>4, <2>3 DEF P
<1>6. spent = None /\ Sum(usage).in \in Nat /\ Sum(usage).out \in Nat
  BY <1>3, TokenFields DEF Init, BudgetInit
<1> QED BY <1>5, <1>6 DEF Counts, fn, None

(* A debit moves an estimate from what calls hold to the counter. *)
LEMMA DebitCounts ==
  ASSUME BudgetTypeOK, SpendIsCounted, NEW c \in Calls, Debit(c)
  PROVE  SpendIsCounted'
<1>1. BudgetTypeOK'
  BY CallTypes DEF Call
<1>2. /\ usage \in [Days -> Tokens] /\ call \in [Calls -> CallState] /\ call' \in [Calls -> CallState]
      /\ spent \in Tokens /\ spent' = spent
  BY <1>1 DEF BudgetTypeOK, Debit
<1>3. call[c].day \in Days /\ call[c].est \in Tokens
  BY <1>2 DEF CallState
<1>4. call' = [call EXCEPT ![c].pc = "calling"] /\ call[c].pc = "debiting"
  BY DEF Debit, SetPc
<1>5. Debited(call)[c] = None /\ Debited(call')[c] = call[c].est
  BY <1>2, <1>4 DEF Debited, CallState
<1>6. Plus(spent, None) = spent
  BY <1>2 DEF Plus, None, Tokens
<1>7. /\ None.in + Debited(call')[c].in <= call[c].est.in + Debited(call)[c].in
      /\ None.out + Debited(call')[c].out <= call[c].est.out + Debited(call)[c].out
  BY <1>3, <1>5 DEF Tokens, None
<1>8. \A d \in Calls \ {c} : call'[d] = call[d]
  BY <1>2, <1>4
<1>9. Counts([usage EXCEPT ![call[c].day] = Plus(@, call[c].est)], call', Plus(spent, None))
  <2> DEFINE next == call'
             day == call[c].day
             est == call[c].est
  <2>1. Counts(usage, call, spent)
    BY CountsIs
  <2>2. next \in [Calls -> CallState] /\ day \in Days /\ est \in Tokens /\ None \in Tokens
    BY <1>2, <1>3, NoTokens
  <2>3. /\ None.in + Debited(next)[c].in <= est.in + Debited(call)[c].in
        /\ None.out + Debited(next)[c].out <= est.out + Debited(call)[c].out
    BY <1>7
  <2>4. \A d \in Calls \ {c} : next[d] = call[d]
    BY <1>8
  <2> HIDE DEF next, day, est
  <2>5. Counts([usage EXCEPT ![day] = Plus(@, est)], next, Plus(spent, None))
    BY <1>2, <2>1, <2>2, <2>3, <2>4, PlacesCount
  <2> QED BY <2>5 DEF next, day, est
<1> QED BY <1>2, <1>6, <1>9, CountsIs DEF Debit

(* A reconciliation puts what Gemini reported in the place of the          *)
(* estimate.                                                               *)
LEMMA RecordCounts ==
  ASSUME BudgetTypeOK, SpendIsCounted, NEW c \in Calls, Record(c)
  PROVE  SpendIsCounted'
<1>1. BudgetTypeOK'
  BY CallTypes DEF Call
<1>2. /\ usage \in [Days -> Tokens] /\ call \in [Calls -> CallState] /\ call' \in [Calls -> CallState]
      /\ spent \in Tokens
  BY <1>1 DEF BudgetTypeOK
<1>3. call[c].day \in Days /\ call[c].est \in Tokens /\ call[c].actual \in Tokens /\ Delta(c) \in Tokens
  BY <1>2, DeltaTokens DEF CallState
<1>4. call' = [call EXCEPT ![c].pc = "returned"] /\ call[c].pc = "answered"
  BY DEF Record, SetPc
<1>5. Debited(call)[c] = call[c].est /\ Debited(call')[c] = None
  BY <1>2, <1>4 DEF Debited, CallState
<1>6. /\ call[c].actual.in <= Delta(c).in + call[c].est.in
      /\ call[c].actual.out <= Delta(c).out + call[c].est.out
  BY <1>3 DEF Delta, Over, Tokens
<1>7. /\ call[c].actual.in + Debited(call')[c].in <= Delta(c).in + Debited(call)[c].in
      /\ call[c].actual.out + Debited(call')[c].out <= Delta(c).out + Debited(call)[c].out
  BY <1>3, <1>5, <1>6 DEF Tokens, None
<1>8. \A d \in Calls \ {c} : call'[d] = call[d]
  BY <1>2, <1>4
<1>9. Counts([usage EXCEPT ![call[c].day] = Plus(@, Delta(c))], call', Plus(spent, call[c].actual))
  <2> DEFINE next == call'
             day == call[c].day
             actual == call[c].actual
             delta == Delta(c)
  <2>1. Counts(usage, call, spent)
    BY CountsIs
  <2>2. next \in [Calls -> CallState] /\ day \in Days /\ actual \in Tokens /\ delta \in Tokens
    BY <1>2, <1>3
  <2>3. /\ actual.in + Debited(next)[c].in <= delta.in + Debited(call)[c].in
        /\ actual.out + Debited(next)[c].out <= delta.out + Debited(call)[c].out
    BY <1>7
  <2>4. \A d \in Calls \ {c} : next[d] = call[d]
    BY <1>8
  <2> HIDE DEF next, day, actual, delta
  <2>5. Counts([usage EXCEPT ![day] = Plus(@, delta)], next, Plus(spent, actual))
    BY <1>2, <2>1, <2>2, <2>3, <2>4, PlacesCount
  <2> QED BY <2>5 DEF next, day, actual, delta
<1> QED BY <1>9, CountsIs DEF Record

(* No step spends without counting, in any number of processes. *)
LEMMA CountsNext == BudgetTypeOK /\ SpendIsCounted /\ [Next]_vars => SpendIsCounted'
<1> SUFFICES ASSUME BudgetTypeOK, SpendIsCounted, BudgetStep PROVE SpendIsCounted'
  BY NextIsBudgetStep
<1>1. BudgetTypeOK'
  BY TypesNext
<1>2. /\ usage \in [Days -> Tokens] /\ spent \in Tokens
      /\ call \in [Calls -> CallState] /\ call' \in [Calls -> CallState]
  BY <1>1 DEF BudgetTypeOK
<1>3. ASSUME UNCHANGED <<usage, spent>>,
             \A c \in Calls : Debited(call')[c] \in {Debited(call)[c], None}
      PROVE  SpendIsCounted'
  BY <1>2, <1>3, CountsIs, QuietCounts
<1>4. ASSUME NEW c \in Calls, Check(c) \/ CallFails(c) \/ \E r : Answer(c, r) PROVE SpendIsCounted'
  <2>1. UNCHANGED <<usage, spent>> /\ \A d \in Calls : Debited(call')[d] \in {Debited(call)[d], None}
    BY <1>2, <1>4 DEF Check, CallFails, Answer, SetPc, Debited, CallState
  <2> QED BY <1>3, <2>1
<1>5. ASSUME NEW c \in Calls, Reset(c) \/ \E est \in Tokens : Guard(c, est) PROVE SpendIsCounted'
  <2>1. UNCHANGED <<usage, spent>> /\ \A d \in Calls : Debited(call')[d] \in {Debited(call)[d], None}
    BY <1>2, <1>5 DEF Reset, Guard, Idle, Debited, InProgress
  <2> QED BY <1>3, <2>1
<1>6. CASE Midnight \/ UNCHANGED budgetVars
  BY <1>3, <1>6 DEF Midnight, budgetVars, Debited
<1>7. ASSUME NEW lock \in Locks, Kill(lock) PROVE SpendIsCounted'
  <2>1. UNCHANGED <<usage, spent>> /\ \A d \in Calls : Debited(call')[d] \in {Debited(call)[d], None}
    BY <1>2, <1>7 DEF Kill, Idle, Debited
  <2> QED BY <1>3, <2>1
<1> QED BY <1>4, <1>5, <1>6, <1>7, DebitCounts, RecordCounts DEF BudgetStep, Call

(* Whatever Gemini has reported, and the estimates of the calls that have  *)
(* not been reconciled, are in the counter: for every number of calls and  *)
(* of processes, with the lock of one process or of several, and through   *)
(* the death of a process.                                                 *)
THEOREM SpendCounted == Spec => []SpendIsCounted
<1>1. BudgetTypeOK /\ SpendIsCounted /\ [Next]_vars => (BudgetTypeOK /\ SpendIsCounted)'
  BY CountsNext, TypesNext, NextIsBudgetStep
<1> QED BY <1>1, CountsInit, TypesInit, PTL DEF Spec
=============================================================================
