----------------------------- MODULE GeminiBudget -----------------------------
(***************************************************************************)
(* gemini_budget.py and the guarded calls of gemini_call.py: a call is     *)
(* debited with its estimate before it is made and reconciled with its     *)
(* real usage afterwards.  The counter lives in a SQLite file that the     *)
(* processes of one machine share; _LOCK is a lock of one process, held    *)
(* from the SELECT to the UPDATE, each of which commits by itself.  The    *)
(* date is read before the lock is taken.                                  *)
(***************************************************************************)
EXTENDS Naturals, FiniteSets, Functions

CONSTANTS
  Calls,      \* the threads and tasks that call Gemini
  Locks,      \* one _LOCK for each process
  LockOf,     \* the lock of a call's process
  LastDay,    \* the bound on midnights
  Ceiling,    \* GEMINI_DAILY_TOKEN_CEILING
  Amounts,    \* token counts of one side of a call
  NULL

Days == 1..LastDay

ASSUME BudgetAssumption ==
  /\ IsFiniteSet(Calls) /\ LockOf \in [Calls -> Locks]
  /\ LastDay \in Nat \ {0} /\ Ceiling \in Nat /\ Amounts \subseteq Nat
  /\ NULL \notin Calls

(* One process, which is what the container starts; the script             *)
(* run_full_enrichment.py, run on the same machine, is a second one.       *)
OneProcess == \A c, d \in Calls : LockOf[c] = LockOf[d]

VARIABLES
  today,      \* the UTC date
  usage,      \* usage_daily: input_tokens and output_tokens by date
  holder,     \* of each lock
  call,       \* the calls in progress
  overrun,    \* history: what reconciliations have added, by date
  spent,      \* history: the real usage of the calls that were reconciled
  killed      \* a process has died: one, at most

budgetVars == <<today, usage, holder, call, overrun, spent, killed>>

Tokens == [in : Nat, out : Nat]
None == [in |-> 0, out |-> 0]
Total(t) == t.in + t.out
Plus(t, u) == [in |-> t.in + u.in, out |-> t.out + u.out]
Over(a, e) == IF a > e THEN a - e ELSE 0

(* day is the date the call has read last; actual is what Gemini reported. *)
CallState ==
  [pc : {"idle", "checking", "debiting", "calling", "answered",
         "returned", "denied", "quota", "raised"},
   est : Tokens, actual : Tokens, day : Days]

Idle == [pc |-> "idle", est |-> None, actual |-> None, day |-> 1]

InProgress(c) == call[c].pc \in {"checking", "debiting", "calling", "answered"}

SetPc(c, pc) == call' = [call EXCEPT ![c].pc = pc]
-----------------------------------------------------------------------------
(* check_budget. *)
Guard(c, est) ==
  /\ ~InProgress(c)
  /\ call' = [call EXCEPT ![c] = [pc |-> "checking", est |-> est, actual |-> None, day |-> today]]
  /\ UNCHANGED <<today, usage, holder, overrun, spent, killed>>

(* Mutants: a check that leaves the lock before the debit; a denial that   *)
(* keeps it; a debit of the input only; a reconciliation that is not       *)
(* clamped, which gave tokens back.                                        *)
CheckUnlocked(c) ==
  /\ call[c].pc = "checking" /\ holder[LockOf[c]] = NULL
  /\ SetPc(c, IF Total(usage[call[c].day]) + Total(call[c].est) > Ceiling THEN "denied" ELSE "debiting")
  /\ UNCHANGED <<today, usage, holder, overrun, spent, killed>>

CheckHolding(c) ==
  /\ call[c].pc = "checking" /\ holder[LockOf[c]] = NULL
  /\ SetPc(c, IF Total(usage[call[c].day]) + Total(call[c].est) > Ceiling THEN "denied" ELSE "debiting")
  /\ holder' = [holder EXCEPT ![LockOf[c]] = c]
  /\ UNCHANGED <<today, usage, overrun, spent, killed>>

Check(c) ==
  /\ call[c].pc = "checking" /\ holder[LockOf[c]] = NULL
  /\ IF Total(usage[call[c].day]) + Total(call[c].est) > Ceiling
     THEN SetPc(c, "denied") /\ UNCHANGED holder
     ELSE SetPc(c, "debiting") /\ holder' = [holder EXCEPT ![LockOf[c]] = c]
  /\ UNCHANGED <<today, usage, overrun, spent, killed>>

DebitInput(c) ==
  /\ call[c].pc = "debiting"
  /\ usage' = [usage EXCEPT ![call[c].day].in = @ + call[c].est.in]
  /\ holder' = [holder EXCEPT ![LockOf[c]] = NULL]
  /\ SetPc(c, "calling")
  /\ UNCHANGED <<today, overrun, spent, killed>>

Debit(c) ==
  /\ call[c].pc = "debiting"
  /\ usage' = [usage EXCEPT ![call[c].day] = Plus(@, call[c].est)]
  /\ holder' = [holder EXCEPT ![LockOf[c]] = NULL]
  /\ SetPc(c, "calling")
  /\ UNCHANGED <<today, overrun, spent, killed>>

(* _extract_usage: a count that is missing or zero is taken as estimated;  *)
(* record_usage reads the date again.                                      *)
Extracted(reported, est) ==
  [in |-> IF reported.in = 0 THEN est.in ELSE reported.in,
   out |-> IF reported.out = 0 THEN est.out ELSE reported.out]

Answer(c, reported) ==
  /\ call[c].pc = "calling"
  /\ call' = [call EXCEPT ![c].pc = "answered", ![c].day = today,
                          ![c].actual = Extracted(reported, call[c].est)]
  /\ UNCHANGED <<today, usage, holder, overrun, spent, killed>>

DeltaUnclamped(c) ==
  [in |-> call[c].actual.in - call[c].est.in, out |-> call[c].actual.out - call[c].est.out]

(* record_usage: each side of the delta is clamped at zero. *)
Delta(c) ==
  [in |-> Over(call[c].actual.in, call[c].est.in),
   out |-> Over(call[c].actual.out, call[c].est.out)]

Record(c) ==
  /\ call[c].pc = "answered" /\ holder[LockOf[c]] = NULL
  /\ usage' = [usage EXCEPT ![call[c].day] = Plus(@, Delta(c))]
  /\ overrun' = [overrun EXCEPT ![call[c].day] = @ + Total(Delta(c))]
  /\ spent' = Plus(spent, call[c].actual)
  /\ SetPc(c, "returned")
  /\ UNCHANGED <<today, holder, killed>>

(* The SDK raises: a 429 becomes AIQuotaExceededError.  The estimate stays. *)
CallFails(c) ==
  /\ call[c].pc = "calling"
  /\ SetPc(c, "quota") \/ SetPc(c, "raised")
  /\ UNCHANGED <<today, usage, holder, overrun, spent, killed>>

Call(c) ==
  \/ Check(c) \/ Debit(c) \/ Record(c) \/ CallFails(c)
  \/ \E reported \in [in : Amounts, out : Amounts] :
       reported.out <= call[c].est.out /\ Answer(c, reported)   \* max_output_tokens
-----------------------------------------------------------------------------
Midnight ==
  /\ today < LastDay /\ today' = today + 1
  /\ UNCHANGED <<usage, holder, call, overrun, spent, killed>>

(* A process dies, with its calls and its lock; the file stays. *)
Kill(lock) ==
  /\ ~killed /\ killed' = TRUE
  /\ call' = [c \in Calls |-> IF LockOf[c] = lock THEN Idle ELSE call[c]]
  /\ holder' = [holder EXCEPT ![lock] = NULL]
  /\ UNCHANGED <<today, usage, overrun, spent>>

BudgetInit ==
  /\ today = 1
  /\ usage = [d \in Days |-> None]
  /\ holder = [l \in Locks |-> NULL]
  /\ call = [c \in Calls |-> Idle]
  /\ overrun = [d \in Days |-> 0]
  /\ spent = None
  /\ killed = FALSE
-----------------------------------------------------------------------------
BudgetTypeOK ==
  /\ today \in Days
  /\ usage \in [Days -> Tokens]
  /\ holder \in [Locks -> Calls \cup {NULL}]
  /\ call \in [Calls -> CallState]
  /\ overrun \in [Days -> Nat]
  /\ spent \in Tokens
  /\ killed \in BOOLEAN

(* The estimates debited on a date never exceed the ceiling, whatever was  *)
(* called at once and across midnight: what a day counts beyond it are the *)
(* input tokens that estimates have missed.                                *)
BudgetHeld == \A d \in Days : Total(usage[d]) <= Ceiling + overrun[d]

(* Nothing that Gemini reported escapes the counter, and the estimates of  *)
(* the calls in progress are in it as well.                               *)
Counted == FoldFunction(Plus, None, usage)

Outstanding ==
  FoldFunction(Plus, None,
    [c \in Calls |-> IF call[c].pc \in {"calling", "answered"} THEN call[c].est ELSE None])

SpendIsCounted ==
  /\ Counted.in >= spent.in + Outstanding.in
  /\ Counted.out >= spent.out + Outstanding.out
=============================================================================
