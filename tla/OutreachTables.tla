--------------------------- MODULE OutreachTables ---------------------------
(***************************************************************************)
(* The shared tables of the outreach engine, and the statements that       *)
(* CampaignMessageRepository issues against campaign_messages              *)
(* (src/repositories/campaign_message_repo.py).  Every operator is one     *)
(* PostgREST call: it takes the table and returns the table after the      *)
(* UPDATE or INSERT, with the WHERE clause and the partial UNIQUE index of *)
(* the statement.  Which process issues the call, and when, is the subject *)
(* of DispatchTick and InstantlyWebhooks.                                  *)
(*                                                                         *)
(* Time is abstracted to what the statements compare: a row is "due" once  *)
(* scheduled_at <= now, and a claim is "stale" once dispatched_at is older *)
(* than DISPATCH_CLAIM_TIMEOUT_MIN.  Rows of status "absent" do not exist. *)
(***************************************************************************)
EXTENDS Naturals, FiniteSets

CONSTANTS
  Leads,        \* leads.unique_key; a lead has one e-mail address
  Sequences,    \* sequences.id
  MsgIds,       \* campaign_messages.id
  Pids,         \* provider message ids, one for every mail Instantly sends
  NULL,         \* SQL NULL
  NumSteps,     \* steps of a sequence, step_index 0 .. NumSteps - 1
  Threaded,     \* step indexes with thread_with_prior
  ReplyOnly,    \* step indexes with branch_condition = 'replied'
  Enrolment,    \* the first-step rows: campaign_messages.id -> <<lead, seq>>
  FaultKinds,   \* which faults the environment may inject, named where they occur
  MaxFaults     \* bound: how many faults a behaviour may contain

ASSUME TablesAssumption ==
  /\ NULL \notin Leads \cup Sequences \cup MsgIds \cup Pids
  /\ MsgIds \cap Pids = {}
  /\ NumSteps \in Nat \ {0}
  /\ MaxFaults \in Nat
  /\ DOMAIN Enrolment \subseteq MsgIds
  /\ \A m \in DOMAIN Enrolment : Enrolment[m] \in Leads \X Sequences
  /\ \A m, n \in DOMAIN Enrolment : Enrolment[m] = Enrolment[n] => m = n

VARIABLES
  msgs,          \* public.campaign_messages
  suppressions,  \* public.suppressions, pairs <<lead, channel>>
  mail,          \* external: the mails Instantly accepted, by provider id
  faults         \* faults injected so far

tables == <<msgs, suppressions, mail, faults>>

Steps == 0 .. (NumSteps - 1)

Status == {"absent", "pending", "dispatching", "sent", "replied", "bounced",
           "unsubscribed", "cancelled", "failed"}

Row == [lead : Leads \cup {NULL}, seq : Sequences \cup {NULL}, step : Steps,
        status : Status, pid : Pids \cup {NULL}, inReply : Pids \cup {NULL},
        sched : {"later", "due"}, stale : BOOLEAN]

Mail == [body : MsgIds, tag : MsgIds]   \* whose text, whose lds_message_id
ASSUME MailAssumption == NULL \notin Mail

Channels == {"email", "all"}

(* A fault of kind k happens in this step. *)
Fault(k) == k \in FaultKinds /\ faults < MaxFaults /\ faults' = faults + 1

NewRow(lead, seq, step, inReply, sched) ==
  [lead |-> lead, seq |-> seq, step |-> step, status |-> "pending",
   pid |-> NULL, inReply |-> inReply, sched |-> sched, stale |-> FALSE]

NoRow == [NewRow(NULL, NULL, 0, NULL, "later") EXCEPT !.status = "absent"]

(* Mutants: the UNIQUE index is not partial, cancelled rows count; only    *)
(* rows that wait are in it.                                               *)
OccupiedByAny(t, lead, seq, step) ==
  \E m \in MsgIds : /\ t[m].status # "absent"
                    /\ t[m].lead = lead /\ t[m].seq = seq /\ t[m].step = step

OccupiedWhilePending(t, lead, seq, step) ==
  \E m \in MsgIds : /\ t[m].status = "pending"
                    /\ t[m].lead = lead /\ t[m].seq = seq /\ t[m].step = step

(* Another row that the partial UNIQUE index counts has this key. *)
Occupied(t, lead, seq, step) ==
  \E m \in MsgIds : /\ t[m].status \notin {"absent", "cancelled"}
                    /\ t[m].lead = lead /\ t[m].seq = seq /\ t[m].step = step

SetStatus(t, S, st) ==
  [m \in MsgIds |-> IF m \in S THEN [t[m] EXCEPT !.status = st] ELSE t[m]]

(* The rows the webhook statements select by provider_message_id. *)
WithPid(t, p, from) == {m \in MsgIds : t[m].pid = p /\ t[m].status \in from}

-----------------------------------------------------------------------------
(* Dispatch-queue statements. *)

Due(t) == {m \in MsgIds : t[m].status = "pending" /\ t[m].sched = "due"}

(* Mutant: the UPDATE has no status predicate. *)
AnyClaimable(t, ids) == ids

(* The rows the conditional UPDATE matches and returns. *)
Claimable(t, ids) == {m \in ids : t[m].status = "pending"}

ClaimBatch(t, ids) ==
  [m \in MsgIds |-> IF m \in Claimable(t, ids)
                    THEN [t[m] EXCEPT !.status = "dispatching", !.stale = FALSE]
                    ELSE t[m]]

(* Mutants: the cutoff is left out; a timeout of 0 turns the sweep off. *)
SweepEveryClaim(t) ==
  [m \in MsgIds |-> IF t[m].status = "dispatching"
                    THEN [t[m] EXCEPT !.status = "pending", !.stale = FALSE]
                    ELSE t[m]]
SweepNoClaim(t) == t

SweepStaleClaims(t) ==
  [m \in MsgIds |-> IF t[m].status = "dispatching" /\ t[m].stale
                    THEN [t[m] EXCEPT !.status = "pending", !.stale = FALSE]
                    ELSE t[m]]

(* _release_claim: "pending" releases carry a later scheduled_at. *)
ReleaseClaim(t, m, st) ==
  IF t[m].status = "dispatching"
  THEN [t EXCEPT ![m] = [t[m] EXCEPT !.status = st,
                             !.sched = IF st = "pending" THEN "later" ELSE t[m].sched]]
  ELSE t

MarkSendFailed(t, m) ==
  SetStatus(t, {m} \cap {x \in MsgIds : t[x].status = "dispatching"}, "bounced")

-----------------------------------------------------------------------------
(* Webhook-driven statements. *)

(* Mutants: no IS NULL guard on the provider id; a row must be pending. *)
MarkSentAgain(t, m, p) ==
  IF t[m].status = "absent" THEN t
  ELSE [t EXCEPT ![m] = [t[m] EXCEPT !.status = "sent", !.pid = p]]
MarkSentIfPending(t, m, p) ==
  IF t[m].status # "pending" THEN t
  ELSE [t EXCEPT ![m] = [t[m] EXCEPT !.status = "sent", !.pid = p]]

(* First hit wins on provider_message_id; the status is not looked at, but *)
(* a cancelled row cannot re-enter the UNIQUE index over a live one.       *)
MarkSent(t, m, p) ==
  IF /\ t[m].status # "absent"
     /\ t[m].pid = NULL
     /\ ~ (t[m].status = "cancelled" /\ Occupied(t, t[m].lead, t[m].seq, t[m].step))
  THEN [t EXCEPT ![m] = [t[m] EXCEPT !.status = "sent", !.pid = p]]
  ELSE t

MarkBounced(t, p) == SetStatus(t, WithPid(t, p, {"pending", "sent"}), "bounced")

MarkUnsubscribed(t, p) ==
  SetStatus(t, WithPid(t, p, {"pending", "sent", "replied"}), "unsubscribed")

MarkReplied(t, p) == SetStatus(t, WithPid(t, p, {"sent"}), "replied")

(* Mutant: the cancellation has no status predicate. *)
CancelAny(t, lead, seqs) ==
  SetStatus(t, {m \in MsgIds : t[m].lead = lead /\ t[m].seq \in seqs}, "cancelled")

CancelPending(t, lead, seqs) ==
  SetStatus(t, {m \in MsgIds : /\ t[m].status = "pending"
                               /\ t[m].lead = lead /\ t[m].seq \in seqs}, "cancelled")

(* The INSERT gets a fresh id; 23505 on the UNIQUE index leaves the table. *)
InsertNextStep(t, lead, seq, step, inReply) ==
  IF Occupied(t, lead, seq, step)
  THEN t
  ELSE LET new == CHOOSE m \in MsgIds : t[m].status = "absent"
       IN  [t EXCEPT ![new] = NewRow(lead, seq, step, inReply, "later")]

(* Bound: the table has room for one more row. *)
HasRoom(t) == \E m \in MsgIds : t[m].status = "absent"

-----------------------------------------------------------------------------
(* Mutant: a suppression on channel all does not count for the channel. *)
SuppressedExactlyOn(channel) == {l \in Leads : <<l, channel>> \in suppressions}

(* filter_suppressed with its _channel_predicate. *)
SuppressedOn(channel) ==
  {l \in Leads : <<l, channel>> \in suppressions \/ <<l, "all">> \in suppressions}

LeadOf(m) == msgs[m].lead

TablesInit ==
  /\ msgs = [m \in MsgIds |-> IF m \in DOMAIN Enrolment
                              THEN NewRow(Enrolment[m][1], Enrolment[m][2], 0, NULL, "due")
                              ELSE NoRow]
  /\ suppressions = {}
  /\ mail = [p \in Pids |-> NULL]
  /\ faults = 0

TablesTypeOK ==
  /\ msgs \in [MsgIds -> Row]
  /\ suppressions \subseteq Leads \X Channels
  /\ mail \in [Pids -> Mail \cup {NULL}]
  /\ faults \in 0 .. MaxFaults
=============================================================================
