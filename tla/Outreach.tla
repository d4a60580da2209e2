------------------------------ MODULE Outreach ------------------------------
(***************************************************************************)
(* The outreach engine: overlapping dispatch ticks, overlapping webhook    *)
(* tasks and the webhook sweeper over the tables they share, with Instantly *)
(* in between.                                                             *)
(***************************************************************************)
EXTENDS DispatchTick, InstantlyWebhooks

vars == <<tables, tick, hooks>>

Init == TablesInit /\ TickInit /\ HooksInit

Dispatch(t) == (TickStep(t) \/ TickFault(t)) /\ UNCHANGED hooks

(* Time passes.  A claim gets stale only after the tick that took it has   *)
(* ended: a tick lives at most 60 s, the claim timeout is 15 min.  That    *)
(* Instantly takes longer than the timeout to get the email_sent of an     *)
(* accepted mail processed is the fault "late".                            *)
BecomeDue(m) ==
  /\ msgs[m].status = "pending" /\ msgs[m].sched = "later"
  /\ msgs' = [msgs EXCEPT ![m].sched = "due"]
  /\ UNCHANGED faults

AwaitsSent(m) == \E p \in Pids : mail[p] # NULL /\ mail[p].tag = m /\ ~ Done(Ev("sent", p))

BecomeStale(m) ==
  /\ msgs[m].status = "dispatching" /\ ~ msgs[m].stale
  /\ \A t \in Ticks : m \notin Held(t)
  /\ msgs' = [msgs EXCEPT ![m].stale = TRUE]
  /\ IF AwaitsSent(m) THEN Fault("late") ELSE UNCHANGED faults

Elapse(m) == (BecomeDue(m) \/ BecomeStale(m)) /\ UNCHANGED <<suppressions, mail, tick, hooks>>

Webhook(h) == (HandlerStep(h) \/ HandlerCrash(h)) /\ UNCHANGED tick

Ingress ==
  /\ \E e \in Event : ProviderEvent(e) \/ DeliverFails(e) \/ \E h \in Handlers : Deliver(h, e)
  /\ UNCHANGED tick

Grace(e) == GraceEnds(e) /\ UNCHANGED tick

Sweep == (SweepSelect \/ SweepNext) /\ UNCHANGED tick

Next ==
  \/ \E t \in Ticks : Dispatch(t)
  \/ \E m \in MsgIds : Elapse(m)
  \/ \E h \in Processes : Webhook(h)
  \/ Ingress
  \/ \E e \in Event : Grace(e)
  \/ Sweep

Spec == Init /\ [][Next]_vars

(***************************************************************************)
(* Fairness.  Render starts a tick every few minutes and a tick that is    *)
(* not killed runs on; time passes; a background task and the sweeper run  *)
(* on; Instantly consumes a POST and redelivers an event until it gets a   *)
(* 200.  Nothing is assumed of recipients, or of faults.                   *)
(***************************************************************************)
Fairness ==
  /\ \A t \in Ticks : WF_vars(TickStep(t) /\ UNCHANGED hooks)
  /\ \A m \in MsgIds : WF_vars(Elapse(m))
  /\ \A h \in Processes : WF_vars(HandlerStep(h) /\ UNCHANGED tick)
  /\ WF_vars(Sweep)
  /\ \A e \in Event : /\ WF_vars(Grace(e))
                      /\ WF_vars(e.type = "sent" /\ ProviderEvent(e) /\ UNCHANGED tick)
                      /\ WF_vars(\E h \in Handlers : /\ e \notin acked /\ Deliver(h, e)
                                                     /\ UNCHANGED tick)

FairSpec == Spec /\ Fairness
-----------------------------------------------------------------------------
(* Every variable has its type. *)
TypeOK == TablesTypeOK /\ TickTypeOK /\ HooksTypeOK

(* claim_due_batch and the stale-claim sweep: no two overlapping ticks act *)
(* on the same row, so no row is in two POSTs at once.                     *)
ClaimExclusive ==
  \A t, u \in Ticks : t # u => Held(t) \cap Held(u) = {}

(* No double dispatch: as long as Instantly reports a mail before the      *)
(* claim on its row times out, the text of a row is mailed once, whatever  *)
(* ticks and handlers crash or overlap and whatever is delivered again.    *)
MailedOnce ==
  \A p, q \in Pids : p # q /\ mail[p] # NULL /\ mail[q] # NULL => mail[p].body # mail[q].body

(* A row whose mail was confirmed (it has a provider id) has left the      *)
(* dispatch queue for good: no sweep, release or cancel touches it.        *)
ConfirmedNeverQueued ==
  \A m \in MsgIds : msgs[m].pid # NULL =>
    msgs[m].status \in {"sent", "replied", "bounced", "unsubscribed"}

(* A provider id on a row is the id of a mail that carried this row's      *)
(* lds_message_id, so events find the row that was tagged and no other.    *)
ProviderIdTraced ==
  \A m \in MsgIds : msgs[m].pid # NULL =>
    mail[msgs[m].pid] # NULL /\ mail[msgs[m].pid].tag = m

(* First hit wins: whatever is replayed, mark_sent never replaces a        *)
(* provider id, and what the webhooks made terminal stays so: opt-outs and *)
(* reported bounces are final, a reply gives way only to an opt-out.       *)
WebhooksAreFinal ==
  [][\A m \in MsgIds : msgs[m].pid # NULL =>
       /\ msgs'[m].pid = msgs[m].pid
       /\ msgs[m].status \in {"unsubscribed", "bounced"} => msgs'[m].status = msgs[m].status
       /\ msgs[m].status = "replied" => msgs'[m].status \in {"replied", "unsubscribed"}]_vars

(* A follow-up row exists only after Instantly reported on a mail of the   *)
(* step before it, in the same sequence and for the same lead.             *)
FollowUpHasCause ==
  \A m \in MsgIds : msgs[m].status # "absent" /\ msgs[m].step > 0 =>
    \E p \in Pids :
      /\ mail[p] # NULL
      /\ \E e \in Event : e.pid = p /\ Recorded(e)
      /\ LET prior == msgs[mail[p].tag] IN
           <<prior.lead, prior.seq, prior.step + 1>> = <<msgs[m].lead, msgs[m].seq, msgs[m].step>>

(* The recheck of the tick: a lead that was suppressed, on channel email   *)
(* or on all, when its row was claimed is not in the POST.                 *)
SuppressedNotPosted ==
  \A t \in Ticks : tick[t].pc = "posted" =>
    \A m \in tick[t].built : LeadOf(m) \notin tick[t].supp0

(* A processed opt-out or hard bounce has its suppression, and so has the  *)
(* recipient once as many soft bounces as the threshold are processed.     *)
SuppressionFollows ==
  \A e \in Event : webhook_events[e] = "processed" =>
    /\ e.type = "unsubscribed" => <<Recipient(e), "all">> \in suppressions
    /\ e.type = "bounced_hard" => <<Recipient(e), "email">> \in suppressions
    /\ (/\ e.type = "bounced_soft"
        /\ SoftStrikes(Recipient(e)) >= SoftThreshold
        /\ \A x \in Event : x.type = "bounced_soft" => webhook_events[x] \in {"none", "processed"})
         => <<Recipient(e), "email">> \in suppressions

(* "The no_reply branch behaves correctly": once a reply is processed, no  *)
(* step after the answered one waits in that sequence, but a reply-only.   *)
ReplyProcessed(p) == "replied" \in EventTypes /\ Done(Ev("replied", p))

Successor(m, p) ==
  LET answered == msgs[mail[p].tag] IN
  /\ msgs[m].lead = answered.lead /\ msgs[m].seq = answered.seq
  /\ msgs[m].step > answered.step

ReplyStopsSequence ==
  \A p \in Pids : ReplyProcessed(p) =>
    ~ \E m \in MsgIds :
        msgs[m].status = "pending" /\ msgs[m].step \notin ReplyOnly /\ Successor(m, p)

(* The only reply of its sequence so far, once processed and with no task  *)
(* or sweeper at work on it, has put a live step of the reply-only branch  *)
(* after the step it answers: the handler cancels before it advances, and  *)
(* a second run of the same event replaces the step that it cancels.       *)
OnlyReply(p) ==
  \A q \in Pids : Recorded(Ev("replied", q)) =>
    LET other == msgs[mail[q].tag]  answered == msgs[mail[p].tag]
    IN  q = p \/ <<other.lead, other.seq>> # <<answered.lead, answered.seq>>

ReplyWalksBranch ==
  \A p \in Pids :
    /\ ReplyProcessed(p) /\ msgs[mail[p].tag].step + 1 \in ReplyOnly
    /\ \A h \in Processes : handler[h].ev # Ev("replied", p)
    /\ OnlyReply(p)
    => \E m \in MsgIds : /\ msgs[m].status \notin {"absent", "cancelled"}
                         /\ msgs[m].step \in ReplyOnly /\ Successor(m, p)

(* An email_sent that was stamped processed has confirmed its row. *)
ProcessedMeansApplied ==
  \A p \in Pids : webhook_events[Ev("sent", p)] = "processed" =>
    msgs[mail[p].tag].pid # NULL

(* The lds_message_id of a mail is the id of the row whose text it has. *)
RoundTripExact == \A p \in Pids : mail[p] # NULL => mail[p].tag = mail[p].body

(* A row that mark_send_failed gave up on was not accepted by Instantly. *)
SendFailedWasNotAccepted ==
  \A m \in MsgIds : msgs[m].status = "bounced" /\ msgs[m].pid = NULL =>
    \A p \in Pids : mail[p] # NULL => mail[p].tag # m

(* A row is failed for what its data says (no lead, no e-mail, no step, no *)
(* variant, a text that does not render), not for a read that failed.  No  *)
(* run checks it: such a read is all that can violate it, and does.        *)
FailedHasCause ==
  "failed" \notin Verdicts => \A m \in MsgIds : msgs[m].status # "failed"

(* A row in the dispatch queue eventually leaves it: it is confirmed,      *)
(* cancelled or given up, after any crash of the ticks and handlers.       *)
QueueDrains ==
  \A m \in MsgIds : msgs[m].status \in {"pending", "dispatching"} ~>
                    msgs[m].status \notin {"pending", "dispatching"}

(* A recorded event is eventually processed, though its task may be lost   *)
(* after the 200 and the provider will not deliver it again.               *)
EventsProcessed == \A e \in Event : Recorded(e) ~> Done(e)

(* The table keeps the promise of MessageLifecycle through all faults: a   *)
(* step has one live row, ids are neither shared nor replaced, and no      *)
(* statement takes a row where its lifecycle does not lead.  A row that    *)
(* ended without an id was given up by a tick.                             *)
Place(row) ==
  IF row.status \in {"failed", "bounced"} /\ row.pid = NULL THEN "given up" ELSE row.status

KeyOf(row) == IF row.status = "absent" THEN NULL ELSE <<row.lead, row.seq, row.step>>

Lifecycle == INSTANCE MessageLifecycle WITH
  Messages <- MsgIds, Ids <- Pids, Keys <- Leads \X Sequences \X Steps,
  First <- [m \in DOMAIN Enrolment |-> <<Enrolment[m][1], Enrolment[m][2], 0>>],
  at <- [m \in MsgIds |-> Place(msgs[m])],
  key <- [m \in MsgIds |-> KeyOf(msgs[m])],
  id <- [m \in MsgIds |-> msgs[m].pid]

LifecycleSpec == Lifecycle!Spec
=============================================================================
