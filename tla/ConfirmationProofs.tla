-------------------------- MODULE ConfirmationProofs ------------------------
(***************************************************************************)
(* What a provider id on a row is worth, for every number of ticks,        *)
(* handlers and faults: it is the id of a mail that carried the row's      *)
(* lds_message_id, it is never replaced, the row never returns to the      *)
(* dispatch queue, and what the webhooks made terminal stays so.           *)
(*                                                                         *)
(* This follows from one fact per statement: it leaves a confirmed row as  *)
(* it is, or moves its status forward.                                     *)
(*                                                                         *)
(* Then what events are worth: a follow-up row has a recorded event as its *)
(* cause, and opt-outs and bounces end in a suppression.  Both need what   *)
(* the tasks between two of their calls have done and have still to do.    *)
(*                                                                         *)
(* Last the lifecycle of a row: the table, under all that ticks and tasks  *)
(* do to it, implements MessageLifecycle.                                  *)
(***************************************************************************)
EXTENDS OutreachProofs, FiniteSetTheorems

Confirmed(row) == row.pid # NULL => row.status \in {"sent", "replied", "bounced", "unsubscribed"}

(* What WebhooksAreFinal says of one row. *)
Forward(row, next) ==
  row.pid # NULL =>
    /\ next.pid = row.pid
    /\ row.status \in {"unsubscribed", "bounced"} => next.status = row.status
    /\ row.status = "replied" => next.status \in {"replied", "unsubscribed"}

(* A statement that does not confirm: it moves a confirmed row forward and *)
(* gives no row an id.                                                     *)
Respects(t, u) ==
  \A m \in MsgIds : Confirmed(t[m]) =>
    Confirmed(u[m]) /\ Forward(t[m], u[m]) /\ (u[m].pid # NULL => u[m].pid = t[m].pid)

(* The statements of the dispatch queue never touch a confirmed row. *)
LEMMA QueueRespects ==
  ASSUME NEW t \in Rows, NEW ids, NEW st
  PROVE  /\ Respects(t, t) /\ Respects(t, ClaimBatch(t, ids)) /\ Respects(t, SweepStaleClaims(t))
         /\ \A x \in MsgIds : Respects(t, ReleaseClaim(t, x, st))
<1>1. Respects(t, t)
  BY DEF Respects, Forward
<1>2. Respects(t, ClaimBatch(t, ids))
  BY DEF ClaimBatch, Claimable, Rows, Row, Respects, Confirmed, Forward
<1>3. Respects(t, SweepStaleClaims(t))
  BY DEF SweepStaleClaims, Rows, Row, Respects, Confirmed, Forward
<1>4. \A x \in MsgIds : Respects(t, ReleaseClaim(t, x, st))
  BY DEF ReleaseClaim, Rows, Row, Respects, Confirmed, Forward
<1> QED BY <1>1, <1>2, <1>3, <1>4

(* A status update of rows that are still in the queue. *)
LEMMA QueuedRespects ==
  ASSUME NEW t \in Rows, NEW S, NEW st, \A m \in S : t[m].status \in {"pending", "dispatching"}
  PROVE  Respects(t, SetStatus(t, S, st))
BY DEF SetStatus, Rows, Row, Respects, Confirmed, Forward

(* The bounce, opt-out and reply UPDATEs only move a confirmed row forward. *)
LEMMA MarkRespects ==
  ASSUME NEW t \in Rows, NEW p
  PROVE  /\ Respects(t, MarkBounced(t, p)) /\ Respects(t, MarkUnsubscribed(t, p))
         /\ Respects(t, MarkReplied(t, p))
<1>1. Respects(t, MarkBounced(t, p))
  BY DEF MarkBounced, WithPid, SetStatus, Rows, Row, Respects, Confirmed, Forward
<1>2. Respects(t, MarkUnsubscribed(t, p))
  BY DEF MarkUnsubscribed, WithPid, SetStatus, Rows, Row, Respects, Confirmed, Forward
<1>3. Respects(t, MarkReplied(t, p))
  BY DEF MarkReplied, WithPid, SetStatus, Rows, Row, Respects, Confirmed, Forward
<1> QED BY <1>1, <1>2, <1>3

(* mark_sent is the one statement that confirms, and only a row without id. *)
LEMMA MarkSentConfirms ==
  ASSUME NEW t \in Rows, NEW n \in MsgIds, NEW p \in Pids, NEW m \in MsgIds, Confirmed(t[m])
  PROVE  LET next == MarkSent(t, n, p)[m] IN
           /\ Confirmed(next) /\ Forward(t[m], next)
           /\ next.pid # NULL => next.pid = t[m].pid \/ (next.pid = p /\ m = n)
BY DEF MarkSent, Rows, Row, Confirmed, Forward

(* The INSERT of a next step overwrites no row. *)
LEMMA InsertRespects ==
  ASSUME TypeInv, NEW l, NEW s, NEW i, NEW r, HasRoom(msgs) \/ Occupied(msgs, l, s, i)
  PROVE  Respects(msgs, InsertNextStep(msgs, l, s, i, r))
<1>1. CASE Occupied(msgs, l, s, i)
  BY <1>1, TypeInvFacts, QueueRespects DEF InsertNextStep, Respects, Forward
<1>2. CASE ~ Occupied(msgs, l, s, i)
  <2> DEFINE new == CHOOSE x \in MsgIds : msgs[x].status = "absent"
  <2>1. new \in MsgIds /\ msgs[new].status = "absent" /\ msgs[new].pid = NULL
    BY <1>2 DEF HasRoom, TypeInv, RowsNamed
  <2>2. InsertNextStep(msgs, l, s, i, r) = [msgs EXCEPT ![new] = NewRow(l, s, i, r, "later")]
    BY <1>2 DEF InsertNextStep
  <2>3. NewRow(l, s, i, r, "later").pid = NULL
    BY DEF NewRow
  <2> HIDE DEF new
  <2> QED BY <2>1, <2>2, <2>3, TypeInvFacts DEF Rows, Respects, Confirmed, Forward
<1> QED BY <1>1, <1>2
-----------------------------------------------------------------------------
ConfInv == ConfirmedNeverQueued /\ ProviderIdTraced

(* What a step does to one row: it is moved forward, and an id that is new *)
(* belongs to a mail with the row's tag.                                   *)
RowsForward ==
  \A m \in MsgIds :
    /\ Confirmed(msgs'[m]) /\ Forward(msgs[m], msgs'[m])
    /\ msgs'[m].pid # NULL => \/ msgs'[m].pid = msgs[m].pid
                              \/ mail[msgs'[m].pid] # NULL /\ mail[msgs'[m].pid].tag = m

(* A statement that respects confirmed rows moves rows forward. *)
LEMMA RespectsForward ==
  ASSUME ConfirmedNeverQueued, Respects(msgs, msgs')
  PROVE  RowsForward
BY DEF ConfirmedNeverQueued, Respects, RowsForward, Confirmed

(* No step of a tick changes a confirmed row. *)
LEMMA DispatchForward ==
  ASSUME TypeInv, ConfirmedNeverQueued, NEW t \in Ticks, Dispatch(t)
  PROVE  RowsForward
<1> USE TypeInvFacts
<1>1. CASE msgs' = msgs
  BY <1>1, QueueRespects, RespectsForward DEF Respects, Forward
<1>2. CASE TickSweep(t) \/ TickClaim(t)
  BY <1>1, <1>2, QueueRespects, RespectsForward DEF TickSweep, TickClaim
<1>3. CASE TickBuild(t)
  <2>1. PICK m \in tick[t].batch : (\E st : TickRelease(t, m, st)) \/ TickAppend(t, m)
    BY <1>3 DEF TickBuild, TickPostpone
  <2>2. m \in MsgIds
    BY DEF TickState
  <2> QED BY <1>1, <2>1, <2>2, QueueRespects, RespectsForward DEF TickRelease, TickAppend
<1>4. CASE TickMarkFailed(t)
  <2>1. \/ msgs' = msgs
        \/ \E b : msgs' = MarkSendFailed(msgs, tick[t].tag[LeadOf(b)])
    BY <1>4 DEF TickMarkFailed
  <2> QED BY <1>1, <2>1, QueuedRespects, RespectsForward DEF MarkSendFailed
<1> QED BY <1>1, <1>2, <1>3, <1>4 DEF Dispatch, TickStep, TickFault, TickSelect, TickFetch,
        TickRecheck, ProviderAccept, ProviderReject, TickResponse, TickHttpError,
        TickTransportError, TickStop, tables

(* A handler moves rows forward, and confirms by the tag of a mail. *)
LEMMA WebhookForward ==
  ASSUME TypeInv, ConfirmedNeverQueued, NEW h \in Processes, Webhook(h)
  PROVE  RowsForward
<1> DEFINE e == handler[h].ev
<1>1. CASE msgs' = msgs
  BY <1>1, TypeInvFacts, QueueRespects, RespectsForward DEF Respects, Forward
<1>2. CASE handler[h].pc # "idle" /\ msgs' = Mark(e)
  <2>1. /\ e \in Event /\ mail[e.pid] # NULL /\ mail[e.pid].tag \in MsgIds /\ e.pid \in Pids
    BY <1>2, WorkingOn, TypeInvFacts DEF Mail, HandlerOK
  <2>2. e.type \in {"sent", "bounced_hard", "bounced_soft", "unsubscribed", "replied"}
    BY <2>1, WebhookAssumption DEF Event
  <2> HIDE DEF e
  <2>3. CASE Mark(e) = MarkSent(msgs, mail[e.pid].tag, e.pid)
    <3> SUFFICES ASSUME NEW m \in MsgIds
                 PROVE  /\ Confirmed(msgs'[m]) /\ Forward(msgs[m], msgs'[m])
                        /\ msgs'[m].pid # NULL => \/ msgs'[m].pid = msgs[m].pid
                                                  \/ mail[msgs'[m].pid] # NULL /\ mail[msgs'[m].pid].tag = m
      BY DEF RowsForward
    <3>1. Confirmed(msgs[m])
      BY DEF ConfirmedNeverQueued, Confirmed
    <3>2. msgs' = MarkSent(msgs, mail[e.pid].tag, e.pid) /\ msgs \in Rows
      BY <1>2, <2>3, TypeInvFacts
    <3> QED BY <2>1, <3>1, <3>2, MarkSentConfirms
  <2>4. \/ Mark(e) = MarkSent(msgs, mail[e.pid].tag, e.pid)
        \/ Mark(e) = MarkBounced(msgs, e.pid)
        \/ Mark(e) = MarkUnsubscribed(msgs, e.pid)
        \/ Mark(e) = MarkReplied(msgs, e.pid)
    BY <2>2 DEF Mark, Bounces
  <2> QED BY <1>2, <2>3, <2>4, TypeInvFacts, MarkRespects, RespectsForward
<1>3. CASE msgs' = Cancel(h)
  <2>1. Cancel(h) = msgs \/ \E l, seqs : Cancel(h) = CancelPending(msgs, l, seqs)
    BY DEF Cancel
  <2>2. ASSUME NEW l, NEW seqs PROVE Respects(msgs, CancelPending(msgs, l, seqs))
    BY TypeInvFacts, QueuedRespects DEF CancelPending
  <2> QED BY <1>1, <1>3, <2>1, <2>2, RespectsForward
<1>4. CASE HandleAdvance(h)
  <2> DEFINE row == msgs[handler[h].row]
             inReply == IF row.step + 1 \in Threaded THEN handler[h].rowPid ELSE NULL
  <2>1. \/ msgs' = msgs
        \/ /\ HasRoom(msgs) \/ Occupied(msgs, row.lead, row.seq, row.step + 1)
           /\ msgs' = InsertNextStep(msgs, row.lead, row.seq, row.step + 1, inReply)
    BY <1>4 DEF HandleAdvance
  <2> HIDE DEF row, inReply
  <2> QED BY <1>1, <2>1, InsertRespects, RespectsForward
<1> QED BY <1>1, <1>2, <1>3, <1>4 DEF Webhook, HandlerStep, HandleMark, HandleCancel, HandleLookup,
        HandleCount, HandleSuppress, HandleStamp, HandlerCrash

(* Every step moves rows forward. *)
LEMMA StepForward ==
  ASSUME TypeInv, ConfirmedNeverQueued, [Next]_vars
  PROVE  RowsForward
<1>1. CASE msgs' = msgs
  BY <1>1, TypeInvFacts, QueueRespects, RespectsForward DEF Respects, Forward
<1>2. ASSUME NEW m \in MsgIds, Elapse(m) PROVE RowsForward
  BY <1>2, TypeInvFacts DEF Elapse, BecomeDue, BecomeStale, Rows, Row, RowsForward, Confirmed,
     Forward, ConfirmedNeverQueued
<1>3. CASE Ingress \/ Sweep \/ (\E e \in Event : Grace(e)) \/ UNCHANGED vars
  BY <1>1, <1>3 DEF Ingress, ProviderEvent, DeliverFails, Deliver, Sweep, SweepSelect, SweepNext,
     Grace, GraceEnds, vars, tables
<1> QED BY <1>2, <1>3, DispatchForward, WebhookForward DEF Next

(* No row is confirmed at first. *)
LEMMA ConfInvInit == Init => ConfInv
BY DEF Init, TablesInit, NewRow, NoRow, ConfInv, ConfirmedNeverQueued, ProviderIdTraced

(* A mail that Instantly accepted does not change. *)
LEMMA MailGrows ==
  ASSUME TypeInv, [Next]_vars, NEW p \in Pids, mail[p] # NULL
  PROVE  mail'[p] = mail[p]
<1>1. CASE mail' = mail
  BY <1>1
<1>2. ASSUME NEW t \in Ticks, ProviderAccept(t) PROVE mail'[p] = mail[p]
  <2>1. PICK b : mail' = [mail EXCEPT ![CHOOSE q \in Pids : mail[q] = NULL] = b]
    BY <1>2 DEF ProviderAccept
  <2>2. (CHOOSE q \in Pids : mail[q] = NULL) # p
    BY <1>2 DEF ProviderAccept
  <2> QED BY <2>1, <2>2, TypeInvFacts
<1>3. ASSUME NEW t \in Ticks, Dispatch(t), ~ ProviderAccept(t) PROVE mail' = mail
  BY <1>3 DEF Dispatch, TickStep, TickFault, TickSweep, TickSelect, TickClaim, TickFetch, TickRecheck,
     TickBuild, ProviderReject, TickResponse, TickHttpError, TickTransportError, TickMarkFailed,
     TickStop, tables
<1>4. ASSUME NEW h \in Processes, Webhook(h) PROVE mail' = mail
  BY <1>4 DEF Webhook, HandlerStep, HandleMark, HandleCancel, HandleLookup, HandleCount,
     HandleSuppress, HandleAdvance, HandleStamp, HandlerCrash
<1>5. CASE Ingress \/ Sweep \/ (\E e \in Event : Grace(e)) \/ (\E m \in MsgIds : Elapse(m)) \/ UNCHANGED vars
  BY <1>1, <1>5 DEF Ingress, ProviderEvent, DeliverFails, Deliver, Sweep, SweepSelect, SweepNext,
     Grace, GraceEnds, Elapse, vars, tables
<1> QED BY <1>1, <1>2, <1>3, <1>4, <1>5 DEF Next

(* The confirmation invariant is inductive, relative to the types. *)
LEMMA ConfInvNext == TypeInv /\ ConfInv /\ [Next]_vars => ConfInv'
<1> SUFFICES ASSUME TypeInv, ConfInv, [Next]_vars PROVE ConfInv'
  OBVIOUS
<1>1. RowsForward
  BY StepForward DEF ConfInv
<1>2. \A m \in MsgIds : msgs'[m].pid \in Pids \cup {NULL}
  BY TypeInvNext DEF TypeInv, TypeOK, TablesTypeOK, Row
<1>3. ConfirmedNeverQueued'
  BY <1>1 DEF RowsForward, Confirmed, ConfirmedNeverQueued
<1>4. ProviderIdTraced'
  <2> SUFFICES ASSUME NEW m \in MsgIds, msgs'[m].pid # NULL
               PROVE  mail'[msgs'[m].pid] # NULL /\ mail'[msgs'[m].pid].tag = m
    BY DEF ProviderIdTraced
  <2>1. mail[msgs'[m].pid] # NULL /\ mail[msgs'[m].pid].tag = m
    BY <1>1 DEF RowsForward, ConfInv, ProviderIdTraced
  <2> QED BY <1>2, <2>1, MailGrows
<1> QED BY <1>3, <1>4 DEF ConfInv

(* Confirmed rows have left the queue, and their ids lead to mails that    *)
(* carried them.                                                           *)
THEOREM ConfirmedStaysOut == Spec => []ConfirmedNeverQueued
<1>1. ConfInv => ConfirmedNeverQueued
  BY DEF ConfInv
<1> QED BY <1>1, TypeInvInit, TypeInvNext, ConfInvInit, ConfInvNext, PTL DEF Spec

(* Provider ids are traced: the id on a row is the id of a mail that       *)
(* carried the lds_message_id of that row, so that bounces, opt-outs and   *)
(* replies, which are matched by provider id, never reach another row.     *)
THEOREM ProviderIdsTraced == Spec => []ProviderIdTraced
<1>1. ConfInv => ProviderIdTraced
  BY DEF ConfInv
<1> QED BY <1>1, TypeInvInit, TypeInvNext, ConfInvInit, ConfInvNext, PTL DEF Spec

(* Replays, reorderings and lost calls never take a row back: its provider *)
(* id is never replaced, opt-outs and reported bounces are final.          *)
THEOREM WebhooksFinal == Spec => WebhooksAreFinal
<1> DEFINE Final == \A m \in MsgIds : msgs[m].pid # NULL =>
                     /\ msgs'[m].pid = msgs[m].pid
                     /\ msgs[m].status \in {"unsubscribed", "bounced"} => msgs'[m].status = msgs[m].status
                     /\ msgs[m].status = "replied" => msgs'[m].status \in {"replied", "unsubscribed"}
<1>1. TypeInv /\ ConfInv /\ [Next]_vars => [Final]_vars
  BY StepForward DEF ConfInv, RowsForward, Forward
<1>2. WebhooksAreFinal <=> [][Final]_vars
  BY PTL DEF WebhooksAreFinal
<1> HIDE DEF Final
<1> QED BY <1>1, <1>2, TypeInvInit, TypeInvNext, ConfInvInit, ConfInvNext, PTL DEF Spec
-----------------------------------------------------------------------------
(* What no step undoes: rows keep their lead, sequence and step, mails and *)
(* suppressions stay, and so does the record of an event.                  *)
Lasts ==
  /\ Kept(msgs, msgs')
  /\ \A p \in Pids : mail[p] # NULL => mail'[p] = mail[p]
  /\ suppressions \subseteq suppressions'
  /\ \A e \in Event : Recorded(e) => Recorded(e)'

(* No step of a tick inserts a row. *)
LEMMA DispatchUpdates ==
  ASSUME TypeInv, NEW t \in Ticks, Dispatch(t)
  PROVE  Updated(msgs, msgs')
<1> USE TypeInvFacts
<1>1. CASE msgs' = msgs
  BY <1>1 DEF Updated, Kept
<1>2. CASE TickSweep(t) \/ TickClaim(t)
  <2>1. tick[t].batch \in SUBSET MsgIds
    BY DEF TickState
  <2> QED BY <1>1, <1>2, <2>1, SweepRows, ClaimBatchRows DEF TickSweep, TickClaim
<1>3. CASE TickBuild(t)
  <2>1. PICK m \in tick[t].batch :
          \/ \E st \in {"failed", "cancelled", "pending"} : TickRelease(t, m, st)
          \/ TickAppend(t, m)
    BY <1>3 DEF TickBuild, TickPostpone
  <2>2. m \in MsgIds /\ {"failed", "cancelled", "pending"} \subseteq Status \ {"absent"}
    BY DEF TickState, Status
  <2> QED BY <1>1, <2>1, <2>2, ReleaseRows DEF TickRelease, TickAppend
<1>4. CASE TickMarkFailed(t)
  <2>1. \/ msgs' = msgs
        \/ \E b : msgs' = MarkSendFailed(msgs, tick[t].tag[LeadOf(b)])
    BY <1>4 DEF TickMarkFailed
  <2>2. ASSUME NEW m PROVE Updated(msgs, MarkSendFailed(msgs, m))
    <3> DEFINE S == {m} \cap {x \in MsgIds : msgs[x].status = "dispatching"}
    <3>1. S \in SUBSET MsgIds /\ (\A x \in S : msgs[x].status # "absent")
          /\ "bounced" \in Status \ {"absent"}
      BY DEF Status
    <3>2. MarkSendFailed(msgs, m) = SetStatus(msgs, S, "bounced")
      BY DEF MarkSendFailed
    <3> HIDE DEF S
    <3> QED BY <3>1, <3>2, SetStatusRows
  <2> QED BY <1>1, <2>1, <2>2
<1> QED BY <1>1, <1>2, <1>3, <1>4 DEF Dispatch, TickStep, TickFault, TickSelect, TickFetch,
        TickRecheck, ProviderAccept, ProviderReject, TickResponse, TickHttpError,
        TickTransportError, TickStop, tables

(* The rows a step leaves are those it found, but for the insertion of a   *)
(* next step.                                                              *)
LEMMA StepUpdates ==
  ASSUME TypeInv, [Next]_vars, \A h \in Processes : ~ HandleAdvance(h)
  PROVE  Updated(msgs, msgs')
<1> USE TypeInvFacts
<1>1. CASE msgs' = msgs
  BY <1>1 DEF Updated, Kept
<1>2. ASSUME NEW m \in MsgIds, Elapse(m) PROVE Updated(msgs, msgs')
  BY <1>2 DEF Elapse, BecomeDue, BecomeStale, Rows, Row, Updated, Kept
<1>3. ASSUME NEW h \in Processes, Webhook(h) PROVE Updated(msgs, msgs')
  BY <1>1, <1>3, MarkRows, CancelRows DEF Webhook, HandlerStep, HandleMark, HandleCancel, HandleLookup,
     HandleCount, HandleSuppress, HandleStamp, HandlerCrash
<1>4. CASE Ingress \/ Sweep \/ (\E e \in Event : Grace(e)) \/ UNCHANGED vars
  BY <1>1, <1>4 DEF Ingress, ProviderEvent, DeliverFails, Deliver, Sweep, SweepSelect, SweepNext,
     Grace, GraceEnds, vars, tables
<1> QED BY <1>2, <1>3, <1>4, DispatchUpdates DEF Next

(* The insertion of the next step: the row it adds, if any. *)
LEMMA AdvanceInserts ==
  ASSUME TypeInv, NEW h \in Processes, HandleAdvance(h)
  PROVE  LET row == msgs[handler[h].row] IN
         /\ handler[h].row \in MsgIds /\ row.status # "absent" /\ row.step \in Steps
         /\ Kept(msgs, msgs')
         /\ \A m \in MsgIds : \/ msgs'[m] = msgs[m]
                              \/ /\ msgs[m].status = "absent"
                                 /\ msgs'[m].lead = row.lead /\ msgs'[m].seq = row.seq
                                 /\ msgs'[m].step = row.step + 1
                                 /\ msgs'[m].status = "pending" /\ msgs'[m].pid = NULL
<1> USE TypeInvFacts
<1> DEFINE m == handler[h].row
           next == msgs[m].step + 1
           inReply == IF next \in Threaded THEN handler[h].rowPid ELSE NULL
<1>1. m \in MsgIds /\ msgs[m].status # "absent"
  BY DEF HandleAdvance, HandlerOK, HandlerState
<1>2. msgs[m].lead \in Leads /\ msgs[m].seq \in Sequences /\ msgs[m].step \in Steps
  BY <1>1 DEF TypeInv, RowsNamed, Rows, Row
<1>3. inReply \in Pids \cup {NULL}
  BY DEF HandlerState
<1>4. CASE msgs' = msgs
  BY <1>1, <1>2, <1>4 DEF Kept
<1>5. CASE /\ Advances(handler[h].ev, next)
           /\ HasRoom(msgs) \/ Occupied(msgs, msgs[m].lead, msgs[m].seq, next)
           /\ msgs' = InsertNextStep(msgs, msgs[m].lead, msgs[m].seq, next, inReply)
  <2>1. next \in Steps
    BY <1>2, <1>5, TablesAssumption DEF Advances, Steps
  <2> HIDE DEF next, inReply, m
  <2>2. /\ Kept(msgs, msgs')
        /\ \A x \in MsgIds : msgs'[x] = msgs[x] \/ (/\ msgs[x].status = "absent"
               /\ msgs'[x] = NewRow(msgs[m].lead, msgs[m].seq, next, inReply, "later"))
    BY <1>2, <1>3, <1>5, <2>1, InsertRows
  <2> QED BY <1>1, <1>2, <2>2 DEF NewRow, m, next
<1> QED BY <1>4, <1>5 DEF HandleAdvance

(* Every step keeps what lasts. *)
LEMMA StepLasts ==
  ASSUME TypeInv, [Next]_vars
  PROVE  Lasts
<1>1. Kept(msgs, msgs')
  BY StepUpdates, AdvanceInserts DEF Updated
<1>2. \A p \in Pids : mail[p] # NULL => mail'[p] = mail[p]
  BY MailGrows
<1>3. suppressions \subseteq suppressions' /\ \A e \in Event : Recorded(e) => Recorded(e)'
  <2>1. CASE UNCHANGED <<suppressions, webhook_events>>
    BY <2>1 DEF Recorded
  <2>2. ASSUME NEW h \in Processes, Webhook(h)
        PROVE  suppressions \subseteq suppressions' /\ \A e \in Event : Recorded(e) => Recorded(e)'
    BY <2>1, <2>2 DEF TypeInv, TypeOK, HooksTypeOK, Recorded, Webhook, HandlerStep, HandleMark, HandleCancel,
       HandleLookup, HandleCount, HandleSuppress, HandleAdvance, HandleStamp, HandlerCrash
  <2>3. ASSUME NEW t \in Ticks, Dispatch(t) PROVE UNCHANGED <<suppressions, webhook_events>>
    BY <2>3 DEF Dispatch, TickStep, TickFault, TickSweep, TickSelect, TickClaim, TickFetch, TickRecheck,
       TickBuild, ProviderAccept, ProviderReject, TickResponse, TickHttpError, TickTransportError,
       TickMarkFailed, TickStop, tables, hooks
  <2>4. CASE Ingress \/ Sweep \/ (\E e \in Event : Grace(e)) \/ (\E m \in MsgIds : Elapse(m)) \/ UNCHANGED vars
    BY <2>1, <2>4 DEF TypeInv, TypeOK, HooksTypeOK, Recorded, Ingress, ProviderEvent, DeliverFails,
       Deliver, Sweep, SweepSelect, SweepNext, Grace, GraceEnds, Elapse, vars, tables, hooks
  <2> QED BY <2>1, <2>2, <2>3, <2>4 DEF Next
<1> QED BY <1>1, <1>2, <1>3 DEF Lasts
-----------------------------------------------------------------------------
(* How a step moves one task: it goes on, ends, or starts on an event that *)
(* is recorded by then.                                                    *)
Moves(h) ==
  \/ handler'[h] = handler[h]
  \/ handler'[h] = idleHandler
  \/ /\ handler'[h].pc = "mark" /\ handler'[h].row = NULL
     /\ \E e \in Event : handler'[h].ev = e /\ (e \in sweep \/ Recorded(e)')
  \/ /\ handler[h].pc # "idle" /\ handler'[h].ev = handler[h].ev /\ HandlerStep(h)
     /\ \/ handler'[h].row = handler[h].row
        \/ handler'[h].row \in RowOf(handler[h].ev) \cup {NULL}

(* Every step moves every task in one of these ways. *)
LEMMA HandlersMove ==
  ASSUME TypeInv, [Next]_vars, NEW h \in Processes
  PROVE  Moves(h)
<1>1. handler \in [Processes -> HandlerState]
  BY DEF TypeInv, TypeOK, HooksTypeOK
<1>2. CASE UNCHANGED handler
  BY <1>2 DEF Moves
<1>3. ASSUME NEW g \in Processes, NEW r, handler' = [handler EXCEPT ![g] = r],
             g = h => \/ r = idleHandler
                      \/ /\ r.pc = "mark" /\ r.row = NULL
                         /\ \E e \in Event : r.ev = e /\ (e \in sweep \/ Recorded(e)')
                      \/ /\ handler[h].pc # "idle" /\ r.ev = handler[h].ev /\ HandlerStep(h)
                         /\ r.row = handler[h].row \/ r.row \in RowOf(handler[h].ev) \cup {NULL}
      PROVE  Moves(h)
  BY <1>1, <1>3 DEF Moves
<1>4. ASSUME NEW g \in Handlers, NEW e \in Event, Deliver(g, e) PROVE Moves(h)
  <2> DEFINE r == [idleHandler EXCEPT !.pc = "mark", !.ev = e]
  <2>1. r.pc = "mark" /\ r.row = NULL /\ r.ev = e
    BY DEF idleHandler
  <2>2. Recorded(e)'
    BY <1>4 DEF Deliver, Recorded, TypeInv, TypeOK, HooksTypeOK
  <2>3. handler' = [handler EXCEPT ![g] = r] /\ g \in Processes
    BY <1>4 DEF Deliver, Processes
  <2> HIDE DEF r
  <2> QED BY <1>3, <2>1, <2>2, <2>3
<1>5. CASE SweepNext
  <2>1. PICK e \in sweep : handler' = [handler EXCEPT ![Sweeper] = [idleHandler EXCEPT !.pc = "mark", !.ev = e]]
    BY <1>5 DEF SweepNext
  <2> DEFINE r == [idleHandler EXCEPT !.pc = "mark", !.ev = e]
  <2>2. r.pc = "mark" /\ r.row = NULL /\ r.ev = e
    BY DEF idleHandler
  <2>3. handler' = [handler EXCEPT ![Sweeper] = r] /\ Sweeper \in Processes /\ e \in Event
    BY <2>1 DEF Processes, TypeInv, TypeOK, HooksTypeOK
  <2> HIDE DEF r
  <2> QED BY <1>3, <2>2, <2>3
<1>6. ASSUME NEW g \in Processes, Finish(g) PROVE Moves(h)
  BY <1>3, <1>6 DEF Finish
<1>7. ASSUME NEW g \in Processes, HandlerStep(g), ~ Finish(g), handler[g].pc # "idle" PROVE Moves(h)
  <2>1. CASE \E pc : Goto(g, pc)
    <3>1. PICK pc : Goto(g, pc)
      BY <2>1
    <3> DEFINE r == [handler[g] EXCEPT !.pc = pc]
    <3>2. r.row = handler[g].row /\ r.ev = handler[g].ev
      BY <1>1 DEF HandlerState
    <3>3. handler' = [handler EXCEPT ![g] = r]
      BY <1>1, <3>1 DEF Goto
    <3> HIDE DEF r
    <3> QED BY <1>3, <1>7, <3>2, <3>3
  <2>2. CASE HandleLookup(g)
    <3> DEFINE e == handler[g].ev
               rec(m) == [pc |-> AfterLookup(e, m), ev |-> e, row |-> m,
                          rowPid |-> IF m = NULL THEN NULL ELSE msgs[m].pid]
    <3>1. PICK m \in RowOf(e) \cup {NULL} : handler' = [handler EXCEPT ![g] = rec(m)]
      BY <2>2 DEF HandleLookup
    <3>2. rec(m).row = m /\ rec(m).ev = e
      OBVIOUS
    <3> HIDE DEF rec
    <3> QED BY <1>3, <1>7, <3>1, <3>2
  <2> QED BY <1>7, <2>1, <2>2 DEF HandlerStep, HandleMark, HandleCancel, HandleCount, HandleSuppress,
             HandleAdvance, HandleStamp
<1>8. ASSUME NEW g \in Processes, Webhook(g) PROVE Moves(h)
  <2>1. HandlerStep(g) => handler[g].pc # "idle"
    BY DEF HandlerStep, HandleMark, HandleCancel, HandleLookup, HandleCount, HandleSuppress,
       HandleAdvance, HandleStamp
  <2> QED BY <1>6, <1>7, <1>8, <2>1 DEF Webhook, HandlerCrash
<1>9. CASE Ingress
  BY <1>2, <1>4, <1>9 DEF Ingress, ProviderEvent, DeliverFails
<1>10. CASE SweepSelect \/ (\E e \in Event : Grace(e)) \/ (\E m \in MsgIds : Elapse(m))
            \/ (\E t \in Ticks : Dispatch(t)) \/ UNCHANGED vars
  BY <1>2, <1>10 DEF SweepSelect, Grace, GraceEnds, Elapse, Dispatch, vars, hooks
<1> QED BY <1>5, <1>8, <1>9, <1>10 DEF Next, Sweep
-----------------------------------------------------------------------------
(* Instantly has reported, and the backend recorded, on a mail of the step *)
(* before this one.                                                        *)
Caused(lead, seq, step) ==
  \E p \in Pids :
    /\ mail[p] # NULL
    /\ \E e \in Event : e.pid = p /\ Recorded(e)
    /\ LET prior == msgs[mail[p].tag] IN
         <<prior.lead, prior.seq, prior.step + 1>> = <<lead, seq, step>>

(* A task works on a recorded event, and on the row tagged in its mail. *)
HandlersTraced ==
  \A h \in Processes : handler[h].pc # "idle" =>
    /\ Recorded(handler[h].ev)
    /\ handler[h].row # NULL => mail[handler[h].ev.pid].tag = handler[h].row

CauseInv == FollowUpHasCause /\ HandlersTraced /\ \A e \in sweep : Recorded(e)

(* A cause stays one. *)
LEMMA CausedLasts ==
  ASSUME TypeInv, Lasts, NEW lead, NEW seq, NEW step, Caused(lead, seq, step)
  PROVE  Caused(lead, seq, step)'
<1>1. PICK p \in Pids : /\ mail[p] # NULL
                        /\ \E e \in Event : e.pid = p /\ Recorded(e)
                        /\ LET prior == msgs[mail[p].tag] IN
                             <<prior.lead, prior.seq, prior.step + 1>> = <<lead, seq, step>>
  BY DEF Caused
<1>2. mail'[p] = mail[p] /\ mail[p].tag \in MsgIds /\ msgs[mail[p].tag].status # "absent"
  BY <1>1, TypeInvFacts DEF Lasts, TypeInv, MailsNamed, Mail
<1>3. <<msgs'[mail[p].tag].lead, msgs'[mail[p].tag].seq, msgs'[mail[p].tag].step + 1>> = <<lead, seq, step>>
  BY <1>1, <1>2 DEF Lasts, Kept
<1>4. \E e \in Event : e.pid = p /\ Recorded(e)'
  BY <1>1 DEF Lasts
<1> QED BY <1>1, <1>2, <1>3, <1>4 DEF Caused

(* At first there are only first steps, and no event. *)
LEMMA CauseInvInit == Init => CauseInv
BY DEF Init, TablesInit, HooksInit, NewRow, NoRow, CauseInv, FollowUpHasCause, HandlersTraced, idleHandler

(* The cause of a follow-up is the event its task works on. *)
LEMMA CauseInvNext == TypeInv /\ ConfInv /\ CauseInv /\ [Next]_vars => CauseInv'
<1> SUFFICES ASSUME TypeInv, ConfInv, CauseInv, [Next]_vars PROVE CauseInv'
  OBVIOUS
<1>1. Lasts /\ TypeInv'
  BY StepLasts, TypeInvNext
<1>2. FollowUpHasCause'
  <2> SUFFICES ASSUME NEW m \in MsgIds, msgs'[m].status # "absent", msgs'[m].step > 0
               PROVE  \E l, s, i : /\ l = msgs'[m].lead /\ s = msgs'[m].seq /\ i = msgs'[m].step
                                   /\ Caused(l, s, i)
    <3> SUFFICES ASSUME NEW m \in MsgIds, msgs'[m].status # "absent", msgs'[m].step > 0
                 PROVE  \E p \in Pids :
                          /\ mail'[p] # NULL
                          /\ \E e \in Event : e.pid = p /\ Recorded(e)'
                          /\ <<msgs'[mail'[p].tag].lead, msgs'[mail'[p].tag].seq, msgs'[mail'[p].tag].step + 1>>
                               = <<msgs'[m].lead, msgs'[m].seq, msgs'[m].step>>
      BY DEF FollowUpHasCause
    <3>1. \A l, s, i : Caused(l, s, i) => Caused(l, s, i)'
      BY <1>1, CausedLasts
    <3>2. PICK l, s, i : /\ l = msgs'[m].lead /\ s = msgs'[m].seq /\ i = msgs'[m].step
                         /\ Caused(l, s, i)'
      BY <3>1
    <3> QED BY <3>2 DEF Caused
  <2>1. CASE msgs[m].status # "absent"
    <3>1. <<msgs'[m].lead, msgs'[m].seq, msgs'[m].step>> = <<msgs[m].lead, msgs[m].seq, msgs[m].step>>
      BY <1>1, <2>1 DEF Lasts, Kept
    <3>2. Caused(msgs[m].lead, msgs[m].seq, msgs[m].step)
      BY <2>1, <3>1 DEF CauseInv, FollowUpHasCause, Caused
    <3> QED BY <3>1, <3>2
  <2>2. CASE msgs[m].status = "absent"
    <3>1. PICK h \in Processes : HandleAdvance(h)
      BY <2>2, StepUpdates DEF Updated
    <3> DEFINE row == msgs[handler[h].row]
    <3>2. <<msgs'[m].lead, msgs'[m].seq, msgs'[m].step>> = <<row.lead, row.seq, row.step + 1>>
      BY <2>2, <3>1, AdvanceInserts
    <3>3. handler[h].pc # "idle" /\ handler[h].row # NULL
      BY <3>1, TypeInvFacts DEF HandleAdvance, HandlerOK
    <3>4. /\ handler[h].ev \in Event /\ Recorded(handler[h].ev)
          /\ handler[h].ev.pid \in Pids /\ mail[handler[h].ev.pid] # NULL
          /\ mail[handler[h].ev.pid].tag = handler[h].row
      BY <3>3, WorkingOn, TypeInvFacts DEF CauseInv, HandlersTraced, HandlerOK
    <3>5. Caused(row.lead, row.seq, row.step + 1)
      BY <3>4 DEF Caused
    <3> QED BY <3>2, <3>5
  <2> QED BY <2>1, <2>2
<1>3. HandlersTraced'
  <2> SUFFICES ASSUME NEW h \in Processes, handler'[h].pc # "idle"
               PROVE  /\ webhook_events'[handler'[h].ev] # "none"
                      /\ handler'[h].row # NULL => mail'[handler'[h].ev.pid].tag = handler'[h].row
    BY DEF HandlersTraced, Recorded
  <2> DEFINE e == handler[h].ev
  <2>1. CASE \E x \in Event : handler'[h].ev = x /\ handler'[h].row = NULL /\ (x \in sweep \/ Recorded(x)')
    BY <1>1, <2>1 DEF Lasts, CauseInv, Recorded
  <2>2. CASE handler[h].pc # "idle" /\ handler'[h].ev = e
    <3>1. /\ e \in Event /\ e.pid \in Pids /\ Recorded(e) /\ Recorded(e)'
          /\ mail[e.pid] # NULL /\ mail'[e.pid] = mail[e.pid]
      BY <1>1, <2>2, WorkingOn, TypeInvFacts DEF CauseInv, HandlersTraced, HandlerOK, Lasts
    <3>2. \A m \in RowOf(e) : mail[e.pid].tag = m
      BY <3>1, TablesAssumption DEF RowOf, ConfInv, ProviderIdTraced
    <3>3. handler'[h].row \in {handler[h].row, NULL} \cup RowOf(e)
      BY <2>2, HandlersMove DEF Moves, idleHandler
    <3> QED BY <2>2, <3>1, <3>2, <3>3 DEF CauseInv, HandlersTraced, Recorded
  <2> QED BY <2>1, <2>2, HandlersMove DEF Moves, idleHandler
<1>4. \A e \in sweep' : Recorded(e)'
  <2>1. sweep' \subseteq sweep \/ SweepSelect
    BY DEF Next, Dispatch, Elapse, Webhook, HandlerStep, HandleMark, HandleCancel, HandleLookup, HandleCount,
       HandleSuppress, HandleAdvance, HandleStamp, HandlerCrash, Ingress, ProviderEvent, DeliverFails,
       Deliver, Sweep, SweepNext, Grace, GraceEnds, vars, hooks
  <2>2. CASE SweepSelect
    BY <2>2 DEF SweepSelect, Unprocessed, Recorded
  <2>3. CASE sweep' \subseteq sweep
    BY <1>1, <2>3 DEF CauseInv, Lasts, TypeInv, TypeOK, HooksTypeOK
  <2> QED BY <2>1, <2>2, <2>3
<1> QED BY <1>2, <1>3, <1>4 DEF CauseInv

(* No follow-up without a cause: whatever crashes, is lost or repeated, a  *)
(* row of a later step exists only after an event was recorded on a mail   *)
(* that carried the lds_message_id of the step before it.                  *)
THEOREM FollowUpsHaveCause == Spec => []FollowUpHasCause
<1>1. CauseInv => FollowUpHasCause
  BY DEF CauseInv
<1> QED BY <1>1, TypeInvInit, TypeInvNext, ConfInvInit, ConfInvNext, CauseInvInit, CauseInvNext, PTL DEF Spec
-----------------------------------------------------------------------------
(* Where each call of a task starts. *)
LEMMA StepPc ==
  ASSUME NEW h
  PROVE  /\ HandleMark(h) => handler[h].pc = "mark"
         /\ HandleLookup(h) => handler[h].pc = "lookup"
         /\ HandleCount(h) => handler[h].pc = "count"
         /\ HandleSuppress(h) => handler[h].pc = "suppress"
         /\ HandleCancel(h) => handler[h].pc = "cancel"
         /\ HandleAdvance(h) => handler[h].pc = "advance"
         /\ HandleStamp(h) => handler[h].pc \in {"stamp", "stampError"}
BY DEF HandleMark, HandleLookup, HandleCount, HandleSuppress, HandleCancel, HandleAdvance, HandleStamp

(* The suppression that a task makes for its event. *)
Entry(e) == <<Recipient(e), IF e.type = "unsubscribed" THEN "all" ELSE "email">>

(* What each call of a task leads to. *)
LEMMA PcAfter ==
  ASSUME TypeInv, NEW h \in Processes, HandlerStep(h)
  PROVE  LET pc == handler'[h].pc  e == handler[h].ev IN
         \/ HandleMark(h) /\ pc = "lookup"
         \/ HandleLookup(h) /\ pc = AfterLookup(e, handler'[h].row)
         \/ /\ HandleCount(h)
            /\ pc = "suppress" \/ (/\ pc = "stamp" /\ e.type = "bounced_soft"
                                   /\ SoftStrikes(Recipient(e)) < SoftThreshold)
         \/ /\ HandleSuppress(h)
            /\ pc \in {"idle", "stampError"} \/ (pc = "cancel" /\ Entry(e) \in suppressions')
         \/ HandleCancel(h) /\ pc = IF e.type = "replied" THEN "advance" ELSE "stamp"
         \/ /\ HandleAdvance(h)
            /\ pc = "stamp" \/ ("db" \in FaultKinds /\ pc \in {"idle", "stampError"})
         \/ HandleStamp(h) /\ handler'[h] = idleHandler
<1>1. handler \in [Processes -> HandlerState]
  BY DEF TypeInv, TypeOK, HooksTypeOK
<1>2. \A pc : Goto(h, pc) => handler'[h].pc = pc
  BY <1>1 DEF Goto, HandlerState
<1>3. Finish(h) => handler'[h] = idleHandler
  BY <1>1 DEF Finish
<1>4. idleHandler.pc = "idle"
  BY DEF idleHandler
<1>5. CASE HandleLookup(h)
  <2> DEFINE e == handler[h].ev
             rec(m) == [pc |-> AfterLookup(e, m), ev |-> e, row |-> m,
                        rowPid |-> IF m = NULL THEN NULL ELSE msgs[m].pid]
  <2>1. PICK m : handler' = [handler EXCEPT ![h] = rec(m)]
    BY <1>5 DEF HandleLookup
  <2>2. rec(m).row = m /\ rec(m).pc = AfterLookup(e, m)
    OBVIOUS
  <2> HIDE DEF rec
  <2> QED BY <1>1, <1>5, <2>1, <2>2
<1>6. CASE HandleSuppress(h)
  BY <1>2, <1>3, <1>4, <1>6 DEF HandleSuppress, Entry
<1>7. CASE HandleCount(h)
  BY <1>2, <1>7 DEF HandleCount
<1>8. CASE HandleMark(h)
  BY <1>2, <1>8 DEF HandleMark
<1>9. CASE HandleAdvance(h)
  BY <1>2, <1>3, <1>4, <1>9 DEF HandleAdvance, Fault
<1>10. CASE HandleCancel(h) \/ HandleStamp(h)
  BY <1>2, <1>3, <1>10 DEF HandleCancel, HandleStamp
<1> QED BY <1>5, <1>6, <1>7, <1>8, <1>9, <1>10 DEF HandlerStep

(* Where the lookup leads. *)
LEMMA LookupLeads ==
  ASSUME NEW e \in Event, NEW row
  PROVE  LET pc == AfterLookup(e, row) IN
         \/ e.type = "sent" /\ pc = IF row = NULL THEN "stamp" ELSE "advance"
         \/ e.type \in Bounces /\ pc = "count"
         \/ e.type = "unsubscribed" /\ pc = "suppress"
         \/ e.type = "replied" /\ pc = IF row = NULL THEN "stamp" ELSE "cancel"
<1>1. e.type \in {"sent", "bounced_hard", "bounced_soft", "unsubscribed", "replied"}
  BY WebhookAssumption DEF Event
<1> QED BY <1>1 DEF AfterLookup, Bounces

(* How the record of an event changes. *)
LEMMA EventsMove ==
  ASSUME TypeInv, [Next]_vars, NEW e \in Event
  PROVE  \/ webhook_events'[e] = webhook_events[e]
         \/ /\ webhook_events[e] = "none" /\ webhook_events'[e] = "received"
            /\ \A h \in Processes : handler'[h] = handler[h] \/ handler'[h].pc = "mark"
         \/ webhook_events[e] = "received" /\ webhook_events'[e] = "overdue"
         \/ \E h \in Processes : /\ HandleStamp(h) /\ handler[h].ev = e
                                 /\ webhook_events'[e] = IF handler[h].pc = "stamp" THEN "processed" ELSE "errored"
<1>1. webhook_events \in [Event -> {"none", "received", "overdue", "processed", "errored"}]
      /\ handler \in [Processes -> HandlerState]
  BY DEF TypeInv, TypeOK, HooksTypeOK
<1>2. CASE UNCHANGED webhook_events
  BY <1>2
<1>3. ASSUME NEW h \in Processes, HandleStamp(h)
      PROVE  webhook_events'[e] = webhook_events[e]
             \/ /\ handler[h].ev = e
                /\ webhook_events'[e] = IF handler[h].pc = "stamp" THEN "processed" ELSE "errored"
  BY <1>1, <1>3 DEF HandleStamp
<1>4. ASSUME NEW x \in Event, NEW h \in Handlers, Deliver(h, x)
      PROVE  webhook_events'[e] = webhook_events[e]
             \/ /\ webhook_events[e] = "none" /\ webhook_events'[e] = "received"
                /\ \A g \in Processes : handler'[g] = handler[g] \/ handler'[g].pc = "mark"
  <2>1. webhook_events'[e] = webhook_events[e] \/ (webhook_events[e] = "none" /\ webhook_events'[e] = "received")
    BY <1>1, <1>4 DEF Deliver
  <2> DEFINE r == [idleHandler EXCEPT !.pc = "mark", !.ev = x]
  <2>2. r.pc = "mark" /\ handler' = [handler EXCEPT ![h] = r]
    BY <1>4 DEF Deliver, idleHandler
  <2> HIDE DEF r
  <2>3. \A g \in Processes : handler'[g] = handler[g] \/ handler'[g].pc = "mark"
    BY <1>1, <2>2
  <2> QED BY <2>1, <2>3
<1>5. ASSUME NEW x \in Event, DeliverFails(x)
      PROVE  webhook_events'[e] = webhook_events[e]
             \/ /\ webhook_events[e] = "none" /\ webhook_events'[e] = "received"
                /\ UNCHANGED handler
  BY <1>1, <1>5 DEF DeliverFails, Recorded
<1>6. ASSUME NEW x \in Event, Grace(x)
      PROVE  \/ webhook_events'[e] = webhook_events[e]
             \/ webhook_events[e] = "received" /\ webhook_events'[e] = "overdue"
  <2>1. webhook_events[x] = "received" /\ webhook_events' = [webhook_events EXCEPT ![x] = "overdue"]
    BY <1>6 DEF Grace, GraceEnds
  <2> QED BY <1>1, <2>1
<1>7. ASSUME NEW h \in Processes, Webhook(h), ~ HandleStamp(h) PROVE UNCHANGED webhook_events
  BY <1>7 DEF Webhook, HandlerStep, HandleMark, HandleCancel, HandleLookup, HandleCount, HandleSuppress,
     HandleAdvance, HandlerCrash
<1>8. CASE Sweep \/ (\E m \in MsgIds : Elapse(m)) \/ (\E t \in Ticks : Dispatch(t)) \/ UNCHANGED vars
  BY <1>2, <1>8 DEF Sweep, SweepSelect, SweepNext, Elapse, Dispatch, vars, hooks
<1>9. ASSUME NEW x \in Event, ProviderEvent(x) PROVE UNCHANGED webhook_events
  BY <1>9 DEF ProviderEvent
<1> QED BY <1>2, <1>3, <1>4, <1>5, <1>6, <1>7, <1>8, <1>9 DEF Next, Ingress

(* Whom an event is about does not change. *)
LEMMA RecipientLasts ==
  ASSUME TypeInv, Lasts, NEW e \in Event, mail[e.pid] # NULL
  PROVE  Recipient(e)' = Recipient(e) /\ Recipient(e) \in Leads
<1>1. e.pid \in Pids /\ mail[e.pid].body \in MsgIds
  BY TypeInvFacts DEF Event, Mail
<1>2. mail'[e.pid] = mail[e.pid] /\ msgs[mail[e.pid].body].status # "absent"
  BY <1>1 DEF Lasts, TypeInv, MailsNamed
<1>3. msgs'[mail[e.pid].body].lead = msgs[mail[e.pid].body].lead
  BY <1>1, <1>2 DEF Lasts, Kept
<1> QED BY <1>1, <1>2, <1>3 DEF Recipient, LeadOf, TypeInv, RowsNamed
-----------------------------------------------------------------------------
(* The event is recorded, is not processed, and no task is past the point  *)
(* where it would suppress its recipient.                                  *)
Open(e) ==
  /\ webhook_events[e] \notin {"none", "processed"}
  /\ \A h \in Processes : handler[h].ev = e => handler[h].pc \notin {"cancel", "stamp"}

(* What a task that has made its suppression, or an event that was         *)
(* processed, leaves behind.                                               *)
Settled ==
  /\ \A e \in Event : webhook_events[e] = "processed" /\ e.type \in {"unsubscribed", "bounced_hard"}
                        => Entry(e) \in suppressions
  /\ \A h \in Processes : \A e \in Event : LET pc == handler[h].pc IN handler[h].ev = e =>
       /\ pc \in {"cancel", "stamp"} /\ e.type \in {"unsubscribed", "bounced_hard"} => Entry(e) \in suppressions
       /\ pc = "cancel" /\ e.type = "bounced_soft" => Entry(e) \in suppressions
       /\ pc = "advance" => e.type \in {"sent", "replied"}

(* A lead with enough strikes is suppressed, or one of them is still to be *)
(* worked on.                                                              *)
StrikesCount ==
  \A l \in Leads : SoftStrikes(l) >= SoftThreshold =>
    \/ <<l, "email">> \in suppressions
    \/ \E e \in Event : e.type = "bounced_soft" /\ Recipient(e) = l /\ Open(e)

RecordsFinite == IsFiniteSet({e \in Event : Recorded(e)})

StrikeInv == Settled /\ StrikesCount /\ RecordsFinite

(* Finitely many events are recorded, so a strike count is a number. *)
LEMMA StrikesAreCounted ==
  ASSUME RecordsFinite, NEW l
  PROVE  SoftStrikes(l) \in Nat
<1> DEFINE struck == {e \in Event : Recorded(e) /\ e.type = "bounced_soft" /\ Recipient(e) = l}
<1>1. struck \in SUBSET {e \in Event : Recorded(e)}
  OBVIOUS
<1>2. IsFiniteSet(struck)
  BY <1>1, FS_Subset DEF RecordsFinite
<1>3. SoftStrikes(l) = Cardinality(struck)
  BY DEF SoftStrikes
<1> HIDE DEF struck
<1> QED BY <1>2, <1>3, FS_CardinalityType

(* A step records at most one event. *)
LEMMA RecordsFiniteNext ==
  ASSUME TypeInv, CauseInv, RecordsFinite, [Next]_vars
  PROVE  RecordsFinite'
<1>1. webhook_events \in [Event -> {"none", "received", "overdue", "processed", "errored"}]
  BY DEF TypeInv, TypeOK, HooksTypeOK
<1>2. \E x : \A e \in Event : webhook_events'[e] = webhook_events[e] \/ e = x
  <2>1. CASE UNCHANGED webhook_events
    BY <2>1
  <2>2. ASSUME NEW x, NEW v, webhook_events' = [webhook_events EXCEPT ![x] = v]
        PROVE  \A e \in Event : webhook_events'[e] = webhook_events[e] \/ e = x
    BY <1>1, <2>2
  <2>3. CASE Ingress \/ \E e \in Event : Grace(e)
    <3>1. PICK x \in Event : \/ ProviderEvent(x) \/ DeliverFails(x) \/ Grace(x)
                             \/ \E h \in Handlers : Deliver(h, x)
      BY <2>3 DEF Ingress
    <3>2. UNCHANGED webhook_events \/ \E v : webhook_events' = [webhook_events EXCEPT ![x] = v]
      <4>1. CASE ProviderEvent(x) \/ DeliverFails(x)
        BY <4>1 DEF ProviderEvent, DeliverFails
      <4>2. CASE Grace(x)
        BY <4>2 DEF Grace, GraceEnds
      <4>3. CASE \E h \in Handlers : Deliver(h, x)
        BY <4>3 DEF Deliver
      <4> QED BY <3>1, <4>1, <4>2, <4>3
    <3> QED BY <2>1, <2>2, <3>2
  <2>4. ASSUME NEW h \in Processes, Webhook(h)
        PROVE  \E x : \A e \in Event : webhook_events'[e] = webhook_events[e] \/ e = x
    <3>1. CASE HandleStamp(h)
      BY <2>1, <2>2, <3>1 DEF HandleStamp
    <3> QED BY <2>1, <2>4, <3>1 DEF Webhook, HandlerStep, HandleMark, HandleCancel, HandleLookup,
               HandleCount, HandleSuppress, HandleAdvance, HandlerCrash
  <2>5. CASE Sweep \/ (\E m \in MsgIds : Elapse(m)) \/ (\E t \in Ticks : Dispatch(t)) \/ UNCHANGED vars
    BY <2>1, <2>5 DEF Sweep, SweepSelect, SweepNext, Elapse, Dispatch, vars, hooks
  <2> QED BY <2>3, <2>4, <2>5 DEF Next
<1>3. PICK x : {e \in Event : Recorded(e)'} \subseteq {e \in Event : Recorded(e)} \cup {x}
  BY <1>2 DEF Recorded
<1>4. IsFiniteSet({e \in Event : Recorded(e)} \cup {x})
  BY FS_AddElement DEF RecordsFinite
<1> QED BY <1>3, <1>4, FS_Subset DEF RecordsFinite

(* No strikes at first. *)
LEMMA StrikeInvInit == Init => StrikeInv
<1> SUFFICES ASSUME Init PROVE StrikeInv
  OBVIOUS
<1>1. \A e \in Event : ~ Recorded(e)
  BY DEF Init, HooksInit, Recorded
<1>2. Settled
  BY DEF Init, HooksInit, Settled, idleHandler
<1>3. ASSUME NEW l PROVE ~ (SoftStrikes(l) >= SoftThreshold)
  <2>1. {e \in Event : Recorded(e) /\ e.type = "bounced_soft" /\ Recipient(e) = l} = {}
    BY <1>1
  <2>2. SoftStrikes(l) = 0
    BY <2>1, FS_EmptySet DEF SoftStrikes
  <2> QED BY <2>2, WebhookAssumption
<1>4. RecordsFinite
  <2>1. {e \in Event : Recorded(e)} = {}
    BY <1>1
  <2> QED BY <2>1, FS_EmptySet DEF RecordsFinite
<1> QED BY <1>2, <1>3, <1>4 DEF StrikeInv, StrikesCount

(* No step takes a settled suppression back, or skips it. *)
LEMMA SettledNext ==
  ASSUME TypeInv, CauseInv, Settled, [Next]_vars
  PROVE  Settled'
<1>1. Lasts
  BY StepLasts
<1>2. ASSUME NEW e \in Event, mail[e.pid] # NULL PROVE Entry(e)' = Entry(e)
  BY <1>1, <1>2, RecipientLasts DEF Entry
<1>3. ASSUME NEW e \in Event, webhook_events'[e] = "processed", e.type \in {"unsubscribed", "bounced_hard"}
      PROVE  Entry(e)' \in suppressions'
  <2>1. Entry(e) \in suppressions /\ Recorded(e)
    <3>1. CASE webhook_events[e] = "processed"
      BY <1>3, <3>1 DEF Settled, Recorded
    <3>2. CASE \E h \in Processes : HandleStamp(h) /\ handler[h].ev = e /\ handler[h].pc = "stamp"
      BY <1>3, <3>2 DEF Settled, CauseInv, HandlersTraced
    <3> QED BY <1>3, <3>1, <3>2, EventsMove
  <2>2. mail[e.pid] # NULL
    BY <2>1 DEF TypeInv, EventsMailed
  <2> QED BY <1>1, <1>2, <2>1, <2>2 DEF Lasts
<1>4. ASSUME NEW h \in Processes, NEW e \in Event, handler'[h].ev = e, handler'[h].pc # "idle"
      PROVE  /\ handler'[h].pc \in {"cancel", "stamp"} /\ e.type \in {"unsubscribed", "bounced_hard"}
                  => Entry(e)' \in suppressions'
             /\ handler'[h].pc = "cancel" /\ e.type = "bounced_soft" => Entry(e)' \in suppressions'
             /\ handler'[h].pc = "advance" => e.type \in {"sent", "replied"}
  <2>1. CASE handler'[h].pc = "mark"
    BY <2>1
  <2>2. CASE handler[h].pc # "idle" /\ handler[h].ev = e
    <3>1. mail[e.pid] # NULL
      BY <2>2, TypeInvFacts DEF HandlerOK
    <3>2. Entry(e)' = Entry(e) /\ suppressions \subseteq suppressions'
      BY <1>1, <1>2, <3>1 DEF Lasts
    <3>3. CASE handler'[h] = handler[h]
      BY <2>2, <3>2, <3>3 DEF Settled
    <3>4. CASE HandlerStep(h)
      <4>1. CASE HandleLookup(h)
        <5>1. handler'[h].pc = AfterLookup(e, handler'[h].row)
          BY <2>2, <3>4, <4>1, PcAfter, StepPc
        <5> QED BY <5>1, LookupLeads DEF Bounces
      <4>0. CASE HandleCount(h) \/ HandleMark(h)
        BY <2>2, <3>4, <4>0, PcAfter, StepPc
      <4>2. CASE HandleSuppress(h)
        BY <2>2, <3>2, <3>4, <4>2, PcAfter, StepPc DEF idleHandler
      <4>3. CASE HandleCancel(h) \/ HandleAdvance(h)
        BY <2>2, <3>2, <3>4, <4>3, PcAfter, StepPc DEF Settled, idleHandler
      <4> QED BY <1>4, <3>4, <4>0, <4>1, <4>2, <4>3, PcAfter DEF idleHandler
    <3> QED BY <1>4, <2>2, <3>3, <3>4, HandlersMove DEF Moves, idleHandler
  <2> QED BY <1>4, <2>1, <2>2, HandlersMove DEF Moves, idleHandler
<1>5. \A h \in Processes : handler'[h].pc = "idle" \/ handler'[h].ev \in Event
  BY TypeInvNext DEF TypeInv, HandlerOK
<1> QED BY <1>3, <1>4 DEF Settled

(* A strike of a lead that has enough of them is closed by a suppression. *)
LEMMA OpenNext ==
  ASSUME TypeInv, CauseInv, Settled, RecordsFinite, [Next]_vars, NEW e \in Event, e.type = "bounced_soft", Open(e),
         SoftStrikes(Recipient(e)) >= SoftThreshold
  PROVE  Open(e)' \/ <<Recipient(e), "email">> \in suppressions'
<1>1. webhook_events'[e] \notin {"none", "processed"}
  <2>1. ASSUME NEW h \in Processes, HandleStamp(h), handler[h].ev = e PROVE handler[h].pc # "stamp"
    BY <2>1 DEF Open
  <2> QED BY <2>1, EventsMove DEF Open
<1>2. ASSUME NEW h \in Processes, handler'[h].ev = e, handler'[h].pc \in {"cancel", "stamp"}
      PROVE  <<Recipient(e), "email">> \in suppressions'
  <2>1. handler'[h] # handler[h]
    BY <1>2 DEF Open
  <2>2. HandlerStep(h) /\ handler[h].ev = e /\ handler[h].pc \notin {"cancel", "stamp"}
    BY <1>2, <2>1, HandlersMove DEF Moves, idleHandler, Open
  <2>3. ~ HandleCancel(h) /\ ~ HandleStamp(h) /\ ~ HandleAdvance(h)
    <3>1. ~ HandleAdvance(h)
      BY <2>2, StepPc DEF Settled
    <3> QED BY <1>2, <2>2, <3>1, PcAfter, StepPc DEF idleHandler
  <2>4. handler'[h].pc # AfterLookup(e, handler'[h].row)
    BY <1>2, LookupLeads DEF Bounces
  <2>5. ~ (SoftStrikes(Recipient(e)) < SoftThreshold)
    BY StrikesAreCounted, WebhookAssumption
  <2>6. Entry(e) \in suppressions'
    BY <1>2, <2>2, <2>3, <2>4, <2>5, PcAfter
  <2> QED BY <2>6 DEF Entry
<1> QED BY <1>1, <1>2 DEF Open

(* A strike that is recorded is open, and the last one suppresses. *)
LEMMA StrikeInvNext == TypeInv /\ CauseInv /\ StrikeInv /\ [Next]_vars => StrikeInv'
<1> SUFFICES ASSUME TypeInv, CauseInv, StrikeInv, [Next]_vars PROVE StrikeInv'
  OBVIOUS
<1>1. Settled' /\ RecordsFinite' /\ Lasts
  BY SettledNext, RecordsFiniteNext, StepLasts DEF StrikeInv
<1>2. ASSUME NEW e \in Event, Recorded(e)
      PROVE  Recipient(e)' = Recipient(e) /\ Recorded(e)'
  BY <1>1, <1>2, RecipientLasts DEF TypeInv, EventsMailed, Lasts
<1>3. ASSUME NEW l \in Leads, SoftStrikes(l)' >= SoftThreshold
      PROVE  \/ <<l, "email">> \in suppressions'
             \/ \E e \in Event : e.type = "bounced_soft" /\ Recipient(e)' = l /\ Open(e)'
  <2>1. CASE \E e \in Event : e.type = "bounced_soft" /\ Recipient(e)' = l /\ ~ Recorded(e) /\ Recorded(e)'
    <3>1. PICK e \in Event : e.type = "bounced_soft" /\ Recipient(e)' = l /\ ~ Recorded(e) /\ Recorded(e)'
      BY <2>1
    <3>2. /\ webhook_events'[e] = "received"
          /\ \A h \in Processes : handler'[h] = handler[h] \/ handler'[h].pc = "mark"
      BY <3>1, EventsMove DEF Recorded, CauseInv, HandlersTraced, HandleStamp
    <3>3. \A h \in Processes : handler[h].ev = e => handler[h].pc = "idle"
      BY <3>1 DEF CauseInv, HandlersTraced
    <3> QED BY <3>1, <3>2, <3>3 DEF Open
  <2>2. CASE \A e \in Event : e.type = "bounced_soft" /\ Recipient(e)' = l /\ Recorded(e)' => Recorded(e)
    <3>1. SoftStrikes(l)' = SoftStrikes(l)
      <4>1. {e \in Event : Recorded(e)' /\ e.type = "bounced_soft" /\ Recipient(e)' = l}
             = {e \in Event : Recorded(e) /\ e.type = "bounced_soft" /\ Recipient(e) = l}
        BY <1>2, <2>2
      <4> QED BY <4>1 DEF SoftStrikes
    <3>2. CASE <<l, "email">> \in suppressions
      BY <1>1, <3>2 DEF Lasts
    <3>3. ASSUME NEW e \in Event, e.type = "bounced_soft", Recipient(e) = l, Open(e)
          PROVE  \/ <<l, "email">> \in suppressions'
                 \/ Recipient(e)' = l /\ Open(e)'
      BY <1>2, <1>3, <3>1, <3>3, OpenNext DEF StrikeInv, Open, Recorded
    <3> QED BY <1>3, <3>1, <3>2, <3>3 DEF StrikeInv, StrikesCount
  <2> QED BY <2>1, <2>2
<1> QED BY <1>1, <1>3 DEF StrikeInv, StrikesCount

(* Opt-outs and bounces end in a suppression: a processed opt-out or hard  *)
(* bounce has its entry, and so has a lead with as many recorded soft      *)
(* bounces as the threshold, all of them processed, in whatever order      *)
(* tasks and sweeper worked on them and however often.                     *)
THEOREM SuppressionsFollow == Spec => []SuppressionFollows
<1>1. StrikeInv /\ TypeInv => SuppressionFollows
  <2> SUFFICES ASSUME StrikeInv, TypeInv, NEW e \in Event, webhook_events[e] = "processed"
               PROVE  /\ e.type = "unsubscribed" => <<Recipient(e), "all">> \in suppressions
                      /\ e.type = "bounced_hard" => <<Recipient(e), "email">> \in suppressions
                      /\ (/\ e.type = "bounced_soft"
                          /\ SoftStrikes(Recipient(e)) >= SoftThreshold
                          /\ \A x \in Event : x.type = "bounced_soft" => webhook_events[x] \in {"none", "processed"})
                           => <<Recipient(e), "email">> \in suppressions
    BY DEF SuppressionFollows
  <2>1. Recipient(e) \in Leads
    <3>1. mail[e.pid] # NULL /\ e.pid \in Pids
      BY DEF TypeInv, EventsMailed, Recorded, Event
    <3>2. mail[e.pid].body \in MsgIds /\ msgs[mail[e.pid].body].status # "absent"
      BY <3>1, TypeInvFacts DEF TypeInv, MailsNamed, Mail
    <3> QED BY <3>2 DEF Recipient, LeadOf, TypeInv, RowsNamed
  <2> QED BY <2>1 DEF StrikeInv, Settled, StrikesCount, Open, Entry
<1> QED BY <1>1, TypeInvInit, TypeInvNext, ConfInvInit, ConfInvNext, CauseInvInit, CauseInvNext,
        StrikeInvInit, StrikeInvNext, PTL DEF Spec
-----------------------------------------------------------------------------
(* The lifecycle of the rows.  Each statement is shown to be one kind of   *)
(* step of MessageLifecycle, then each action to issue such statements.    *)

(* What a step does to a row, seen as its lifecycle. *)
SameRow(row, next) ==
  Place(next) = Place(row) /\ KeyOf(next) = KeyOf(row) /\ next.pid = row.pid

LifeStep ==
  \/ Lifecycle!Next
  \/ UNCHANGED <<[m \in MsgIds |-> Place(msgs[m])], [m \in MsgIds |-> KeyOf(msgs[m])],
                 [m \in MsgIds |-> msgs[m].pid]>>

(* A statement that leaves place, key and provider id of all rows alone is *)
(* a stutter of the lifecycle.                                             *)
LEMMA SameRows ==
  ASSUME \A m \in MsgIds : SameRow(msgs[m], msgs'[m])
  PROVE  LifeStep
BY DEF SameRow, LifeStep

(* A statement moves the rows S from one place to another. *)
MovedTo(S, from, to) ==
  \A m \in MsgIds :
    IF m \in S THEN /\ Place(msgs[m]) = from /\ Place(msgs'[m]) = to
                    /\ KeyOf(msgs'[m]) = KeyOf(msgs[m]) /\ msgs'[m].pid = msgs[m].pid
    ELSE SameRow(msgs[m], msgs'[m])

(* Along the lifecycle, that is a step of it. *)
LEMMA RowsMoveOn ==
  ASSUME NEW S, S \subseteq MsgIds, NEW from, NEW to, MovedTo(S, from, to),
         \/ from = "pending" /\ to \in {"dispatching", "cancelled"}
         \/ from = "dispatching" /\ to \in {"pending", "cancelled", "given up"}
  PROVE  LifeStep
<1> USE DEF MovedTo
<1>1. Lifecycle!Moves(from, to)
  <2>1. S \in SUBSET {m \in MsgIds : [n \in MsgIds |-> Place(msgs[n])][m] = from}
    OBVIOUS
  <2>2. [m \in MsgIds |-> Place(msgs'[m])]
          = [m \in MsgIds |-> IF m \in S THEN to ELSE [n \in MsgIds |-> Place(msgs[n])][m]]
    BY DEF SameRow
  <2>3. /\ [m \in MsgIds |-> KeyOf(msgs'[m])] = [m \in MsgIds |-> KeyOf(msgs[m])]
        /\ [m \in MsgIds |-> msgs'[m].pid] = [m \in MsgIds |-> msgs[m].pid]
    BY DEF SameRow
  <2> QED BY <2>1, <2>2, <2>3 DEF Lifecycle!Moves
<1>2. from = "pending" /\ to = "dispatching" => Lifecycle!Queue
  BY <1>1 DEF Lifecycle!Queue
<1>3. from = "pending" /\ to = "cancelled" => Lifecycle!Queue
  BY <1>1 DEF Lifecycle!Queue
<1>4. from = "dispatching" /\ to \in {"pending", "cancelled", "given up"} => Lifecycle!Queue
  BY <1>1 DEF Lifecycle!Queue
<1> QED BY <1>2, <1>3, <1>4 DEF Lifecycle!Next, LifeStep

(* The statements of the dispatch queue and the cancellations. *)
Unconfirmed(t) == \A m \in MsgIds : t[m].status \in {"pending", "dispatching"} => t[m].pid = NULL

(* Each of these statements is a step of the queue, or a stutter. *)
LEMMA QueueLives ==
  ASSUME msgs \in Rows, Unconfirmed(msgs)
  PROVE  /\ \A ids \in SUBSET MsgIds : msgs' = ClaimBatch(msgs, ids) => LifeStep
         /\ msgs' = SweepStaleClaims(msgs) => LifeStep
         /\ \A x \in MsgIds, st \in {"pending", "cancelled", "failed"} :
              msgs' = ReleaseClaim(msgs, x, st) => LifeStep
         /\ \A x \in MsgIds : msgs' = MarkSendFailed(msgs, x) => LifeStep
         /\ \A l, seqs : msgs' = CancelPending(msgs, l, seqs) => LifeStep
<1>1. ASSUME NEW ids \in SUBSET MsgIds, msgs' = ClaimBatch(msgs, ids) PROVE LifeStep
  <2> DEFINE S == Claimable(msgs, ids)
  <2>1. MovedTo(S, "pending", "dispatching")
    BY <1>1 DEF ClaimBatch, Claimable, Rows, Row, Place, KeyOf, SameRow, MovedTo
  <2>2. S \subseteq MsgIds
    BY DEF Claimable
  <2> HIDE DEF S
  <2> QED BY <2>1, <2>2, RowsMoveOn
<1>2. ASSUME msgs' = SweepStaleClaims(msgs) PROVE LifeStep
  <2> DEFINE S == {m \in MsgIds : msgs[m].status = "dispatching" /\ msgs[m].stale}
  <2>1. MovedTo(S, "dispatching", "pending")
    BY <1>2 DEF SweepStaleClaims, Rows, Row, Place, KeyOf, SameRow, MovedTo
  <2>2. S \subseteq MsgIds
    OBVIOUS
  <2> HIDE DEF S
  <2> QED BY <2>1, <2>2, RowsMoveOn
<1>3. ASSUME NEW x \in MsgIds, NEW st \in {"pending", "cancelled", "failed"}, msgs' = ReleaseClaim(msgs, x, st)
      PROVE  LifeStep
  <2>1. CASE msgs[x].status = "dispatching"
    <3> DEFINE to == IF st = "failed" THEN "given up" ELSE st
    <3>1. Place(msgs[x]) = "dispatching" /\ Place(msgs'[x]) = to
          /\ KeyOf(msgs'[x]) = KeyOf(msgs[x]) /\ msgs'[x].pid = msgs[x].pid
      BY <1>3, <2>1 DEF Unconfirmed, ReleaseClaim, Rows, Row, Place, KeyOf
    <3>2. MovedTo({x}, "dispatching", to)
      BY <1>3, <2>1, <3>1 DEF ReleaseClaim, Rows, SameRow, MovedTo
    <3>3. to \in {"pending", "cancelled", "given up"}
      OBVIOUS
    <3> HIDE DEF to
    <3> QED BY <3>2, <3>3, RowsMoveOn
  <2>2. CASE msgs[x].status # "dispatching"
    BY <1>3, <2>2, SameRows DEF ReleaseClaim, SameRow
  <2> QED BY <2>1, <2>2
<1>4. ASSUME NEW x \in MsgIds, msgs' = MarkSendFailed(msgs, x) PROVE LifeStep
  <2> DEFINE S == {x} \cap {m \in MsgIds : msgs[m].status = "dispatching"}
  <2>1. MovedTo(S, "dispatching", "given up")
    BY <1>4 DEF MarkSendFailed, SetStatus, Unconfirmed, Rows, Row, Place, KeyOf, SameRow, MovedTo
  <2>2. S \subseteq MsgIds
    OBVIOUS
  <2> HIDE DEF S
  <2> QED BY <2>1, <2>2, RowsMoveOn
<1>5. ASSUME NEW l, NEW seqs, msgs' = CancelPending(msgs, l, seqs) PROVE LifeStep
  <2> DEFINE S == {m \in MsgIds : msgs[m].status = "pending" /\ msgs[m].lead = l /\ msgs[m].seq \in seqs}
  <2>1. MovedTo(S, "pending", "cancelled")
    BY <1>5 DEF CancelPending, SetStatus, Rows, Row, Place, KeyOf, SameRow, MovedTo
  <2>2. S \subseteq MsgIds
    OBVIOUS
  <2> HIDE DEF S
  <2> QED BY <2>1, <2>2, RowsMoveOn
<1> QED BY <1>1, <1>2, <1>3, <1>4, <1>5

(* The partial UNIQUE index is what Free says. *)
LEMMA FreeKeys ==
  ASSUME msgs \in Rows, NEW l, NEW s, NEW i, ~ Occupied(msgs, l, s, i)
  PROVE  Lifecycle!Free(<<l, s, i>>)
<1>1. ASSUME NEW m \in MsgIds, KeyOf(msgs[m]) = <<l, s, i>> PROVE Place(msgs[m]) \in {"absent", "cancelled"}
  <2>1. msgs[m].status = "absent" \/ (msgs[m].lead = l /\ msgs[m].seq = s /\ msgs[m].step = i)
    BY <1>1 DEF KeyOf
  <2>2. msgs[m].status \in {"absent", "cancelled"}
    BY <2>1 DEF Occupied
  <2> QED BY <2>2 DEF Place
<1> QED BY <1>1 DEF Lifecycle!Free

(* mark_sent confirms a row by an id that no other row has. *)
LEMMA MarkSentLives ==
  ASSUME TypeInv, ConfInv, NEW n \in MsgIds, NEW p \in Pids, mail[p] # NULL, mail[p].tag = n,
         msgs' = MarkSent(msgs, n, p)
  PROVE  LifeStep
<1> USE TypeInvFacts
<1>1. CASE msgs' = msgs
  BY <1>1, SameRows DEF SameRow
<1>2. CASE msgs' # msgs
  <2> DEFINE k == <<msgs[n].lead, msgs[n].seq, msgs[n].step>>
  <2>1. /\ msgs[n].status # "absent" /\ msgs[n].pid = NULL
        /\ msgs[n].status = "cancelled" => ~ Occupied(msgs, msgs[n].lead, msgs[n].seq, msgs[n].step)
        /\ msgs' = [msgs EXCEPT ![n] = [msgs[n] EXCEPT !.status = "sent", !.pid = p]]
    BY <1>2 DEF MarkSent
  <2>2. p # NULL /\ KeyOf(msgs[n]) = k
    BY <2>1, TablesAssumption DEF KeyOf
  <2>3. \A x \in MsgIds : msgs[x].pid # p
    BY <2>1, <2>2 DEF ConfInv, ProviderIdTraced
  <2>4. Place(msgs'[n]) = "sent" /\ KeyOf(msgs'[n]) = KeyOf(msgs[n]) /\ msgs'[n].pid = p
    BY <2>1 DEF Rows, Row, Place, KeyOf
  <2>5. \A m \in MsgIds \ {n} : msgs'[m] = msgs[m]
    BY <2>1 DEF Rows
  <2>6. Place(msgs[n]) # "absent" /\ (Place(msgs[n]) = "cancelled" => Lifecycle!Free(KeyOf(msgs[n])))
    <3>1. msgs[n].status = "cancelled" => Lifecycle!Free(k)
      BY <2>1, FreeKeys
    <3> QED BY <2>1, <2>2, <3>1 DEF Place
  <2>7. Lifecycle!Confirm(n, p)
    <3>1. [m \in MsgIds |-> Place(msgs'[m])] = [[m \in MsgIds |-> Place(msgs[m])] EXCEPT ![n] = "sent"]
      BY <2>4, <2>5
    <3>2. [m \in MsgIds |-> msgs'[m].pid] = [[m \in MsgIds |-> msgs[m].pid] EXCEPT ![n] = p]
      BY <2>4, <2>5
    <3>3. [m \in MsgIds |-> KeyOf(msgs'[m])] = [m \in MsgIds |-> KeyOf(msgs[m])]
      BY <2>4, <2>5
    <3> QED BY <2>1, <2>3, <2>6, <3>1, <3>2, <3>3 DEF Lifecycle!Confirm
  <2> QED BY <2>7 DEF Lifecycle!Next, LifeStep
<1> QED BY <1>1, <1>2

(* A bounce, a reply and an opt-out find one row at most, by its id. *)
LEMMA ReactionLives ==
  ASSUME TypeInv, ConfInv, NEW p \in Pids, NEW from \in SUBSET {"pending", "sent", "replied"},
         NEW to \in {"bounced", "replied", "unsubscribed"}, "replied" \in from => to = "unsubscribed",
         msgs' = SetStatus(msgs, WithPid(msgs, p, from), to)
  PROVE  LifeStep
<1> USE TypeInvFacts
<1>1. CASE WithPid(msgs, p, from) = {}
  BY <1>1, SameRows DEF SetStatus, Rows, SameRow
<1>2. ASSUME NEW n \in WithPid(msgs, p, from) PROVE LifeStep
  <2>1. n \in MsgIds /\ msgs[n].pid = p /\ p # NULL /\ msgs[n].status \in from
    BY <1>2, TablesAssumption DEF WithPid
  <2>2. msgs[n].status = "sent" \/ (msgs[n].status = "replied" /\ to = "unsubscribed")
    BY <2>1 DEF ConfInv, ConfirmedNeverQueued
  <2>3. WithPid(msgs, p, from) = {n}
    BY <2>1 DEF WithPid, ConfInv, ProviderIdTraced
  <2>4. Place(msgs'[n]) = to /\ KeyOf(msgs'[n]) = KeyOf(msgs[n]) /\ msgs'[n].pid = msgs[n].pid
    <3>1. msgs[n] \in Row /\ msgs'[n] = [msgs[n] EXCEPT !.status = to]
      BY <2>1, <2>3 DEF SetStatus, Rows
    <3>2. /\ msgs'[n].status = to /\ msgs'[n].pid = p
          /\ msgs'[n].lead = msgs[n].lead /\ msgs'[n].seq = msgs[n].seq /\ msgs'[n].step = msgs[n].step
      BY <2>1, <3>1 DEF Row
    <3> QED BY <2>1, <2>2, <3>2 DEF Place, KeyOf
  <2>5. \A m \in MsgIds \ {n} : msgs'[m] = msgs[m]
    BY <2>3 DEF SetStatus
  <2>6. Lifecycle!React(n, to)
    <3>1. [m \in MsgIds |-> Place(msgs'[m])] = [[m \in MsgIds |-> Place(msgs[m])] EXCEPT ![n] = to]
      BY <2>4, <2>5
    <3>2. /\ [m \in MsgIds |-> msgs'[m].pid] = [m \in MsgIds |-> msgs[m].pid]
          /\ [m \in MsgIds |-> KeyOf(msgs'[m])] = [m \in MsgIds |-> KeyOf(msgs[m])]
      BY <2>4, <2>5
    <3>3. Place(msgs[n]) = msgs[n].status
      BY <2>2 DEF Place
    <3> QED BY <2>1, <2>2, <3>1, <3>2, <3>3 DEF Lifecycle!React
  <2> QED BY <2>1, <2>6 DEF Lifecycle!Next, LifeStep
<1> QED BY <1>1, <1>2

(* The INSERT of a next step takes a key that is free. *)
LEMMA AdvanceLives ==
  ASSUME TypeInv, NEW h \in Processes, HandleAdvance(h)
  PROVE  LifeStep
<1> USE TypeInvFacts
<1> DEFINE n == handler[h].row
           next == msgs[n].step + 1
           inReply == IF next \in Threaded THEN handler[h].rowPid ELSE NULL
<1>1. CASE msgs' = msgs
  BY <1>1, SameRows DEF SameRow
<1>2. CASE msgs' # msgs
  <2>1. /\ Advances(handler[h].ev, next)
        /\ HasRoom(msgs) \/ Occupied(msgs, msgs[n].lead, msgs[n].seq, next)
        /\ msgs' = InsertNextStep(msgs, msgs[n].lead, msgs[n].seq, next, inReply)
    BY <1>2 DEF HandleAdvance
  <2>2. Advances(handler[h].ev, next)
    BY <1>2 DEF HandleAdvance
  <2>3. ~ Occupied(msgs, msgs[n].lead, msgs[n].seq, next)
    BY <1>2, <2>1 DEF InsertNextStep
  <2>4. n \in MsgIds /\ msgs[n].lead \in Leads /\ msgs[n].seq \in Sequences /\ next \in Steps
    <3>1. n \in MsgIds /\ msgs[n].status # "absent" /\ msgs[n].step \in Steps
      BY AdvanceInserts
    <3> QED BY <2>2, <3>1, TablesAssumption DEF TypeInv, RowsNamed, Advances, Steps
  <2> DEFINE k == <<msgs[n].lead, msgs[n].seq, next>>
             new == CHOOSE m \in MsgIds : msgs[m].status = "absent"
             row == NewRow(msgs[n].lead, msgs[n].seq, next, inReply, "later")
  <2>5. new \in MsgIds /\ msgs[new].status = "absent"
    BY <2>1, <2>3 DEF HasRoom
  <2>6. msgs' = [msgs EXCEPT ![new] = row]
    BY <2>1, <2>3 DEF InsertNextStep
  <2>7. Place(row) = "pending" /\ KeyOf(row) = k /\ row.pid = NULL
    BY DEF Place, KeyOf, NewRow
  <2>8. Lifecycle!Free(k) /\ k \in Leads \X Sequences \X Steps
    <3> HIDE DEF next
    <3> QED BY <2>3, <2>4, FreeKeys
  <2> HIDE DEF new, row, k
  <2>9. Lifecycle!Insert(new, k)
    <3>1. msgs'[new] = row /\ \A m \in MsgIds \ {new} : msgs'[m] = msgs[m]
      BY <2>5, <2>6 DEF Rows
    <3>2. [m \in MsgIds |-> Place(msgs'[m])] = [[m \in MsgIds |-> Place(msgs[m])] EXCEPT ![new] = "pending"]
      BY <2>7, <3>1
    <3>3. [m \in MsgIds |-> KeyOf(msgs'[m])] = [[m \in MsgIds |-> KeyOf(msgs[m])] EXCEPT ![new] = k]
      BY <2>7, <3>1
    <3>4. msgs[new].pid = NULL /\ Place(msgs[new]) = "absent"
      BY <2>5 DEF TypeInv, RowsNamed, Place
    <3>5. [m \in MsgIds |-> msgs'[m].pid] = [m \in MsgIds |-> msgs[m].pid]
      BY <2>7, <3>1, <3>4
    <3> QED BY <2>5, <2>8, <3>2, <3>3, <3>4, <3>5 DEF Lifecycle!Insert
  <2> QED BY <2>5, <2>8, <2>9 DEF Lifecycle!Next, LifeStep
<1> QED BY <1>1, <1>2
-----------------------------------------------------------------------------
(* Each call of a tick executes one statement at most. *)
LEMMA DispatchLives ==
  ASSUME TypeInv, ConfInv, NEW t \in Ticks, Dispatch(t)
  PROVE  LifeStep
<1> USE TypeInvFacts
<1>1. Unconfirmed(msgs)
  BY DEF Unconfirmed, ConfInv, ConfirmedNeverQueued
<1>2. CASE msgs' = msgs
  BY <1>2, SameRows DEF SameRow
<1>3. CASE TickSweep(t)
  BY <1>1, <1>2, <1>3, QueueLives DEF TickSweep
<1>4. CASE TickClaim(t)
  <2>1. tick[t].batch \in SUBSET MsgIds
    BY DEF TickState
  <2> QED BY <1>1, <1>2, <1>4, <2>1, QueueLives DEF TickClaim
<1>5. CASE TickBuild(t)
  <2>1. PICK m \in tick[t].batch :
          (\E st \in {"pending", "cancelled", "failed"} : TickRelease(t, m, st)) \/ TickAppend(t, m)
    BY <1>5 DEF TickBuild, TickPostpone
  <2>2. m \in MsgIds
    BY DEF TickState
  <2> QED BY <1>1, <1>2, <2>1, <2>2, QueueLives DEF TickRelease, TickAppend
<1>6. CASE TickMarkFailed(t)
  <2>1. PICK b \in tick[t].errors : msgs' = msgs \/ msgs' = MarkSendFailed(msgs, tick[t].tag[LeadOf(b)])
    BY <1>6 DEF TickMarkFailed
  <2> DEFINE m == tick[t].tag[LeadOf(b)]
  <2>2. m \in MsgIds \/ MarkSendFailed(msgs, m) = msgs
    BY DEF MarkSendFailed, SetStatus, Rows
  <2> HIDE DEF m
  <2> QED BY <1>1, <1>2, <2>1, <2>2, QueueLives DEF m
<1> QED BY <1>2, <1>3, <1>4, <1>5, <1>6 DEF Dispatch, TickStep, TickFault, TickSelect, TickFetch,
        TickRecheck, ProviderAccept, ProviderReject, TickResponse, TickHttpError,
        TickTransportError, TickStop, tables

(* So does each call of a handler. *)
LEMMA WebhookLives ==
  ASSUME TypeInv, ConfInv, NEW h \in Processes, Webhook(h)
  PROVE  LifeStep
<1> DEFINE e == handler[h].ev
<1>1. CASE msgs' = msgs
  BY <1>1, SameRows DEF SameRow
<1>2. CASE handler[h].pc # "idle" /\ msgs' = Mark(e)
  <2>1. /\ e \in Event /\ mail[e.pid] # NULL /\ mail[e.pid].tag \in MsgIds /\ e.pid \in Pids
    BY <1>2, WorkingOn, TypeInvFacts DEF Mail, HandlerOK
  <2>2. e.type \in {"sent", "bounced_hard", "bounced_soft", "unsubscribed", "replied"}
    BY <2>1, WebhookAssumption DEF Event
  <2> HIDE DEF e
  <2>3. \/ msgs' = MarkSent(msgs, mail[e.pid].tag, e.pid)
        \/ msgs' = MarkBounced(msgs, e.pid)
        \/ msgs' = MarkUnsubscribed(msgs, e.pid)
        \/ msgs' = MarkReplied(msgs, e.pid)
    BY <1>2, <2>2 DEF Mark, Bounces
  <2> DEFINE p == e.pid
  <2>4. p \in Pids /\ mail[p] # NULL /\ mail[p].tag \in MsgIds
    BY <2>1
  <2>5. CASE msgs' = MarkSent(msgs, mail[p].tag, p)
    BY <2>4, <2>5, MarkSentLives
  <2>6. CASE msgs' = SetStatus(msgs, WithPid(msgs, p, {"pending", "sent"}), "bounced")
    BY <2>4, <2>6, ReactionLives
  <2>7. CASE msgs' = SetStatus(msgs, WithPid(msgs, p, {"pending", "sent", "replied"}), "unsubscribed")
    BY <2>4, <2>7, ReactionLives
  <2>8. CASE msgs' = SetStatus(msgs, WithPid(msgs, p, {"sent"}), "replied")
    BY <2>4, <2>8, ReactionLives
  <2> QED BY <2>3, <2>5, <2>6, <2>7, <2>8 DEF MarkBounced, MarkUnsubscribed, MarkReplied
<1>3. CASE msgs' = Cancel(h)
  <2>1. Unconfirmed(msgs)
    BY DEF Unconfirmed, ConfInv, ConfirmedNeverQueued
  <2>2. Cancel(h) = msgs \/ \E l, seqs : Cancel(h) = CancelPending(msgs, l, seqs)
    BY DEF Cancel
  <2> QED BY <1>1, <1>3, <2>1, <2>2, TypeInvFacts, QueueLives
<1> QED BY <1>1, <1>2, <1>3, AdvanceLives DEF Webhook, HandlerStep, HandleMark, HandleCancel,
        HandleLookup, HandleCount, HandleSuppress, HandleStamp, HandlerCrash

(* Every step is a step of the lifecycles, or none. *)
LEMMA StepLives ==
  ASSUME TypeInv, ConfInv, [Next]_vars
  PROVE  LifeStep
<1>1. CASE msgs' = msgs
  BY <1>1, SameRows DEF SameRow
<1>2. ASSUME NEW m \in MsgIds, Elapse(m) PROVE LifeStep
  <2>1. ASSUME NEW n \in MsgIds PROVE SameRow(msgs[n], msgs'[n])
    <3>1. /\ msgs'[n].status = msgs[n].status /\ msgs'[n].pid = msgs[n].pid
          /\ msgs'[n].lead = msgs[n].lead /\ msgs'[n].seq = msgs[n].seq /\ msgs'[n].step = msgs[n].step
      BY <1>2, TypeInvFacts DEF Elapse, BecomeDue, BecomeStale, Rows, Row
    <3> QED BY <3>1 DEF SameRow, Place, KeyOf
  <2> QED BY <2>1, SameRows
<1>3. CASE Ingress \/ Sweep \/ (\E e \in Event : Grace(e)) \/ UNCHANGED vars
  BY <1>1, <1>3 DEF Ingress, ProviderEvent, DeliverFails, Deliver, Sweep, SweepSelect, SweepNext,
     Grace, GraceEnds, vars, tables
<1> QED BY <1>2, <1>3, DispatchLives, WebhookLives DEF Next

(* The enrolled rows are those the lifecycle begins with. *)
LEMMA LivesFirst == Init => Lifecycle!Init
<1> SUFFICES ASSUME Init PROVE Lifecycle!Init
  OBVIOUS
<1>1. \A m \in MsgIds : /\ msgs[m].pid = NULL
                        /\ Place(msgs[m]) = IF m \in DOMAIN Enrolment THEN "pending" ELSE "absent"
                        /\ KeyOf(msgs[m]) = IF m \in DOMAIN Enrolment
                                            THEN <<Enrolment[m][1], Enrolment[m][2], 0>> ELSE NULL
  BY DEF Init, TablesInit, NewRow, NoRow, Place, KeyOf
<1> QED BY <1>1 DEF Lifecycle!Init

(* The table keeps the promise of MessageLifecycle, for every number of    *)
(* rows, ticks and tasks and through every fault.                          *)
THEOREM LifecycleImplemented == Spec => LifecycleSpec
<1>1. TypeInv /\ ConfInv /\ [Next]_vars => LifeStep
  BY StepLives
<1> QED BY <1>1, LivesFirst, TypeInvInit, TypeInvNext, ConfInvInit, ConfInvNext, PTL
        DEF Spec, LifecycleSpec, Lifecycle!Spec, LifeStep
=============================================================================
