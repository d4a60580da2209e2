------------------------- MODULE InstantlyWebhooks --------------------------
(***************************************************************************)
(* Instantly's events and what the backend does with them: the endpoint    *)
(* webhook_instantly, its background task _process_instantly_event with    *)
(* the four handlers (src/backend/main.py), the sequence advancer          *)
(* (src/src/services/sequence_advancer.py) and the cron worker that        *)
(* replays unprocessed events (src/src/workers/webhook_sweeper.py).        *)
(*                                                                         *)
(* A handler process is one background task, or the sweeper; each of its   *)
(* actions is one database round trip of the handler.  The repository      *)
(* catches the errors of its UPDATEs, so a call that fails ("db" fault)    *)
(* looks to the handler like one that matched no row; the errors of two    *)
(* calls end the handler.                                                  *)
(***************************************************************************)
EXTENDS OutreachTables

CONSTANTS
  Handlers,       \* background tasks that may overlap
  Sweeper,        \* the webhook sweeper's own process
  EventTypes,     \* the event types of this instance
  SoftThreshold   \* SOFT_THRESHOLD

ASSUME WebhookAssumption ==
  /\ EventTypes \subseteq {"sent", "bounced_hard", "bounced_soft", "unsubscribed", "replied"}
  /\ "sent" \in EventTypes
  /\ Sweeper \notin Handlers
  /\ SoftThreshold \in Nat \ {0}

VARIABLES
  happened,        \* external: the events Instantly has to report
  acked,           \* external: the events answered 200
  webhook_events,  \* public.webhook_events: none, received (within the sweeper's
                   \* grace), overdue, processed, or errored (processing_error)
  handler,         \* the running background tasks
  sweep            \* the sweeper's SELECT result still to process

hooks == <<happened, acked, webhook_events, handler, sweep>>

Event == [type : EventTypes, pid : Pids]
Ev(type, p) == [type |-> type, pid |-> p]
Processes == Handlers \cup {Sweeper}

Recorded(e) == webhook_events[e] # "none"
Done(e) == webhook_events[e] \in {"processed", "errored"}

idleHandler == [pc |-> "idle", ev |-> NULL, row |-> NULL, rowPid |-> NULL]

HandlerState ==
  [pc : {"idle", "mark", "lookup", "count", "suppress", "cancel", "advance",
         "stamp", "stampError"},
   ev : Event \cup {NULL},
   row : MsgIds \cup {NULL},     \* msg_row, by id
   rowPid : Pids \cup {NULL}]    \* msg_row's provider_message_id when it was read

Recipient(e) == LeadOf(mail[e.pid].body)
Goto(h, pc) == handler' = [handler EXCEPT ![h].pc = pc]
Finish(h) == handler' = [handler EXCEPT ![h] = idleHandler]
-----------------------------------------------------------------------------
(* External: what Instantly reports of a mail it accepted. *)
Bounces == {"bounced_hard", "bounced_soft"}

ProviderEvent(e) ==
  /\ e \notin happened /\ mail[e.pid] # NULL
  /\ LET has(types) == \E x \in happened : x.pid = e.pid /\ x.type \in types IN
       CASE e.type = "sent" -> TRUE
         [] e.type \in Bounces -> has({"sent"}) /\ ~ has(Bounces \cup {"replied", "unsubscribed"})
         [] OTHER -> has({"sent"}) /\ ~ has(Bounces)
  /\ happened' = happened \cup {e}
  /\ UNCHANGED <<acked, webhook_events, handler, sweep, tables>>

(* Instantly delivers an event until it is answered 200, and now and then  *)
(* again; with "reorder" it need not deliver the email_sent of a mail      *)
(* before the other events of that mail.                                   *)
InOrder(e) == \/ e.type = "sent" \/ "reorder" \in FaultKinds
              \/ Done(Ev("sent", e.pid))

(* Mutant: the task is scheduled and the event is not recorded. *)
DeliverUnrecorded(h, e) ==
  /\ h \in Handlers /\ handler[h].pc = "idle"
  /\ e \in happened /\ InOrder(e)
  /\ IF e \in acked THEN Fault("duplicate") ELSE UNCHANGED faults
  /\ acked' = acked \cup {e}
  /\ handler' = [handler EXCEPT ![h] = [idleHandler EXCEPT !.pc = "mark", !.ev = e]]
  /\ UNCHANGED <<happened, webhook_events, sweep, msgs, suppressions, mail>>

(* The INSERT commits, or hits the UNIQUE (provider, event_id); either way *)
(* the task is scheduled.  An error whose row is found on the re-read ends *)
(* like this too.                                                          *)
Deliver(h, e) ==
  /\ h \in Handlers /\ handler[h].pc = "idle"
  /\ e \in happened /\ InOrder(e)
  /\ IF e \in acked THEN Fault("duplicate") ELSE UNCHANGED faults
  /\ acked' = acked \cup {e}
  /\ webhook_events' = [webhook_events EXCEPT ![e] = IF @ = "none" THEN "received" ELSE @]
  /\ handler' = [handler EXCEPT ![h] = [idleHandler EXCEPT !.pc = "mark", !.ev = e]]
  /\ UNCHANGED <<happened, sweep, msgs, suppressions, mail>>

(* 500: the INSERT failed, or committed and the re-read failed as well. *)
DeliverFails(e) ==
  /\ e \in happened /\ InOrder(e) /\ ~ Recorded(e)
  /\ Fault("db")
  /\ webhook_events' \in {webhook_events, [webhook_events EXCEPT ![e] = "received"]}
  /\ UNCHANGED <<happened, acked, handler, sweep, msgs, suppressions, mail>>
-----------------------------------------------------------------------------
(* Mutant: email_sent is matched to a row by the recipient. *)
MarkByRecipient(e) ==
  LET open == {m \in MsgIds : msgs[m].lead = Recipient(e) /\ msgs[m].pid = NULL}
  IN  IF e.type # "sent" \/ open = {} THEN msgs
      ELSE MarkSent(msgs, CHOOSE m \in open : TRUE, e.pid)

(* The mark_* call that opens each handler. *)
Mark(e) == CASE e.type = "sent"         -> MarkSent(msgs, mail[e.pid].tag, e.pid)
             [] e.type \in Bounces      -> MarkBounced(msgs, e.pid)
             [] e.type = "unsubscribed" -> MarkUnsubscribed(msgs, e.pid)
             [] e.type = "replied"      -> MarkReplied(msgs, e.pid)

HandleMark(h) ==
  /\ handler[h].pc = "mark"
  /\ \/ msgs' = Mark(handler[h].ev) /\ UNCHANGED faults
     \/ Fault("db") /\ UNCHANGED msgs
  /\ Goto(h, "lookup")
  /\ UNCHANGED <<happened, acked, webhook_events, sweep, suppressions, mail>>

(* The row, by lds_message_id for email_sent, by provider id for the rest; *)
(* a miss and an error both give None.                                     *)
RowOf(e) == IF e.type = "sent" THEN {mail[e.pid].tag}
            ELSE {m \in MsgIds : msgs[m].pid = e.pid}

AfterLookup(e, row) ==
  CASE e.type = "sent"         -> IF row = NULL THEN "stamp" ELSE "advance"
    [] e.type \in Bounces      -> "count"
    [] e.type = "unsubscribed" -> "suppress"
    [] e.type = "replied"      -> IF row = NULL THEN "stamp" ELSE "cancel"

HandleLookup(h) ==
  /\ handler[h].pc = "lookup"
  /\ LET e == handler[h].ev
         found(m) == handler' = [handler EXCEPT ![h] =
                       [pc |-> AfterLookup(e, m), ev |-> e, row |-> m,
                        rowPid |-> IF m = NULL THEN NULL ELSE msgs[m].pid]]
     IN  \/ \E m \in RowOf(e) : found(m) /\ UNCHANGED faults
         \/ RowOf(e) = {} /\ found(NULL) /\ UNCHANGED faults
         \/ Fault("db") /\ found(NULL)
  /\ UNCHANGED <<happened, acked, webhook_events, sweep, msgs, suppressions, mail>>

(* Mutant: the bounce at hand is not counted. *)
EarlierStrikes(l) == Cardinality({e \in Event : /\ Done(e) /\ e.type = "bounced_soft"
                                                /\ Recipient(e) = l})

(* The strike count and decide_bounce_action; a failed count means hard. *)
SoftStrikes(l) == Cardinality({e \in Event : /\ Recorded(e) /\ e.type = "bounced_soft"
                                             /\ Recipient(e) = l})

HandleCount(h) ==
  /\ handler[h].pc = "count"
  /\ LET e == handler[h].ev
         noop == e.type = "bounced_soft" /\ SoftStrikes(Recipient(e)) < SoftThreshold
     IN  \/ Goto(h, IF noop THEN "stamp" ELSE "suppress") /\ UNCHANGED faults
         \/ Fault("db") /\ Goto(h, "suppress")
  /\ UNCHANGED <<happened, acked, webhook_events, sweep, msgs, suppressions, mail>>

(* The error of a suppression INSERT reaches the caller: a transport       *)
(* error, committed or not, leaves processed_at NULL; any other error is   *)
(* stamped as processing_error.                                            *)
HandleSuppress(h) ==
  /\ handler[h].pc = "suppress"
  /\ LET e == handler[h].ev
         added == suppressions \cup
           {<<Recipient(e), IF e.type = "unsubscribed" THEN "all" ELSE "email">>}
     IN  \/ suppressions' = added /\ Goto(h, "cancel") /\ UNCHANGED faults
         \/ Fault("db") /\ suppressions' \in {suppressions, added} /\ Finish(h)
         \/ Fault("db") /\ UNCHANGED suppressions /\ Goto(h, "stampError")
  /\ UNCHANGED <<happened, acked, webhook_events, sweep, msgs, mail>>

(* unsubscribed: every sequence of the lead, found by the row or by e-mail; *)
(* bounced, replied: the row's own sequence.                                *)
Cancel(h) ==
  LET e == handler[h].ev  m == handler[h].row IN
  CASE e.type = "unsubscribed" -> CancelPending(msgs, Recipient(e), Sequences)
    [] e.type # "unsubscribed" /\ m = NULL -> msgs
    [] OTHER -> CancelPending(msgs, msgs[m].lead, {msgs[m].seq})

HandleCancel(h) ==
  /\ handler[h].pc = "cancel"
  /\ \/ msgs' = Cancel(h) /\ UNCHANGED faults
     \/ Fault("db") /\ UNCHANGED msgs
  /\ Goto(h, IF handler[h].ev.type = "replied" THEN "advance" ELSE "stamp")
  /\ UNCHANGED <<happened, acked, webhook_events, sweep, suppressions, mail>>

(* Mutants: the end of the sequence is not checked; the branch is not. *)
AdvancesPastEnd(e, next) == (e.type = "replied") <=> (next \in ReplyOnly)
AdvancesAlways(e, next) == next < NumSteps

(* advance_to_next_step: sent walks into every step but a reply-only one,  *)
(* replied only into a reply-only one.  A threaded step refers to the      *)
(* provider id of the row as it was read.  An error of the first read or   *)
(* of the INSERT is caught; one of get_by_index ends the handler.          *)
Advances(e, next) ==
  /\ next < NumSteps
  /\ (e.type = "replied") <=> (next \in ReplyOnly)

HandleAdvance(h) ==
  /\ handler[h].pc = "advance"
  /\ LET m == handler[h].row
         next == msgs[m].step + 1
         inReply == IF next \in Threaded THEN handler[h].rowPid ELSE NULL
     IN  \/ /\ Advances(handler[h].ev, next)
            /\ HasRoom(msgs) \/ Occupied(msgs, msgs[m].lead, msgs[m].seq, next)
            /\ msgs' = InsertNextStep(msgs, msgs[m].lead, msgs[m].seq, next, inReply)
            /\ Goto(h, "stamp") /\ UNCHANGED faults
         \/ /\ ~ Advances(handler[h].ev, next)
            /\ Goto(h, "stamp") /\ UNCHANGED <<msgs, faults>>
         \/ /\ Fault("db") /\ UNCHANGED msgs
            /\ Goto(h, "stamp") \/ Goto(h, "stampError") \/ Finish(h)
  /\ UNCHANGED <<happened, acked, webhook_events, sweep, suppressions, mail>>

(* The checkpoint UPDATE; an error is swallowed and the sweeper retries. *)
HandleStamp(h) ==
  /\ handler[h].pc \in {"stamp", "stampError"}
  /\ \/ /\ webhook_events' = [webhook_events EXCEPT ![handler[h].ev] =
                                IF handler[h].pc = "stamp" THEN "processed" ELSE "errored"]
        /\ UNCHANGED faults
     \/ Fault("db") /\ UNCHANGED webhook_events
  /\ Finish(h)
  /\ UNCHANGED <<happened, acked, sweep, msgs, suppressions, mail>>

(* The process dies; the sweeper's deadline may also end it between events. *)
HandlerCrash(h) ==
  /\ handler[h].pc # "idle" \/ (h = Sweeper /\ sweep # {})
  /\ Fault("crash")
  /\ Finish(h)
  /\ sweep' = IF h = Sweeper THEN {} ELSE sweep
  /\ UNCHANGED <<happened, acked, webhook_events, msgs, suppressions, mail>>
-----------------------------------------------------------------------------
(* Mutant: the sweeper selects the events that ended in an error. *)
UnprocessedErrors == {e \in Event : webhook_events[e] = "errored"}

(* The grace period of an event is over.  A task that is still at work on  *)
(* the event then, more than 60 s after it was received, is a fault.       *)
GraceEnds(e) ==
  /\ webhook_events[e] = "received"
  /\ webhook_events' = [webhook_events EXCEPT ![e] = "overdue"]
  /\ IF \E h \in Handlers : handler[h].ev = e THEN Fault("slow") ELSE UNCHANGED faults
  /\ UNCHANGED <<happened, acked, handler, sweep, msgs, suppressions, mail>>

(* The sweeper selects the unprocessed events once, then runs the handler  *)
(* on each of them without looking at the row again.                       *)
Unprocessed == {e \in Event : webhook_events[e] = "overdue"}

SweepSelect ==
  /\ handler[Sweeper].pc = "idle" /\ sweep = {} /\ Unprocessed # {}
  /\ sweep' = Unprocessed
  /\ UNCHANGED <<happened, acked, webhook_events, handler, tables>>

SweepNext ==
  /\ handler[Sweeper].pc = "idle"
  /\ \E e \in sweep :
       /\ handler' = [handler EXCEPT ![Sweeper] = [idleHandler EXCEPT !.pc = "mark", !.ev = e]]
       /\ sweep' = sweep \ {e}
  /\ UNCHANGED <<happened, acked, webhook_events, tables>>
-----------------------------------------------------------------------------
HooksInit ==
  /\ happened = {} /\ acked = {} /\ sweep = {}
  /\ webhook_events = [e \in Event |-> "none"]
  /\ handler = [h \in Processes |-> idleHandler]

HandlerStep(h) ==
  \/ HandleMark(h) \/ HandleLookup(h) \/ HandleCount(h) \/ HandleSuppress(h)
  \/ HandleCancel(h) \/ HandleAdvance(h) \/ HandleStamp(h)

HooksTypeOK ==
  /\ happened \subseteq Event /\ acked \subseteq Event /\ sweep \subseteq Event
  /\ webhook_events \in [Event -> {"none", "received", "overdue", "processed", "errored"}]
  /\ handler \in [Processes -> HandlerState]
=============================================================================
