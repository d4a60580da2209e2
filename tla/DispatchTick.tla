---------------------------- MODULE DispatchTick ----------------------------
(***************************************************************************)
(* The cron worker of src/workers/dispatch_tick.py with                    *)
(* InstantlyDispatcher.push_leads (src/integrations/instantly_sender.py).  *)
(* Every member of Ticks is one cron invocation; invocations may overlap.  *)
(* Each action is one round trip to the database or to Instantly, so every *)
(* other process may run between any two of them.                          *)
(***************************************************************************)
EXTENDS OutreachTables

CONSTANTS
  Ticks,      \* cron invocations that may overlap
  BatchSize,  \* DISPATCH_TICK_BATCH_SIZE
  Verdicts    \* data conditions the build loop may meet: "failed", "window"

ASSUME TickAssumption == BatchSize \in Nat \ {0} /\ Verdicts \subseteq {"failed", "window"}

VARIABLE tick

Reads == {"leads", "steps", "variants", "prior"}

idleTick == [pc |-> "idle", batch |-> {}, supp0 |-> {}, lost |-> {}, ready |-> {},
             blocked |-> {}, built |-> {}, tag |-> [l \in Leads |-> NULL], wire |-> {}, errors |-> {}]

TickState ==
  [pc      : {"idle", "select", "claim", "fetch", "recheck", "build", "posted", "errors"},
   batch   : SUBSET MsgIds,   \* ids selected, then rows claimed and not yet built
   supp0   : SUBSET Leads,    \* history: the leads suppressed when it claimed
   lost    : SUBSET Reads,    \* the batch reads of step 3 that failed
   ready   : SUBSET MsgIds,   \* claimed rows whose prior message was found
   blocked : SUBSET Leads,    \* the answer of filter_suppressed
   built   : SUBSET MsgIds,   \* leads_payload
   tag     : [Leads -> MsgIds \cup {NULL}],  \* message_ids, keyed by unique_key
   wire    : SUBSET MsgIds,   \* entries of the POST Instantly has not consumed
   errors  : SUBSET MsgIds]   \* push_result.errors still to be reconciled

(* The rows an invocation has claimed and still acts upon. *)
Held(t) == IF tick[t].pc \in {"fetch", "recheck", "build", "posted", "errors"}
           THEN tick[t].batch \cup tick[t].built ELSE {}

Stop(t) == tick' = [tick EXCEPT ![t] = idleTick]
-----------------------------------------------------------------------------
(* Step 1: the stale-claim sweep; an error is logged and swallowed. *)
TickSweep(t) ==
  /\ tick[t].pc = "idle"
  /\ tick' = [tick EXCEPT ![t].pc = "select"]
  /\ \/ msgs' = SweepStaleClaims(msgs) /\ UNCHANGED faults
     \/ Fault("db") /\ UNCHANGED msgs
  /\ UNCHANGED <<suppressions, mail>>

(* Step 2, phase 1: SELECT due ids ORDER BY scheduled_at LIMIT BatchSize. *)
TickSelect(t) ==
  /\ tick[t].pc = "select"
  /\ \/ \E S \in SUBSET Due(msgs) :
          /\ Cardinality(S) <= BatchSize
          /\ Cardinality(S) = BatchSize \/ S = Due(msgs)
          /\ IF S = {} THEN Stop(t)
             ELSE tick' = [tick EXCEPT ![t].pc = "claim", ![t].batch = S]
          /\ UNCHANGED faults
     \/ Fault("db") /\ Stop(t)
  /\ UNCHANGED <<msgs, suppressions, mail>>

(* Step 2, phase 2: the conditional UPDATE returns the rows it flipped.  A *)
(* lost answer ends the tick, whether or not the UPDATE was committed.     *)
TickClaim(t) ==
  /\ tick[t].pc = "claim"
  /\ LET won == Claimable(msgs, tick[t].batch) IN
       \/ /\ msgs' = ClaimBatch(msgs, tick[t].batch)
          /\ IF won = {} THEN Stop(t)
             ELSE tick' = [tick EXCEPT ![t].pc = "fetch", ![t].batch = won,
                                       ![t].supp0 = {s[1] : s \in suppressions}]
          /\ UNCHANGED faults
       \/ Fault("db") /\ Stop(t) /\ msgs' \in {msgs, ClaimBatch(msgs, tick[t].batch)}
  /\ UNCHANGED <<suppressions, mail>>

(* Step 3: prior messages are looked up by campaign_messages.id, with the  *)
(* keys found in in_reply_to_message_id.  The fetch_many of the            *)
(* repositories catch their errors, so a read that fails is an empty one.  *)
Found(t) == {m \in tick[t].batch : \E x \in MsgIds : x = msgs[m].inReply /\ msgs[x].pid # NULL}

TickFetch(t) ==
  /\ tick[t].pc = "fetch"
  /\ \E lost \in SUBSET Reads :
       /\ tick' = [tick EXCEPT ![t].pc = "recheck", ![t].lost = lost,
                               ![t].ready = IF "prior" \in lost THEN {} ELSE Found(t)]
       /\ IF lost = {} THEN UNCHANGED faults ELSE Fault("db")
  /\ UNCHANGED <<msgs, suppressions, mail>>

(* Step 4: the suppression recheck of the addresses read, it fails open. *)
TickRecheck(t) ==
  /\ tick[t].pc = "recheck"
  /\ \/ /\ tick' = [tick EXCEPT ![t].pc = "build",
                    ![t].blocked = IF "leads" \in tick[t].lost THEN {} ELSE SuppressedOn("email")]
        /\ UNCHANGED faults
     \/ Fault("db") /\ tick' = [tick EXCEPT ![t].pc = "build", ![t].blocked = {}]
  /\ UNCHANGED <<msgs, suppressions, mail>>

(* The build loop is done with row m; after the last row the POST leaves.  *)
Built(t, m, built, tag) ==
  LET rest == tick[t].batch \ {m} IN
  IF rest = {} /\ built = {}
  THEN Stop(t)
  ELSE tick' = [tick EXCEPT ![t].batch = rest, ![t].built = built, ![t].tag = tag,
                            ![t].pc = IF rest = {} THEN "posted" ELSE "build",
                            ![t].wire = IF rest = {} THEN built ELSE {}]

(* Step 5, the row is released; a failed UPDATE leaves it dispatching. *)
TickRelease(t, m, st) ==
  /\ \/ msgs' = ReleaseClaim(msgs, m, st) /\ UNCHANGED faults
     \/ Fault("db") /\ UNCHANGED msgs
  /\ Built(t, m, tick[t].built, tick[t].tag)

(* Mutant: message_ids is filled after the loop, from its last row. *)
TickAppendLate(t, m) ==
  /\ Built(t, m, tick[t].built \cup {m}, [l \in Leads |-> m])
  /\ UNCHANGED <<msgs, faults>>

(* Step 5, the row's payload is appended and message_ids[lead] overwritten. *)
TickAppend(t, m) ==
  /\ Built(t, m, tick[t].built \cup {m}, [tick[t].tag EXCEPT ![LeadOf(m)] = m])
  /\ UNCHANGED <<msgs, faults>>

NotReady(t, m) == msgs[m].step \in Threaded /\ m \notin tick[t].ready

(* PriorMessageNotReadyError: the row waits another hour. *)
TickPostpone(t, m) == NotReady(t, m) /\ TickRelease(t, m, "pending")

(* No lead, step or variant: the row is failed, and so is one that does    *)
(* not render; a suppressed one is cancelled, one out of its send window,  *)
(* or whose prior message is not ready, waits.                             *)
TickBuild(t) ==
  /\ tick[t].pc = "build"
  /\ \E m \in tick[t].batch :
       LET lost == tick[t].lost
           suppressed == LeadOf(m) \in tick[t].blocked
       IN  \/ /\ \/ "failed" \in Verdicts \/ "leads" \in lost
                 \/ ~ suppressed /\ lost \cap {"steps", "variants"} # {}
              /\ TickRelease(t, m, "failed")
           \/ suppressed /\ TickRelease(t, m, "cancelled")
           \/ /\ ~ suppressed /\ lost \cap {"leads", "steps"} = {}
              /\ \/ "window" \in Verdicts /\ TickRelease(t, m, "pending")
                 \/ "variants" \notin lost /\ TickPostpone(t, m)
                 \/ "variants" \notin lost /\ ~ NotReady(t, m) /\ TickAppend(t, m)
  /\ UNCHANGED <<suppressions, mail>>
-----------------------------------------------------------------------------
(* Step 6.  External: Instantly consumes the POST entry by entry. *)
ProviderAccept(t) ==
  /\ tick[t].pc = "posted"
  /\ \E p \in Pids : mail[p] = NULL      \* bound: an id is left
  /\ \E b \in tick[t].wire :
       /\ mail' = [mail EXCEPT ![CHOOSE p \in Pids : mail[p] = NULL] =
                     [body |-> b, tag |-> tick[t].tag[LeadOf(b)]]]
       /\ tick' = [tick EXCEPT ![t].wire = @ \ {b}]
  /\ UNCHANGED <<msgs, suppressions, faults>>

ProviderReject(t) ==
  /\ tick[t].pc = "posted"
  /\ Fault("reject")
  /\ \E b \in tick[t].wire :
       tick' = [tick EXCEPT ![t].wire = @ \ {b}, ![t].errors = @ \cup {b}]
  /\ UNCHANGED <<msgs, suppressions, mail>>

(* 2xx.  An error is matched to a row by e-mail; one that names an address *)
(* outside the batch is swallowed, unless batch and errors are single.     *)
SingleBatch(t) == /\ Cardinality({LeadOf(m) : m \in tick[t].built}) = 1
                  /\ Cardinality(tick[t].errors) = 1

(* Mutant: any error in the answer is an error of the whole batch. *)
TickResponseAll(t) ==
  /\ tick[t].pc = "posted" /\ tick[t].wire = {}
  /\ IF tick[t].errors = {} THEN Stop(t)
     ELSE tick' = [tick EXCEPT ![t].pc = "errors", ![t].errors = tick[t].built]
  /\ UNCHANGED tables

TickResponse(t) ==
  /\ tick[t].pc = "posted" /\ tick[t].wire = {}
  /\ \E matched \in SUBSET tick[t].errors :
       /\ SingleBatch(t) => matched = tick[t].errors
       /\ IF matched = {} THEN Stop(t)
          ELSE tick' = [tick EXCEPT ![t].pc = "errors", ![t].errors = matched]
  /\ UNCHANGED tables

(* 401, 429 and every other status >= 400: the whole batch is an error. *)
TickHttpError(t) ==
  /\ tick[t].pc = "posted" /\ tick[t].wire = tick[t].built /\ tick[t].errors = {}
  /\ Fault("http")
  /\ tick' = [tick EXCEPT ![t].pc = "errors", ![t].wire = {}, ![t].errors = tick[t].built]
  /\ UNCHANGED <<msgs, suppressions, mail>>

(* aiohttp.ClientError: the whole batch is an error, whatever Instantly did. *)
TickTransportError(t) ==
  /\ tick[t].pc = "posted"
  /\ Fault("transport")
  /\ tick' = [tick EXCEPT ![t].pc = "errors", ![t].wire = {}, ![t].errors = tick[t].built]
  /\ UNCHANGED <<msgs, suppressions, mail>>

(* Step 7: mark_send_failed on the row that message_ids has for the lead. *)
TickMarkFailed(t) ==
  /\ tick[t].pc = "errors"
  /\ \E b \in tick[t].errors :
       /\ IF tick[t].errors = {b} THEN Stop(t)
          ELSE tick' = [tick EXCEPT ![t].errors = @ \ {b}]
       /\ \/ msgs' = MarkSendFailed(msgs, tick[t].tag[LeadOf(b)]) /\ UNCHANGED faults
          \/ Fault("db") /\ UNCHANGED msgs
  /\ UNCHANGED <<suppressions, mail>>

(* The process dies, a runtime cap or a missing dispatcher returns early,  *)
(* or push_leads raises: the rows it holds stay dispatching.  Bound: a     *)
(* POST that finds no provider id left ends like this, for free.           *)
TickStop(t) ==
  /\ tick[t].pc # "idle"
  /\ \/ Fault("kill")
     \/ tick[t].wire # {} /\ (\A p \in Pids : mail[p] # NULL) /\ UNCHANGED faults
  /\ Stop(t)
  /\ UNCHANGED <<msgs, suppressions, mail>>
-----------------------------------------------------------------------------
TickInit == tick = [t \in Ticks |-> idleTick]

TickStep(t) ==
  \/ TickSweep(t) \/ TickSelect(t) \/ TickClaim(t) \/ TickFetch(t)
  \/ TickRecheck(t) \/ TickBuild(t)
  \/ ProviderAccept(t) \/ TickResponse(t) \/ TickMarkFailed(t)

TickFault(t) ==
  \/ ProviderReject(t) \/ TickHttpError(t) \/ TickTransportError(t) \/ TickStop(t)

TickTypeOK == tick \in [Ticks -> TickState]
=============================================================================
