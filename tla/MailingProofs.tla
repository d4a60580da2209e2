---------------------------- MODULE MailingProofs ---------------------------
(***************************************************************************)
(* What the engine promises of the mails it sends, for every number of     *)
(* ticks, tasks, rows, steps and crashes: nobody suppressed is posted, a   *)
(* row is mailed once and under its own id, and what the tables say of a   *)
(* row (processed, bounced by the dispatcher) is true.                     *)
(*                                                                         *)
(* A theorem that needs it says which calls may not fail.                  *)
(* SuppressedNotPosted needs reads that answer ("db"), as the recheck      *)
(* fails open.  MailedOnce and what hangs on it need in addition an email_ *)
(* sent that is not later than the claim timeout ("late"), and one         *)
(* sequence per lead, as message_ids of the tick is keyed by lead.  Ticks  *)
(* and tasks may be killed, and events duplicated, reordered or lost.      *)
(*                                                                         *)
(* MailedOnce is not inductive.  A row is not mailed twice because the row *)
(* that a tick is about to post is nowhere mailed (PostInv), and that is   *)
(* so because a mailed row never is pending again (MailState): its claim   *)
(* does not get stale while its email_sent is out, and an email_sent that  *)
(* is done has set the provider id (TaskInv).  The provider id goes to the *)
(* row with the lds_message_id of the mail, which is the row that was      *)
(* mailed as the rows of a batch have different leads (BatchOK); they do   *)
(* because the UNIQUE index and the ladder of confirmed steps (TableInv)   *)
(* leave a lead one pending row.                                           *)
(*                                                                         *)
(* RepliesWalkTheBranch: a reply that its task has advanced has the next   *)
(* step of the branch in the table (WalkInv); no step undoes it, for only  *)
(* tasks of replies cancel and only one task at a time has an event        *)
(* (TurnInv).                                                              *)
(***************************************************************************)
EXTENDS ConfirmationProofs

-----------------------------------------------------------------------------
(* What a tick read, and what it is about to post or has posted. *)
SameAnswers(r, n) == <<n.supp0, n.lost, n.blocked>> = <<r.supp0, r.lost, r.blocked>>
SamePost(r, n) == <<n.built, n.tag, n.wire, n.errors>> = <<r.built, r.tag, r.wire, r.errors>>

(* Row m has left the batch, by a release or for the POST. *)
BuiltRow(t, m) ==
  LET r == tick[t]  n == tick'[t]  rest == r.batch \ {m} IN
  /\ n.batch = rest /\ SameAnswers(r, n) /\ n.errors = r.errors
  /\ n.pc = IF rest = {} THEN "posted" ELSE "build"
  /\ n.wire = IF rest = {} THEN n.built ELSE {}
  /\ \/ /\ \E st \in {"failed", "cancelled", "pending"} : TickRelease(t, m, st)
        /\ n.built = r.built /\ n.tag = r.tag
     \/ /\ TickAppend(t, m) /\ LeadOf(m) \notin r.blocked
        /\ n.built = r.built \cup {m} /\ n.tag = [r.tag EXCEPT ![LeadOf(m)] = m]

(* The record of a tick before the build loop, and after it. *)
QueueMoves(t) ==
  LET r == tick[t]  n == tick'[t] IN
  /\ SamePost(r, n)
  /\ \/ TickSweep(t) /\ n.pc = "select" /\ n.batch = r.batch /\ SameAnswers(r, n)
     \/ TickSelect(t) /\ n.pc = "claim" /\ SameAnswers(r, n)
     \/ /\ TickClaim(t) /\ n.pc = "fetch" /\ n.batch = Claimable(msgs, r.batch)
        /\ msgs' = ClaimBatch(msgs, r.batch)
        /\ <<n.supp0, n.lost, n.blocked>> = <<{s[1] : s \in suppressions}, r.lost, r.blocked>>
     \/ /\ TickFetch(t) /\ n.pc = "recheck" /\ n.batch = r.batch
        /\ <<n.supp0, n.blocked>> = <<r.supp0, r.blocked>>
        /\ n.lost = {} \/ "db" \in FaultKinds
     \/ /\ TickRecheck(t) /\ n.pc = "build" /\ n.batch = r.batch
        /\ <<n.supp0, n.lost>> = <<r.supp0, r.lost>>
        /\ \/ "db" \in FaultKinds
           \/ n.blocked = IF "leads" \in r.lost THEN {} ELSE SuppressedOn("email")

(* Instantly takes an entry under a provider id that is free. *)
Accepted(t, b) ==
  \E p \in Pids : /\ mail[p] = NULL
                  /\ mail' = [mail EXCEPT ![p] = [body |-> b, tag |-> tick[t].tag[LeadOf(b)]]]

PostMoves(t) ==
  LET r == tick[t]  n == tick'[t] IN
  /\ <<n.batch, n.built, n.tag>> = <<r.batch, r.built, r.tag>> /\ SameAnswers(r, n)
  /\ \/ /\ ProviderAccept(t) /\ n.pc = "posted" /\ n.errors = r.errors
        /\ \E b \in r.wire : n.wire = r.wire \ {b} /\ Accepted(t, b)
     \/ /\ ProviderReject(t) /\ n.pc = "posted"
        /\ \E b \in r.wire : n.wire = r.wire \ {b} /\ n.errors = r.errors \cup {b}
     \/ /\ TickResponse(t) /\ n.pc = "errors" /\ n.wire = r.wire /\ n.errors \subseteq r.errors
     \/ /\ TickHttpError(t) \/ TickTransportError(t)
        /\ n.pc = "errors" /\ n.wire = {} /\ n.errors = r.built
     \/ /\ TickMarkFailed(t) /\ n.pc = "errors" /\ n.wire = r.wire /\ n.errors \subseteq r.errors

(* How a step of a tick changes its record, and no other. *)
LEMMA TickMoves ==
  ASSUME TypeInv, NEW t \in Ticks, Dispatch(t)
  PROVE  /\ \A u \in Ticks \ {t} : tick'[u] = tick[u]
         /\ \/ tick'[t] = idleTick
            \/ QueueMoves(t)
            \/ TickBuild(t) /\ \E m \in tick[t].batch : BuiltRow(t, m)
            \/ PostMoves(t)
<1>1. tick \in [Ticks -> TickState] /\ tick[t] \in TickState
  BY DEF TypeInv, TypeOK, TickTypeOK
<1> DEFINE r == tick[t]
           Moved == tick' = [tick EXCEPT ![t] = tick'[t]]
<1>2. Stop(t) => Moved /\ tick'[t] = idleTick
  BY <1>1 DEF Stop
<1>3. ASSUME NEW pc, tick' = [tick EXCEPT ![t].pc = pc]
      PROVE  /\ Moved /\ SamePost(r, tick'[t]) /\ SameAnswers(r, tick'[t])
             /\ tick'[t].pc = pc /\ tick'[t].batch = r.batch
  BY <1>1, <1>3 DEF TickState, SamePost, SameAnswers
<1>4. ASSUME TickSelect(t) PROVE Moved /\ (tick'[t] = idleTick \/ QueueMoves(t))
  <2>1. ASSUME NEW S, tick' = [tick EXCEPT ![t].pc = "claim", ![t].batch = S]
        PROVE  Moved /\ QueueMoves(t)
    BY <1>1, <1>4, <2>1 DEF QueueMoves, TickState, SamePost, SameAnswers
  <2> QED BY <1>2, <1>4, <2>1 DEF TickSelect
<1>5. ASSUME TickClaim(t) PROVE Moved /\ (tick'[t] = idleTick \/ QueueMoves(t))
  <2> DEFINE won == Claimable(msgs, tick[t].batch)
             supp == {s[1] : s \in suppressions}
  <2>1. Stop(t) \/ (/\ msgs' = ClaimBatch(msgs, tick[t].batch)
                    /\ tick' = [tick EXCEPT ![t].pc = "fetch", ![t].batch = won, ![t].supp0 = supp])
    BY <1>5 DEF TickClaim
  <2> HIDE DEF won, supp
  <2>2. ASSUME tick' = [tick EXCEPT ![t].pc = "fetch", ![t].batch = won, ![t].supp0 = supp]
        PROVE  /\ Moved /\ SamePost(r, tick'[t]) /\ tick'[t].pc = "fetch" /\ tick'[t].batch = won
               /\ tick'[t].supp0 = supp /\ tick'[t].lost = r.lost /\ tick'[t].blocked = r.blocked
    BY <1>1, <2>2 DEF TickState, SamePost
  <2> QED BY <1>2, <1>5, <2>1, <2>2 DEF QueueMoves, won, supp
<1>6. ASSUME TickFetch(t) PROVE Moved /\ QueueMoves(t)
  <2>1. PICK L, R : /\ tick' = [tick EXCEPT ![t].pc = "recheck", ![t].lost = L, ![t].ready = R]
                    /\ L = {} \/ "db" \in FaultKinds
    BY <1>6 DEF TickFetch, Fault
  <2>2. /\ Moved /\ SamePost(r, tick'[t]) /\ tick'[t].pc = "recheck" /\ tick'[t].batch = r.batch
        /\ tick'[t].supp0 = r.supp0 /\ tick'[t].lost = L /\ tick'[t].blocked = r.blocked
    BY <1>1, <2>1 DEF TickState, SamePost
  <2> QED BY <1>6, <2>1, <2>2 DEF QueueMoves
<1>7. ASSUME TickRecheck(t) PROVE Moved /\ QueueMoves(t)
  <2>1. PICK B : /\ tick' = [tick EXCEPT ![t].pc = "build", ![t].blocked = B]
                 /\ \/ "db" \in FaultKinds
                    \/ B = IF "leads" \in r.lost THEN {} ELSE SuppressedOn("email")
    BY <1>7 DEF TickRecheck, Fault
  <2>2. /\ Moved /\ SamePost(r, tick'[t]) /\ tick'[t].pc = "build" /\ tick'[t].batch = r.batch
        /\ tick'[t].supp0 = r.supp0 /\ tick'[t].lost = r.lost /\ tick'[t].blocked = B
    BY <1>1, <2>1 DEF TickState, SamePost
  <2> QED BY <1>7, <2>1, <2>2 DEF QueueMoves
<1>8. ASSUME TickBuild(t) PROVE Moved /\ (tick'[t] = idleTick \/ \E m \in tick[t].batch : BuiltRow(t, m))
  <2>1. PICK m \in tick[t].batch :
           \/ \E st \in {"failed", "cancelled", "pending"} : TickRelease(t, m, st)
           \/ TickAppend(t, m) /\ LeadOf(m) \notin tick[t].blocked
    BY <1>8 DEF TickBuild, TickPostpone
  <2>2. ASSUME NEW built, NEW tag, Built(t, m, built, tag)
        PROVE  /\ Moved
               /\ \/ tick'[t] = idleTick
                  \/ LET n == tick'[t]  rest == r.batch \ {m} IN
                     /\ n.batch = rest /\ SameAnswers(r, n) /\ n.errors = r.errors
                     /\ n.pc = IF rest = {} THEN "posted" ELSE "build"
                     /\ n.wire = IF rest = {} THEN built ELSE {}
                     /\ n.built = built /\ n.tag = tag
    <3> DEFINE rest == r.batch \ {m}
               pc == IF rest = {} THEN "posted" ELSE "build"
               wire == IF rest = {} THEN built ELSE {}
    <3>1. \/ Stop(t)
          \/ tick' = [tick EXCEPT ![t].batch = rest, ![t].built = built, ![t].tag = tag,
                                  ![t].pc = pc, ![t].wire = wire]
      BY <2>2 DEF Built
    <3> HIDE DEF rest, pc, wire
    <3>2. ASSUME tick' = [tick EXCEPT ![t].batch = rest, ![t].built = built, ![t].tag = tag,
                                  ![t].pc = pc, ![t].wire = wire]
          PROVE  LET n == tick'[t] IN
                 /\ Moved /\ n.batch = rest /\ SameAnswers(r, n) /\ n.errors = r.errors
                 /\ n.pc = pc /\ n.wire = wire /\ n.built = built /\ n.tag = tag
      BY <1>1, <3>2 DEF TickState, SameAnswers
    <3> QED BY <1>2, <3>1, <3>2 DEF rest, pc, wire
  <2>3. CASE \E st \in {"failed", "cancelled", "pending"} : TickRelease(t, m, st)
    <3>1. Built(t, m, r.built, r.tag)
      BY <2>3 DEF TickRelease
    <3> QED BY <2>2, <2>3, <3>1 DEF BuiltRow
  <2>4. CASE TickAppend(t, m) /\ LeadOf(m) \notin tick[t].blocked
    <3>1. Built(t, m, r.built \cup {m}, [r.tag EXCEPT ![LeadOf(m)] = m])
      BY <2>4 DEF TickAppend
    <3> QED BY <2>2, <2>4, <3>1 DEF BuiltRow
  <2> QED BY <2>1, <2>3, <2>4
<1> DEFINE Posts(pc, wire, errors) ==
             LET n == tick'[t] IN
             /\ Moved /\ <<n.batch, n.built, n.tag>> = <<r.batch, r.built, r.tag>> /\ SameAnswers(r, n)
             /\ n.pc = pc /\ n.wire = wire /\ n.errors = errors
<1>9. ASSUME NEW wire, NEW errors
      PROVE  /\ tick' = [tick EXCEPT ![t].wire = wire] => Posts(r.pc, wire, r.errors)
             /\ tick' = [tick EXCEPT ![t].wire = wire, ![t].errors = errors] => Posts(r.pc, wire, errors)
             /\ tick' = [tick EXCEPT ![t].pc = "errors", ![t].errors = errors]
                  => Posts("errors", r.wire, errors)
             /\ tick' = [tick EXCEPT ![t].pc = "errors", ![t].wire = wire, ![t].errors = errors]
                  => Posts("errors", wire, errors)
             /\ tick' = [tick EXCEPT ![t].errors = errors] => Posts(r.pc, r.wire, errors)
  BY <1>1 DEF TickState, SameAnswers
<1> HIDE DEF Posts
<1>10. ASSUME ProviderAccept(t) \/ ProviderReject(t) PROVE Moved /\ PostMoves(t)
  <2>1. r.pc = "posted"
    BY <1>10 DEF ProviderAccept, ProviderReject
  <2>2. CASE ProviderAccept(t)
    <3>1. PICK b \in r.wire : tick' = [tick EXCEPT ![t].wire = r.wire \ {b}] /\ Accepted(t, b)
      <4> DEFINE free == CHOOSE p \in Pids : mail[p] = NULL
      <4>1. free \in Pids /\ mail[free] = NULL
        BY <2>2 DEF ProviderAccept
      <4> QED BY <2>2, <4>1 DEF ProviderAccept, Accepted
    <3>2. Posts("posted", r.wire \ {b}, r.errors)
      BY <1>9, <2>1, <3>1
    <3> QED BY <2>2, <3>1, <3>2 DEF PostMoves, Posts
  <2>3. CASE ProviderReject(t)
    <3>1. PICK b \in r.wire : tick' = [tick EXCEPT ![t].wire = r.wire \ {b}, ![t].errors = r.errors \cup {b}]
      BY <2>3 DEF ProviderReject
    <3>2. Posts("posted", r.wire \ {b}, r.errors \cup {b})
      BY <1>9, <2>1, <3>1
    <3> QED BY <2>3, <3>2 DEF PostMoves, Posts
  <2> QED BY <1>10, <2>2, <2>3
<1>11. ASSUME TickResponse(t) PROVE Moved /\ (tick'[t] = idleTick \/ PostMoves(t))
  <2>1. PICK matched \in SUBSET r.errors :
          Stop(t) \/ tick' = [tick EXCEPT ![t].pc = "errors", ![t].errors = matched]
    BY <1>11 DEF TickResponse
  <2>2. Stop(t) \/ Posts("errors", r.wire, matched)
    BY <1>9, <2>1
  <2> QED BY <1>2, <1>11, <2>2 DEF PostMoves, Posts
<1>12. ASSUME TickHttpError(t) \/ TickTransportError(t) PROVE Moved /\ PostMoves(t)
  <2>1. tick' = [tick EXCEPT ![t].pc = "errors", ![t].wire = {}, ![t].errors = r.built]
    BY <1>12 DEF TickHttpError, TickTransportError
  <2>2. Posts("errors", {}, r.built)
    BY <1>9, <2>1
  <2> QED BY <1>12, <2>2 DEF PostMoves, Posts
<1>13. ASSUME TickMarkFailed(t) PROVE Moved /\ (tick'[t] = idleTick \/ PostMoves(t))
  <2>1. PICK b \in r.errors : Stop(t) \/ tick' = [tick EXCEPT ![t].errors = r.errors \ {b}]
    BY <1>13 DEF TickMarkFailed
  <2>2. r.pc = "errors"
    BY <1>13 DEF TickMarkFailed
  <2>3. Stop(t) \/ Posts("errors", r.wire, r.errors \ {b})
    BY <1>9, <2>1, <2>2
  <2> QED BY <1>2, <1>13, <2>3 DEF PostMoves, Posts
<1>14. ASSUME TickSweep(t) PROVE Moved /\ QueueMoves(t)
  BY <1>3, <1>14 DEF TickSweep, QueueMoves
<1>15. Moved => \A u \in Ticks \ {t} : tick'[u] = tick[u]
  BY <1>1
<1>16. TickStop(t) => Stop(t)
  BY DEF TickStop
<1> HIDE DEF Moved
<1> QED BY <1>2, <1>4, <1>5, <1>6, <1>7, <1>8, <1>10, <1>11, <1>12, <1>13, <1>14, <1>15, <1>16
        DEF Dispatch, TickStep, TickFault

(* A tick that takes no step keeps its record. *)
LEMMA OneTickMoves ==
  ASSUME TypeInv, [Next]_vars, NEW t \in Ticks, ~ Dispatch(t)
  PROVE  tick'[t] = tick[t]
<1>1. CASE \E u \in Ticks : Dispatch(u)
  BY <1>1, TickMoves
<1>2. CASE ~ \E u \in Ticks : Dispatch(u)
  BY <1>2 DEF Next, Elapse, Webhook, Ingress, Grace, Sweep, vars
<1> QED BY <1>1, <1>2
-----------------------------------------------------------------------------
(* What one step does to one row. *)
SameKey(r, n) == <<n.lead, n.seq, n.step>> = <<r.lead, r.seq, r.step>>

MovedByTick(m, t) ==
  LET r == msgs[m]  n == msgs'[m] IN
  \/ r.status = "dispatching" /\ r.stale /\ n.status = "pending"
  \/ /\ TickClaim(t) /\ m \in tick[t].batch
     /\ r.status = "pending" /\ n.status = "dispatching" /\ ~ n.stale
  \/ /\ tick[t].pc = "build" /\ m \in tick[t].batch /\ r.status = "dispatching"
     /\ n.status \in {"failed", "cancelled", "pending"}
     /\ n.status = "failed" => "failed" \in Verdicts \/ tick[t].lost # {}
  \/ /\ TickMarkFailed(t) /\ r.status = "dispatching" /\ n.status = "bounced"
     /\ \E b \in tick[t].errors : m = tick[t].tag[LeadOf(b)]

MovedByTask(m, h) ==
  LET r == msgs[m]  n == msgs'[m]  e == handler[h].ev IN
  \/ r.status = "pending" /\ n.status = "cancelled" /\ n.pid = r.pid
  \/ r.pid # NULL /\ n.pid = r.pid /\ n.status \in {"bounced", "unsubscribed", "replied"}
  \/ /\ HandleMark(h) /\ e.type = "sent" /\ m = mail[e.pid].tag
     /\ r.pid = NULL /\ n.pid = e.pid /\ n.status = "sent"
     /\ ~ (r.status = "cancelled" /\ Occupied(msgs, r.lead, r.seq, r.step))
     /\ \A x \in MsgIds \ {m} : msgs'[x] = msgs[x]

Inserted(m, h) ==
  LET n == msgs'[m]  prior == msgs[handler[h].row] IN
  /\ HandleAdvance(h) /\ msgs[m].status = "absent"
  /\ n.status = "pending" /\ n.pid = NULL
  /\ <<n.lead, n.seq, n.step>> = <<prior.lead, prior.seq, prior.step + 1>>
  /\ ~ Occupied(msgs, n.lead, n.seq, n.step)
  /\ \A x \in MsgIds \ {m} : msgs'[x] = msgs[x]

RowMoves(m) ==
  LET r == msgs[m]  n == msgs'[m] IN
  \/ SameKey(r, n) /\ <<n.status, n.pid, n.stale>> = <<r.status, r.pid, r.stale>>
  \/ /\ SameKey(r, n) /\ n.pid = r.pid /\ r.status = "dispatching" /\ n.status = "dispatching"
     /\ \A t \in Ticks : m \notin Held(t)
     /\ AwaitsSent(m) => "late" \in FaultKinds
  \/ SameKey(r, n) /\ n.pid = r.pid /\ \E t \in Ticks : Dispatch(t) /\ MovedByTick(m, t)
  \/ r.status # "absent" /\ SameKey(r, n) /\ \E h \in Processes : Webhook(h) /\ MovedByTask(m, h)
  \/ \E h \in Processes : Inserted(m, h)

(* What a step of a tick does to a row. *)
LEMMA TickRowMoves ==
  ASSUME TypeInv, NEW t \in Ticks, Dispatch(t), NEW m \in MsgIds
  PROVE  RowMoves(m)
<1>0. msgs \in Rows /\ msgs[m] \in Row /\ tick[t] \in TickState
  BY TypeInvFacts DEF Rows
<1>1. CASE msgs'[m] = msgs[m]
  BY <1>1 DEF RowMoves, SameKey
<1>2. CASE TickSweep(t)
  <2>1. \/ msgs'[m] = msgs[m]
        \/ /\ msgs[m].status = "dispatching" /\ msgs[m].stale /\ msgs'[m].status = "pending"
           /\ SameKey(msgs[m], msgs'[m]) /\ msgs'[m].pid = msgs[m].pid
    BY <1>0, <1>2 DEF TickSweep, SweepStaleClaims, Row, SameKey
  <2> QED BY <1>1, <2>1 DEF RowMoves, MovedByTick
<1>3. CASE TickClaim(t)
  <2>1. \/ msgs'[m] = msgs[m]
        \/ /\ m \in tick[t].batch
           /\ msgs[m].status = "pending" /\ msgs'[m].status = "dispatching" /\ ~ msgs'[m].stale
           /\ SameKey(msgs[m], msgs'[m]) /\ msgs'[m].pid = msgs[m].pid
    <3>1. msgs' = msgs \/ msgs' = ClaimBatch(msgs, tick[t].batch)
      BY <1>3 DEF TickClaim
    <3>2. CASE msgs' = ClaimBatch(msgs, tick[t].batch) /\ m \in tick[t].batch /\ msgs[m].status = "pending"
      <4>1. msgs'[m] = [msgs[m] EXCEPT !.status = "dispatching", !.stale = FALSE] /\ msgs[m] \in Row
        BY <1>0, <3>2 DEF ClaimBatch, Claimable
      <4> QED BY <3>2, <4>1 DEF Row, SameKey
    <3>3. CASE msgs' = ClaimBatch(msgs, tick[t].batch) /\ ~ (m \in tick[t].batch /\ msgs[m].status = "pending")
      BY <3>3 DEF ClaimBatch, Claimable
    <3> QED BY <3>1, <3>2, <3>3
  <2> QED BY <1>1, <1>3, <2>1 DEF RowMoves, MovedByTick
<1>4. CASE TickBuild(t)
  <2>1. PICK x \in tick[t].batch :
           \/ \E st \in {"failed", "cancelled", "pending"} :
                /\ TickRelease(t, x, st)
                /\ st = "failed" => "failed" \in Verdicts \/ tick[t].lost # {}
           \/ TickAppend(t, x)
    BY <1>4 DEF TickBuild, TickPostpone
  <2>2. CASE TickAppend(t, x)
    BY <1>1, <2>2 DEF TickAppend
  <2>3. ASSUME NEW st \in {"failed", "cancelled", "pending"}, TickRelease(t, x, st),
               st = "failed" => "failed" \in Verdicts \/ tick[t].lost # {}
        PROVE  RowMoves(m)
    <3>1. \/ msgs'[m] = msgs[m]
          \/ /\ m = x /\ msgs[m].status = "dispatching" /\ msgs'[m].status = st
             /\ SameKey(msgs[m], msgs'[m]) /\ msgs'[m].pid = msgs[m].pid
      <4> DEFINE row == [msgs[x] EXCEPT !.status = st, !.sched = IF st = "pending" THEN "later" ELSE msgs[x].sched]
      <4>1. x \in MsgIds /\ msgs[x] \in Row
        BY <1>0 DEF TickState, Rows
      <4>2. row.status = st /\ row.pid = msgs[x].pid /\ SameKey(msgs[x], row)
        BY <4>1 DEF Row, SameKey
      <4>3. msgs' = msgs \/ (msgs[x].status = "dispatching" /\ msgs' = [msgs EXCEPT ![x] = row])
        BY <2>3 DEF TickRelease, ReleaseClaim
      <4> HIDE DEF row
      <4> QED BY <1>0, <4>1, <4>2, <4>3 DEF Rows
    <3>2. tick[t].pc = "build"
      BY <1>4 DEF TickBuild
    <3> QED BY <1>1, <2>1, <2>3, <3>1, <3>2 DEF RowMoves, MovedByTick
  <2> QED BY <2>1, <2>2, <2>3
<1>5. CASE TickMarkFailed(t)
  <2>1. PICK b \in tick[t].errors : \/ msgs' = msgs
                                    \/ msgs' = MarkSendFailed(msgs, tick[t].tag[LeadOf(b)])
    BY <1>5 DEF TickMarkFailed
  <2>2. \/ msgs'[m] = msgs[m]
        \/ /\ m = tick[t].tag[LeadOf(b)] /\ msgs[m].status = "dispatching" /\ msgs'[m].status = "bounced"
           /\ SameKey(msgs[m], msgs'[m]) /\ msgs'[m].pid = msgs[m].pid
    BY <1>0, <2>1 DEF MarkSendFailed, SetStatus, Row, SameKey
  <2> QED BY <1>1, <1>5, <2>2 DEF RowMoves, MovedByTick
<1>6. CASE UNCHANGED msgs
  BY <1>1, <1>6
<1> QED BY <1>2, <1>3, <1>4, <1>5, <1>6 DEF Dispatch, TickStep, TickFault, TickSelect, TickFetch,
        TickRecheck, ProviderAccept, ProviderReject, TickResponse, TickHttpError,
        TickTransportError, TickStop, tables

(* What a step of a webhook task does to a row. *)
LEMMA TaskRowMoves ==
  ASSUME TypeInv, NEW h \in Processes, Webhook(h), NEW m \in MsgIds
  PROVE  RowMoves(m)
<1>0. msgs \in Rows /\ msgs[m] \in Row /\ HandlerOK(handler[h], msgs, mail)
  BY TypeInvFacts DEF Rows
<1> DEFINE e == handler[h].ev
<1>1. CASE msgs'[m] = msgs[m]
  BY <1>1 DEF RowMoves, SameKey
<1>2. ASSUME NEW S, NEW st, msgs' = SetStatus(msgs, S, st)
      PROVE  \/ msgs'[m] = msgs[m]
             \/ /\ m \in S /\ msgs'[m].status = st /\ msgs'[m].pid = msgs[m].pid
                /\ SameKey(msgs[m], msgs'[m])
  BY <1>0, <1>2 DEF SetStatus, Row, SameKey
<1>3. CASE HandleMark(h) /\ msgs' = Mark(e)
  <2>1. /\ e \in Event /\ mail[e.pid] # NULL /\ mail[e.pid].tag \in MsgIds /\ e.pid \in Pids
    BY <1>0, <1>3, WorkingOn DEF Mail, HandlerOK, HandleMark
  <2>2. e.type \in {"sent", "bounced_hard", "bounced_soft", "unsubscribed", "replied"} /\ e.pid # NULL
    BY <2>1, WebhookAssumption, TablesAssumption DEF Event
  <2>3. CASE e.type = "sent"
    <3>1. msgs' = MarkSent(msgs, mail[e.pid].tag, e.pid)
      BY <1>3, <2>3 DEF Mark, Bounces
    <3>2. \/ msgs'[m] = msgs[m]
          \/ /\ m = mail[e.pid].tag /\ msgs[m].pid = NULL /\ msgs'[m].pid = e.pid
             /\ msgs'[m].status = "sent" /\ msgs[m].status # "absent" /\ SameKey(msgs[m], msgs'[m])
             /\ ~ (msgs[m].status = "cancelled" /\ Occupied(msgs, msgs[m].lead, msgs[m].seq, msgs[m].step))
             /\ \A x \in MsgIds \ {m} : msgs'[x] = msgs[x]
      <4> DEFINE x == mail[e.pid].tag
                 row == [msgs[x] EXCEPT !.status = "sent", !.pid = e.pid]
      <4>1. \/ msgs' = msgs
            \/ /\ msgs[x].status # "absent" /\ msgs[x].pid = NULL /\ msgs' = [msgs EXCEPT ![x] = row]
               /\ ~ (msgs[x].status = "cancelled" /\ Occupied(msgs, msgs[x].lead, msgs[x].seq, msgs[x].step))
        BY <3>1 DEF MarkSent
      <4>2. x \in MsgIds /\ row.status = "sent" /\ row.pid = e.pid /\ SameKey(msgs[x], row)
        BY <1>0, <2>1 DEF Rows, Row, SameKey
      <4> HIDE DEF x, row
      <4>3. msgs' = [msgs EXCEPT ![x] = row] =>
              msgs'[x] = row /\ \A y \in MsgIds \ {x} : msgs'[y] = msgs[y]
        BY <1>0, <4>2 DEF Rows
      <4> QED BY <4>1, <4>2, <4>3 DEF x
    <3> QED BY <1>1, <1>3, <2>3, <3>2 DEF RowMoves, MovedByTask
  <2>4. CASE e.type # "sent"
    <3>1. \E from, st : /\ msgs' = SetStatus(msgs, WithPid(msgs, e.pid, from), st)
                        /\ st \in {"bounced", "unsubscribed", "replied"}
      <4> HIDE DEF e
      <4> QED BY <1>3, <2>2, <2>4 DEF Mark, Bounces, MarkBounced, MarkUnsubscribed, MarkReplied
    <3>2. \/ msgs'[m] = msgs[m]
          \/ /\ msgs[m].pid = e.pid /\ msgs'[m].status \in {"bounced", "unsubscribed", "replied"}
             /\ msgs'[m].pid = msgs[m].pid /\ SameKey(msgs[m], msgs'[m])
      BY <1>2, <3>1 DEF WithPid
    <3>3. msgs[m].pid = e.pid => msgs[m].status # "absent"
      BY <2>2 DEF TypeInv, RowsNamed
    <3> QED BY <1>1, <2>2, <3>2, <3>3 DEF RowMoves, MovedByTask
  <2> QED BY <2>3, <2>4
<1>4. CASE msgs' = Cancel(h)
  <2>1. msgs' = msgs \/ \E l, seqs : msgs' = CancelPending(msgs, l, seqs)
    BY <1>4 DEF Cancel
  <2>2. \/ msgs'[m] = msgs[m]
        \/ /\ msgs[m].status = "pending" /\ msgs'[m].status = "cancelled"
           /\ msgs'[m].pid = msgs[m].pid /\ SameKey(msgs[m], msgs'[m])
    <3>1. CASE msgs' = msgs
      BY <3>1
    <3>2. ASSUME NEW l, NEW seqs, msgs' = CancelPending(msgs, l, seqs)
          PROVE  \/ msgs'[m] = msgs[m]
                 \/ /\ msgs[m].status = "pending" /\ msgs'[m].status = "cancelled"
                    /\ msgs'[m].pid = msgs[m].pid /\ SameKey(msgs[m], msgs'[m])
      <4> DEFINE S == {x \in MsgIds : msgs[x].status = "pending" /\ msgs[x].lead = l /\ msgs[x].seq \in seqs}
      <4>1. msgs' = SetStatus(msgs, S, "cancelled")
        BY <3>2 DEF CancelPending
      <4>2. m \in S => msgs[m].status = "pending"
        OBVIOUS
      <4> HIDE DEF S
      <4> QED BY <1>2, <4>1, <4>2
    <3> QED BY <2>1, <3>1, <3>2
  <2> QED BY <1>1, <2>2 DEF RowMoves, MovedByTask
<1>5. CASE HandleAdvance(h)
  <2> DEFINE prior == msgs[handler[h].row]
             inReply == IF prior.step + 1 \in Threaded THEN handler[h].rowPid ELSE NULL
  <2>1. \/ msgs' = msgs
        \/ /\ HasRoom(msgs) \/ Occupied(msgs, prior.lead, prior.seq, prior.step + 1)
           /\ msgs' = InsertNextStep(msgs, prior.lead, prior.seq, prior.step + 1, inReply)
    BY <1>5 DEF HandleAdvance
  <2> HIDE DEF prior, inReply
  <2>2. CASE /\ HasRoom(msgs) /\ ~ Occupied(msgs, prior.lead, prior.seq, prior.step + 1)
             /\ msgs' = InsertNextStep(msgs, prior.lead, prior.seq, prior.step + 1, inReply)
    <3> DEFINE new == CHOOSE x \in MsgIds : msgs[x].status = "absent"
               row == NewRow(prior.lead, prior.seq, prior.step + 1, inReply, "later")
    <3>1. new \in MsgIds /\ msgs[new].status = "absent"
      BY <2>2 DEF HasRoom
    <3>2. msgs' = [msgs EXCEPT ![new] = row]
      BY <2>2 DEF InsertNextStep
    <3>3. /\ row.status = "pending" /\ row.pid = NULL
          /\ row.lead = prior.lead /\ row.seq = prior.seq /\ row.step = prior.step + 1
      BY DEF NewRow
    <3> HIDE DEF new, row
    <3>4. \A x \in MsgIds : msgs'[x] = IF x = new THEN row ELSE msgs[x]
      BY <1>0, <3>1, <3>2 DEF Rows
    <3>5. CASE m = new
      <4>1. msgs'[m] = row /\ \A x \in MsgIds \ {m} : msgs'[x] = msgs[x]
        BY <3>4, <3>5
      <4> QED BY <1>5, <2>2, <3>1, <3>3, <3>5, <4>1 DEF RowMoves, Inserted, prior
    <3> QED BY <1>1, <3>4, <3>5
  <2>3. CASE Occupied(msgs, prior.lead, prior.seq, prior.step + 1)
             /\ msgs' = InsertNextStep(msgs, prior.lead, prior.seq, prior.step + 1, inReply)
    BY <1>1, <2>3 DEF InsertNextStep
  <2> QED BY <1>1, <2>1, <2>2, <2>3
<1>6. CASE UNCHANGED msgs
  BY <1>1, <1>6
<1> QED BY <1>3, <1>4, <1>5, <1>6 DEF Webhook, HandlerStep, HandleMark, HandleCancel, HandleLookup,
        HandleCount, HandleSuppress, HandleStamp, HandlerCrash

(* What any step does to a row. *)
LEMMA RowsMove ==
  ASSUME TypeInv, [Next]_vars, NEW m \in MsgIds
  PROVE  RowMoves(m)
<1>1. CASE msgs'[m] = msgs[m]
  BY <1>1 DEF RowMoves, SameKey
<1>2. ASSUME NEW x \in MsgIds, Elapse(x) PROVE RowMoves(m)
  <2>1. CASE BecomeDue(x)
    <3>1. SameKey(msgs[m], msgs'[m])
          /\ <<msgs'[m].status, msgs'[m].pid, msgs'[m].stale>> = <<msgs[m].status, msgs[m].pid, msgs[m].stale>>
      BY <2>1, TypeInvFacts DEF BecomeDue, Rows, Row, SameKey
    <3> QED BY <3>1 DEF RowMoves
  <2>2. CASE BecomeStale(x)
    <3>1. \/ msgs'[m] = msgs[m]
          \/ /\ m = x /\ SameKey(msgs[m], msgs'[m]) /\ msgs'[m].pid = msgs[m].pid
             /\ msgs[m].status = "dispatching" /\ msgs'[m].status = "dispatching"
      BY <2>2, TypeInvFacts DEF BecomeStale, Rows, Row, SameKey
    <3> QED BY <1>1, <2>2, <3>1 DEF BecomeStale, RowMoves, Fault
  <2> QED BY <1>2, <2>1, <2>2 DEF Elapse
<1>3. CASE Ingress \/ Sweep \/ (\E e \in Event : Grace(e)) \/ UNCHANGED vars
  BY <1>1, <1>3 DEF Ingress, ProviderEvent, DeliverFails, Deliver, Sweep, SweepSelect, SweepNext,
     Grace, GraceEnds, vars, tables
<1> QED BY <1>2, <1>3, TickRowMoves, TaskRowMoves DEF Next
-----------------------------------------------------------------------------
(* The recheck of a tick whose reads do not fail: whoever was suppressed   *)
(* at the claim is still suppressed, is in the answer of the recheck, and  *)
(* is in no row that was built after it.                                   *)
Rechecked(t) ==
  LET r == tick[t] IN
  /\ r.lost = {}
  /\ r.supp0 \subseteq SuppressedOn("email")
  /\ r.pc \in {"build", "posted"} =>
       r.supp0 \subseteq r.blocked /\ \A m \in r.built : LeadOf(m) \notin r.blocked

ReadsHold == \A t \in Ticks : Rechecked(t)
RecheckInv == "db" \notin FaultKinds => ReadsHold

(* No tick has read anything at first. *)
LEMMA RecheckInvInit == Init => RecheckInv
BY DEF Init, TablesInit, TickInit, NewRow, NoRow, idleTick, RecheckInv, ReadsHold, Rechecked

(* What a record has promised it keeps while others step. *)
LEMMA RecheckedLasts ==
  ASSUME TypeInv, ReadsHold, Lasts, NEW t \in Ticks, tick'[t] = tick[t]
  PROVE  Rechecked(t)'
<1>1. SuppressedOn("email") \subseteq SuppressedOn("email")'
  BY DEF SuppressedOn, Lasts
<1>2. \A m \in tick[t].built : LeadOf(m)' = LeadOf(m)
  BY TypeInvFacts DEF TickOK, TickState, Lasts, Kept, LeadOf
<1> QED BY <1>1, <1>2 DEF ReadsHold, Rechecked

(* Reads that do not fail keep their answers. *)
LEMMA RecheckInvNext == TypeInv /\ ClaimInv /\ RecheckInv /\ [Next]_vars => RecheckInv'
<1> SUFFICES ASSUME TypeInv, ClaimInv, ReadsHold, [Next]_vars, "db" \notin FaultKinds
             PROVE  ReadsHold'
  BY DEF RecheckInv
<1>1. Lasts
  BY StepLasts
<1>2. ASSUME NEW t \in Ticks, Dispatch(t) PROVE Rechecked(t)'
  <2> DEFINE r == tick[t]
             n == tick'[t]
  <2>1. CASE n = idleTick
    BY <2>1 DEF Rechecked, idleTick, SuppressedOn
  <2>2. /\ r.lost = {} /\ r.supp0 \subseteq SuppressedOn("email")
        /\ r.pc \in {"build", "posted"} =>
             r.supp0 \subseteq r.blocked /\ \A m \in r.built : LeadOf(m) \notin r.blocked
    BY DEF ReadsHold, Rechecked
  <2>3. SuppressedOn("email") \subseteq SuppressedOn("email")'
    BY <1>1 DEF SuppressedOn, Lasts
  <2>4. \A m \in r.built \cup r.batch : LeadOf(m)' = LeadOf(m)
    BY <1>1, TypeInvFacts DEF TickOK, TickState, Lasts, Kept, LeadOf
  <2>5. r.pc \in {"idle", "select", "claim", "fetch", "recheck"} => r.built = {}
    BY DEF ClaimInv, Shape
  <2>6. CASE QueueMoves(t)
    <3>1. TickClaim(t) => {s[1] : s \in suppressions} \subseteq SuppressedOn("email")'
      <4>1. \A s \in suppressions : s[1] \in Leads /\ s[2] \in {"email", "all"} /\ s = <<s[1], s[2]>>
        BY TypeInvFacts DEF Channels
      <4> QED BY <1>1, <4>1 DEF SuppressedOn, Lasts
    <3>2. TickRecheck(t) => n.built = {}
      BY <2>5, <2>6 DEF QueueMoves, SamePost, TickRecheck
    <3> QED BY <2>2, <2>3, <2>6, <3>1, <3>2 DEF QueueMoves, SameAnswers, Rechecked
  <2>7. ASSUME NEW m \in r.batch, BuiltRow(t, m), r.pc = "build" PROVE Rechecked(t)'
    <3>1. n.lost = {} /\ n.supp0 = r.supp0 /\ n.blocked = r.blocked
      BY <2>2, <2>7 DEF BuiltRow, SameAnswers
    <3>2. \A x \in n.built : LeadOf(x)' \notin n.blocked
      BY <2>2, <2>4, <2>7, <3>1 DEF BuiltRow
    <3> QED BY <2>2, <2>3, <2>7, <3>1, <3>2 DEF Rechecked
  <2>8. CASE PostMoves(t)
    <3>1. n.pc = "posted" => r.pc = "posted"
      BY <2>8 DEF PostMoves, ProviderAccept, ProviderReject
    <3>2. n.pc \in {"posted", "errors"}
      BY <2>8 DEF PostMoves
    <3> QED BY <2>2, <2>3, <2>4, <2>8, <3>1, <3>2 DEF PostMoves, SameAnswers, Rechecked
  <2> QED BY <1>2, <2>1, <2>6, <2>7, <2>8, TickMoves DEF TickBuild
<1> QED BY <1>1, <1>2, RecheckedLasts, OneTickMoves DEF ReadsHold

(* The recheck works: where no database call fails, no lead that was       *)
(* suppressed when its row was claimed is in the POST, whatever opt-outs   *)
(* arrive and whatever ticks overlap.  (Where the reads fail the recheck   *)
(* fails open, as the code says it does.)                                  *)
THEOREM SuppressedAreNotPosted ==
  ASSUME "db" \notin FaultKinds
  PROVE  Spec => []SuppressedNotPosted
<1>1. RecheckInv => SuppressedNotPosted
  BY DEF RecheckInv, ReadsHold, Rechecked, SuppressedNotPosted
<1> QED BY <1>1, TypeInvInit, TypeInvNext, ClaimInvInit, ClaimInvNext, RecheckInvInit, RecheckInvNext, PTL DEF Spec

-----------------------------------------------------------------------------
(* No call fails and no confirmation is later than the claim timeout; and  *)
(* a lead is enrolled in one sequence.                                     *)
Prompt == {"db", "late"} \cap FaultKinds = {}
EnrolledOnce == \A m, n \in DOMAIN Enrolment : Enrolment[m][1] = Enrolment[n][1] => m = n

Mailed(m) == \E p \in Pids : mail[p] # NULL /\ mail[p].body = m
Live(row) == row.status \notin {"absent", "cancelled"}
Key(m) == <<msgs[m].lead, msgs[m].seq, msgs[m].step>>

(* The UNIQUE index; one sequence per lead; every earlier step confirmed.  *)
UniqueKey == \A m, n \in MsgIds : Live(msgs[m]) /\ Live(msgs[n]) /\ Key(m) = Key(n) => m = n

OneSeq == \A m, n \in MsgIds :
  msgs[m].status # "absent" /\ msgs[n].status # "absent" /\ msgs[m].lead = msgs[n].lead
    => msgs[m].seq = msgs[n].seq

Ladder == \A m \in MsgIds : \A i \in Steps : msgs[m].status # "absent" /\ i < msgs[m].step =>
  \E n \in MsgIds : msgs[n].pid # NULL /\ Key(n) = <<msgs[m].lead, msgs[m].seq, i>>

TableInv == UniqueKey /\ OneSeq /\ Ladder

(* What a task has confirmed, and what an email_sent that is done has. *)
HandlersConfirmed == \A h \in Processes :
  /\ \A e \in Event : handler[h].ev = e /\ e.type = "sent" /\ handler[h].pc \notin {"idle", "mark"}
       => msgs[mail[e.pid].tag].pid # NULL
  /\ handler[h].row # NULL => msgs[handler[h].row].pid # NULL

DoneConfirmed == \A p \in Pids : Done(Ev("sent", p)) => msgs[mail[p].tag].pid # NULL

TaskInv == HandlersConfirmed /\ DoneConfirmed

(* The rows of a batch have different leads, so message_ids, which is      *)
(* keyed by lead, has every row that was built.                            *)
Busy(r) == r.pc \in {"fetch", "recheck", "build", "posted", "errors"}

BatchOK(r) ==
  /\ \A a, b \in HeldBy(r) : LeadOf(a) = LeadOf(b) => a = b
  /\ Busy(r) => \A b \in r.built : r.tag[LeadOf(b)] = b

PostShape(r) ==
  /\ r.pc \in {"posted", "errors"} => r.batch = {}
  /\ r.pc # "posted" => r.wire = {}
  /\ r.pc \notin {"posted", "errors"} => r.errors = {}
  /\ r.wire \cap r.errors = {}

(* The rows a tick holds that Instantly has not been given. *)
Unsent(r) ==
  IF r.pc \in {"fetch", "recheck", "build"} THEN r.batch \cup r.built ELSE r.wire

InHand(row) == row.status = "dispatching" /\ ~ row.stale

PostInv ==
  /\ \A t \in Ticks : BatchOK(tick[t]) /\ PostShape(tick[t])
  /\ \A t \in Ticks : \A m \in Unsent(tick[t]) : ~ Mailed(m) /\ InHand(msgs[m])

(* A row that was mailed waits for its email_sent, or had it. *)
MailState == \A m \in MsgIds : Mailed(m) =>
  \/ InHand(msgs[m])
  \/ msgs[m].status \in {"sent", "replied", "bounced", "unsubscribed"}

MailInv ==
  Prompt /\ EnrolledOnce =>
    TableInv /\ TaskInv /\ PostInv /\ MailState /\ RoundTripExact /\ MailedOnce

(* Nothing is mailed at first, and each lead has one row. *)
LEMMA MailInvInit == Init => MailInv
<1> SUFFICES ASSUME Init, EnrolledOnce
             PROVE  TableInv /\ TaskInv /\ PostInv /\ MailState /\ RoundTripExact /\ MailedOnce
  BY DEF MailInv
<1>1. TableInv
  <2>1. \A m \in MsgIds : /\ msgs[m].step = 0
                          /\ msgs[m].status # "absent" => m \in DOMAIN Enrolment /\ msgs[m].lead = Enrolment[m][1]
    BY DEF Init, TablesInit, NewRow, NoRow
  <2> QED BY <2>1 DEF TableInv, UniqueKey, OneSeq, Ladder, EnrolledOnce, Live, Key, Steps
<1>2. TaskInv
  <2>1. \A p \in Pids : Ev("sent", p) \in Event
    BY WebhookAssumption DEF Ev, Event
  <2> QED BY <2>1 DEF Init, HooksInit, TaskInv, HandlersConfirmed, DoneConfirmed, Done, idleHandler
<1>3. PostInv
  BY DEF Init, TickInit, PostInv, BatchOK, PostShape, Unsent, Busy, HeldBy, idleTick
<1>4. MailState /\ RoundTripExact /\ MailedOnce
  BY DEF Init, TablesInit, MailState, Mailed, RoundTripExact, MailedOnce
<1> QED BY <1>1, <1>2, <1>3, <1>4

-----------------------------------------------------------------------------
(* Rows that exist keep their key, and their provider id. *)
LEMMA RowsStay ==
  ASSUME TypeInv, ConfInv, [Next]_vars, NEW m \in MsgIds
  PROVE  /\ msgs[m].status # "absent" => msgs'[m].status # "absent" /\ Key(m)' = Key(m)
                                         /\ LeadOf(m)' = LeadOf(m)
         /\ msgs[m].pid # NULL => msgs'[m].pid = msgs[m].pid /\ msgs[m].status # "absent"
<1>1. msgs[m].status # "absent" => msgs'[m].status # "absent" /\ Key(m)' = Key(m) /\ LeadOf(m)' = LeadOf(m)
  BY StepLasts DEF Lasts, Kept, Key, LeadOf
<1>2. msgs[m].pid # NULL => msgs'[m].pid = msgs[m].pid
  BY StepForward DEF ConfInv, RowsForward, Forward
<1>3. msgs[m].pid # NULL => msgs[m].status # "absent"
  BY DEF TypeInv, RowsNamed
<1> QED BY <1>1, <1>2, <1>3

(* A row enters the UNIQUE index alone, and where its key is free. *)
LEMMA EntersIndex ==
  ASSUME TypeInv, ConfInv, [Next]_vars, NEW m \in MsgIds, Live(msgs'[m]), ~ Live(msgs[m])
  PROVE  /\ \A x \in MsgIds \ {m} : msgs'[x] = msgs[x]
         /\ ~ Occupied(msgs, msgs'[m].lead, msgs'[m].seq, msgs'[m].step)
<1>1. RowMoves(m) /\ (msgs[m].pid # NULL => Live(msgs[m]))
  BY RowsMove DEF ConfInv, ConfirmedNeverQueued, Live
<1>2. CASE \E h \in Processes : Inserted(m, h)
  BY <1>2 DEF Inserted
<1>3. CASE \E h \in Processes : SameKey(msgs[m], msgs'[m]) /\ MovedByTask(m, h) /\ msgs[m].status # "absent"
  BY <1>1, <1>3 DEF MovedByTask, SameKey, Live
<1> QED BY <1>1, <1>2, <1>3 DEF RowMoves, MovedByTick, Live

(* The UNIQUE index stays unique, over re-entries and insertions. *)
LEMMA UniqueKeyNext ==
  ASSUME TypeInv, ConfInv, UniqueKey, [Next]_vars
  PROVE  UniqueKey'
<1> SUFFICES ASSUME NEW m \in MsgIds, NEW n \in MsgIds, Live(msgs'[m]), Live(msgs'[n]), Key(m)' = Key(n)', m # n
             PROVE  FALSE
  BY DEF UniqueKey
<1>1. ASSUME NEW a \in MsgIds, NEW b \in MsgIds, a # b, Live(msgs'[a]), Live(msgs'[b]), Key(a)' = Key(b)',
             ~ Live(msgs[a])
      PROVE  FALSE
  <2>1. msgs'[b] = msgs[b] /\ ~ Occupied(msgs, msgs'[a].lead, msgs'[a].seq, msgs'[a].step)
    BY <1>1, EntersIndex
  <2> QED BY <1>1, <2>1 DEF Occupied, Live, Key
<1>2. CASE Live(msgs[m]) /\ Live(msgs[n])
  BY <1>2, RowsStay DEF UniqueKey, Live
<1> QED BY <1>1, <1>2

(* The row from which a task inserts the next one. *)
LEMMA InsertsAfter ==
  ASSUME TypeInv, NEW m \in MsgIds, NEW h \in Processes, Inserted(m, h)
  PROVE  /\ handler[h].row \in MsgIds /\ handler[h].row # m /\ msgs[handler[h].row].status # "absent"
         /\ msgs[handler[h].row].step \in Steps
<1>1. HandleAdvance(h) /\ msgs[m].status = "absent"
  BY DEF Inserted
<1>2. handler[h].row \in MsgIds /\ msgs[handler[h].row].status # "absent" /\ msgs[handler[h].row].step \in Steps
  BY <1>1, AdvanceInserts
<1> QED BY <1>1, <1>2

(* A row that is new was inserted. *)
LEMMA NewIsInserted ==
  ASSUME TypeInv, [Next]_vars, NEW m \in MsgIds, msgs[m].status = "absent", msgs'[m].status # "absent"
  PROVE  \E h \in Processes : Inserted(m, h)
<1>1. msgs[m].pid = NULL
  BY DEF TypeInv, RowsNamed
<1> QED BY <1>1, RowsMove DEF RowMoves, MovedByTick, MovedByTask

(* A next step is of the sequence of the row it follows. *)
LEMMA OneSeqNext ==
  ASSUME TypeInv, ConfInv, OneSeq, [Next]_vars
  PROVE  OneSeq'
<1> SUFFICES ASSUME NEW m \in MsgIds, NEW n \in MsgIds, msgs'[m].status # "absent", msgs'[n].status # "absent",
                    msgs'[m].lead = msgs'[n].lead
             PROVE  msgs'[m].seq = msgs'[n].seq
  BY DEF OneSeq
<1>1. ASSUME NEW a \in MsgIds, NEW b \in MsgIds, msgs'[a].status # "absent", msgs'[b].status # "absent",
             msgs'[a].lead = msgs'[b].lead, msgs[a].status = "absent", a # b
      PROVE  msgs'[a].seq = msgs'[b].seq
  <2>1. PICK h \in Processes : Inserted(a, h)
    BY <1>1, NewIsInserted
  <2>2. msgs'[b] = msgs[b]
    BY <1>1, <2>1 DEF Inserted
  <2> DEFINE prior == msgs[handler[h].row]
  <2>3. handler[h].row \in MsgIds /\ prior.status # "absent"
    BY <2>1, InsertsAfter
  <2>4. msgs'[a].lead = prior.lead /\ msgs'[a].seq = prior.seq
    BY <2>1 DEF Inserted
  <2> HIDE DEF prior
  <2>5. msgs[b].lead = prior.lead => msgs[b].seq = prior.seq
    BY <1>1, <2>2, <2>3 DEF OneSeq, prior
  <2> QED BY <1>1, <2>2, <2>4, <2>5
<1>2. CASE msgs[m].status # "absent" /\ msgs[n].status # "absent"
  BY <1>2, RowsStay DEF OneSeq, Key
<1> QED BY <1>1, <1>2

(* A next step is inserted on a confirmed row. *)
LEMMA LadderNext ==
  ASSUME TypeInv, ConfInv, Ladder, HandlersConfirmed, [Next]_vars
  PROVE  Ladder'
<1> SUFFICES ASSUME NEW m \in MsgIds, NEW i \in Steps, msgs'[m].status # "absent", i < msgs'[m].step
             PROVE  \E n \in MsgIds : msgs'[n].pid # NULL /\ Key(n)' = <<msgs'[m].lead, msgs'[m].seq, i>>
  BY DEF Ladder
<1>1. ASSUME NEW l, NEW s, \E n \in MsgIds : msgs[n].pid # NULL /\ Key(n) = <<l, s, i>>
      PROVE  \E n \in MsgIds : msgs'[n].pid # NULL /\ Key(n)' = <<l, s, i>>
  BY <1>1, RowsStay
<1>2. CASE msgs[m].status # "absent"
  <2>1. msgs'[m].lead = msgs[m].lead /\ msgs'[m].seq = msgs[m].seq /\ msgs'[m].step = msgs[m].step
    BY <1>2, RowsStay DEF Key
  <2> QED BY <1>1, <1>2, <2>1 DEF Ladder
<1>3. CASE msgs[m].status = "absent"
  <2>1. PICK h \in Processes : Inserted(m, h)
    BY <1>3, NewIsInserted
  <2> DEFINE prior == msgs[handler[h].row]
  <2>2. /\ handler[h].row \in MsgIds /\ prior.status # "absent" /\ prior.step \in Steps
        /\ <<msgs'[m].lead, msgs'[m].seq, msgs'[m].step>> = <<prior.lead, prior.seq, prior.step + 1>>
    BY <2>1, InsertsAfter DEF Inserted
  <2>3. prior.pid # NULL
    BY <2>2, TablesAssumption DEF HandlersConfirmed
  <2>4. i = prior.step \/ i < prior.step
    BY <2>2, TablesAssumption DEF Steps
  <2>5. \E n \in MsgIds : msgs[n].pid # NULL /\ Key(n) = <<prior.lead, prior.seq, i>>
    BY <2>2, <2>3, <2>4 DEF Ladder, Key
  <2> QED BY <1>1, <2>2, <2>5
<1> QED BY <1>2, <1>3

(* The tables keep their order. *)
LEMMA TableInvNext ==
  ASSUME TypeInv, ConfInv, TableInv, HandlersConfirmed, [Next]_vars
  PROVE  TableInv'
BY UniqueKeyNext, OneSeqNext, LadderNext DEF TableInv

-----------------------------------------------------------------------------
(* mark_sent confirms the row it is for: a row that was mailed waits. *)
LEMMA MarkSentHits ==
  ASSUME TypeInv, RoundTripExact, MailState, "db" \notin FaultKinds,
         NEW h \in Processes, HandleMark(h), handler[h].ev.type = "sent"
  PROVE  msgs'[mail[handler[h].ev.pid].tag].pid # NULL
<1> DEFINE p == handler[h].ev.pid
           m == mail[p].tag
<1>1. p \in Pids /\ mail[p] \in Mail /\ m \in MsgIds /\ p # NULL /\ msgs \in Rows
  BY WorkingOn, TypeInvFacts, TablesAssumption DEF HandleMark, Mail
<1>2. mail[p] # NULL
  BY <1>1, TypeInvFacts, WorkingOn DEF HandleMark, HandlerOK
<1>3. Mailed(m)
  BY <1>1, <1>2 DEF RoundTripExact, Mailed
<1>4. msgs[m].status \notin {"absent", "cancelled"}
  BY <1>1, <1>3 DEF MailState, InHand
<1>5. msgs' = MarkSent(msgs, m, p)
  BY DEF HandleMark, Mark, Bounces, Fault
<1> HIDE DEF m, p
<1>6. msgs'[m].pid # NULL
  BY <1>1, <1>4, <1>5 DEF MarkSent, Rows, Row
<1> QED BY <1>6 DEF m, p

(* A task past its mark_sent has confirmed the row. *)
LEMMA HandlersConfirmedNext ==
  ASSUME TypeInv, ConfInv, RoundTripExact, MailState, "db" \notin FaultKinds,
         HandlersConfirmed, [Next]_vars
  PROVE  HandlersConfirmed'
<1> SUFFICES ASSUME NEW h \in Processes
             PROVE  /\ \A e \in Event : handler'[h].ev = e /\ e.type = "sent" /\ handler'[h].pc \notin {"idle", "mark"}
                         => msgs'[mail'[e.pid].tag].pid # NULL
                    /\ handler'[h].row # NULL => msgs'[handler'[h].row].pid # NULL
  BY DEF HandlersConfirmed
<1> DEFINE e == handler[h].ev
<1>1. /\ Moves(h)
      /\ handler[h].row \in MsgIds \cup {NULL}
      /\ handler[h].pc # "idle" => /\ e \in Event /\ e.pid \in Pids /\ mail[e.pid] # NULL /\ mail'[e.pid] = mail[e.pid]
                                   /\ mail[e.pid].tag \in MsgIds
  BY HandlersMove, WorkingOn, MailGrows, TypeInvFacts DEF HandlerOK, HandlerState, Mail
<1>2. \A m \in MsgIds : msgs[m].pid # NULL => msgs'[m].pid # NULL
  BY RowsStay
<1>3. handler[h].row # NULL => msgs'[handler[h].row].pid # NULL
  BY <1>1, <1>2 DEF HandlersConfirmed
<1>4. handler[h].pc \notin {"idle", "mark"} /\ e.type = "sent" => msgs'[mail'[e.pid].tag].pid # NULL
  BY <1>1, <1>2 DEF HandlersConfirmed
<1>5. CASE handler'[h] = handler[h]
  BY <1>3, <1>4, <1>5
<1>6. CASE handler'[h] = idleHandler \/ (handler'[h].pc = "mark" /\ handler'[h].row = NULL)
  BY <1>6 DEF idleHandler
<1>7. CASE /\ handler[h].pc # "idle" /\ handler'[h].ev = e /\ HandlerStep(h)
           /\ \/ handler'[h].row = handler[h].row
              \/ handler'[h].row \in RowOf(e) \cup {NULL}
  <2>1. e.type = "sent" => msgs'[mail'[e.pid].tag].pid # NULL
    <3>1. CASE handler[h].pc = "mark" /\ e.type = "sent"
      <4>1. HandleMark(h)
        BY <1>7, <3>1, StepPc DEF HandlerStep
      <4> QED BY <1>1, <3>1, <4>1, MarkSentHits
    <3> QED BY <1>4, <1>7, <3>1
  <2>2. \A m \in RowOf(e) : msgs'[m].pid # NULL
    <3>1. e.type = "sent" => RowOf(e) = {mail'[e.pid].tag}
      BY <1>1, <1>7 DEF RowOf
    <3>2. e.type # "sent" => \A m \in RowOf(e) : m \in MsgIds /\ msgs[m].pid # NULL
      BY <1>1, <1>7, TablesAssumption DEF RowOf
    <3> QED BY <1>2, <2>1, <3>1, <3>2
  <2> QED BY <1>3, <1>7, <2>1, <2>2
<1> QED BY <1>1, <1>5, <1>6, <1>7 DEF Moves

(* An email_sent is done only by a task that confirmed its row. *)
LEMMA DoneConfirmedNext ==
  ASSUME TypeInv, ConfInv, TaskInv, [Next]_vars
  PROVE  DoneConfirmed'
<1> SUFFICES ASSUME NEW p \in Pids, Done(Ev("sent", p))'
             PROVE  msgs'[mail'[p].tag].pid # NULL
  BY DEF DoneConfirmed
<1> DEFINE e == Ev("sent", p)
<1>1. e \in Event /\ e.type = "sent" /\ e.pid = p
  BY WebhookAssumption DEF Ev, Event
<1>2. mail[p] # NULL => mail'[p] = mail[p] /\ mail[p].tag \in MsgIds
  BY MailGrows, TypeInvFacts DEF Mail
<1>3. CASE Done(e)
  <2>1. mail[p] # NULL
    BY <1>1, <1>3 DEF TypeInv, EventsMailed, Done, Recorded
  <2> QED BY <1>2, <1>3, <2>1, RowsStay DEF TaskInv, DoneConfirmed
<1>4. CASE ~ Done(e)
  <2>1. PICK h \in Processes : HandleStamp(h) /\ handler[h].ev = e
    BY <1>1, <1>4, EventsMove DEF Done
  <2>2. handler[h].pc \notin {"idle", "mark"}
    BY <2>1 DEF HandleStamp
  <2>3. mail[p] # NULL
    BY <1>1, <2>1, <2>2, TypeInvFacts DEF HandlerOK
  <2> QED BY <1>1, <1>2, <2>1, <2>2, <2>3, RowsStay DEF TaskInv, HandlersConfirmed
<1> QED BY <1>3, <1>4

-----------------------------------------------------------------------------
(* Two rows of one lead never wait at once: the earlier step of a later    *)
(* one is confirmed.                                                       *)
LEMMA WaitingDiffer ==
  ASSUME TypeInv, ConfInv, TableInv, NEW a \in MsgIds, NEW b \in MsgIds,
         msgs[a].status = "pending", msgs[b].status = "pending", LeadOf(a) = LeadOf(b)
  PROVE  a = b
<1>1. msgs[a].step \in Nat /\ msgs[b].step \in Nat /\ msgs[a].step \in Steps /\ msgs[b].step \in Steps
  BY TypeInvFacts, TablesAssumption DEF Rows, Row, Steps
<1>2. msgs[a].seq = msgs[b].seq
  BY DEF TableInv, OneSeq, LeadOf
<1>3. ASSUME NEW x \in MsgIds, NEW y \in MsgIds, msgs[x].status = "pending", msgs[y].status = "pending",
             LeadOf(x) = LeadOf(y), msgs[x].seq = msgs[y].seq, msgs[x].step \in Steps, msgs[x].step < msgs[y].step
      PROVE  FALSE
  <2>1. PICK n \in MsgIds : msgs[n].pid # NULL /\ Key(n) = <<msgs[y].lead, msgs[y].seq, msgs[x].step>>
    BY <1>3 DEF TableInv, Ladder
  <2>2. Key(n) = Key(x) /\ Live(msgs[n]) /\ Live(msgs[x])
    BY <1>3, <2>1 DEF Key, LeadOf, Live, ConfInv, ConfirmedNeverQueued
  <2>3. n = x
    BY <2>2 DEF TableInv, UniqueKey
  <2> QED BY <1>3, <2>1, <2>3 DEF ConfInv, ConfirmedNeverQueued
<1>4. CASE msgs[a].step = msgs[b].step
  BY <1>2, <1>4 DEF TableInv, UniqueKey, Key, Live, LeadOf
<1>5. CASE msgs[a].step # msgs[b].step
  <2>1. msgs[a].step < msgs[b].step \/ msgs[b].step < msgs[a].step
    BY <1>1, <1>5
  <2> QED BY <1>1, <1>2, <1>3, <2>1
<1> QED BY <1>4, <1>5

(* The record of a tick that steps. *)
LEMMA PostShapeNext ==
  ASSUME TypeInv, NEW t \in Ticks, PostShape(tick[t]), Dispatch(t)
  PROVE  PostShape(tick'[t])
<1> DEFINE r == tick[t]
           n == tick'[t]
<1>1. CASE n = idleTick
  BY <1>1 DEF PostShape, idleTick
<1>2. CASE QueueMoves(t)
  <2>1. r.pc \in {"idle", "select", "claim", "fetch", "recheck"} /\ n.pc \in {"select", "claim", "fetch", "recheck", "build"}
    BY <1>2 DEF QueueMoves, TickSweep, TickSelect, TickClaim, TickFetch, TickRecheck
  <2>2. n.wire = r.wire /\ n.errors = r.errors
    BY <1>2 DEF QueueMoves, SamePost
  <2> QED BY <2>1, <2>2 DEF PostShape
<1>3. ASSUME TickBuild(t), NEW m \in r.batch, BuiltRow(t, m)
      PROVE  PostShape(n)
  <2>1. r.pc = "build"
    BY <1>3 DEF TickBuild
  <2> QED BY <1>3, <2>1 DEF PostShape, BuiltRow
<1>4. CASE PostMoves(t)
  <2>1. TickMarkFailed(t) => r.pc = "errors"
    BY DEF TickMarkFailed
  <2>2. TickResponse(t) => r.pc = "posted" /\ r.wire = {}
    BY DEF TickResponse
  <2>3. ProviderAccept(t) \/ ProviderReject(t) \/ TickHttpError(t) \/ TickTransportError(t) => r.pc = "posted"
    BY DEF ProviderAccept, ProviderReject, TickHttpError, TickTransportError
  <2> QED BY <1>4, <2>1, <2>2, <2>3 DEF PostShape, PostMoves
<1> QED BY <1>1, <1>2, <1>3, <1>4, TickMoves

(* The rows of a batch keep different leads, and message_ids has them all. *)
LEMMA BatchOKNext ==
  ASSUME TypeInv, ClaimInv, ConfInv, TableInv, NEW t \in Ticks, BatchOK(tick[t]), Lasts
  PROVE  /\ tick'[t] = tick[t] => BatchOK(tick[t])'
         /\ Dispatch(t) => BatchOK(tick[t])'
<1> DEFINE r == tick[t]
           n == tick'[t]
<1>1. /\ \A b \in r.batch \cup r.built : b \in MsgIds /\ LeadOf(b)' = LeadOf(b) /\ LeadOf(b) \in Leads
      /\ r \in TickState /\ r.batch \cap r.built = {}
  <2>1. \A b \in r.batch \cup r.built : b \in MsgIds /\ msgs[b].status # "absent"
    BY TypeInvFacts DEF TickOK, TickState
  <2> QED BY <2>1, TypeInvFacts DEF Lasts, Kept, LeadOf, TypeInv, RowsNamed, ClaimInv, Shape
<1>2. HeldBy(r) \subseteq r.batch \cup r.built
  BY DEF HeldBy
<1>3. ASSUME HeldBy(n) \subseteq HeldBy(r), Busy(n) => Busy(r), n.built = r.built, n.tag = r.tag
      PROVE  BatchOK(tick[t])'
  BY <1>1, <1>2, <1>3 DEF BatchOK, Busy, HeldBy
<1>4. CASE tick'[t] = tick[t]
  BY <1>3, <1>4
<1>5. CASE Dispatch(t)
  <2>1. CASE n = idleTick
    BY <2>1 DEF BatchOK, Busy, HeldBy, idleTick
  <2>2. CASE QueueMoves(t) /\ ~ TickClaim(t)
    <3>1. \/ n.pc \in {"select", "claim"}
          \/ r.pc \in {"fetch", "recheck"} /\ n.pc \in {"recheck", "build"} /\ n.batch = r.batch
      BY <2>2 DEF QueueMoves, TickFetch, TickRecheck
    <3>2. n.built = r.built /\ n.tag = r.tag
      BY <2>2 DEF QueueMoves, SamePost
    <3> QED BY <1>3, <3>1, <3>2 DEF HeldBy, Busy
  <2>3. CASE QueueMoves(t) /\ TickClaim(t)
    <3>1. /\ r.pc = "claim" /\ n.pc = "fetch" /\ n.batch = Claimable(msgs, r.batch) /\ n.built = r.built
      BY <2>3 DEF QueueMoves, TickClaim, TickSweep, TickSelect, TickFetch, TickRecheck, SamePost
    <3>2. n.built = {}
      BY <3>1 DEF ClaimInv, Shape
    <3>3. \A a, b \in n.batch : LeadOf(a) = LeadOf(b) => a = b
      BY <1>1, <3>1, WaitingDiffer DEF Claimable
    <3>4. \A a \in n.batch : LeadOf(a)' = LeadOf(a)
      BY <1>1, <3>1 DEF Claimable
    <3> QED BY <3>1, <3>2, <3>3, <3>4 DEF BatchOK, HeldBy
  <2>4. ASSUME TickBuild(t), NEW m \in r.batch, BuiltRow(t, m)
        PROVE  BatchOK(tick[t])'
    <3>1. r.pc = "build"
      BY <2>4 DEF TickBuild
    <3>2. CASE n.built = r.built /\ n.tag = r.tag
      <4>1. HeldBy(n) \subseteq HeldBy(r) /\ Busy(r)
        BY <2>4, <3>1, <3>2 DEF HeldBy, BuiltRow, Busy
      <4> QED BY <1>3, <3>2, <4>1
    <3>3. CASE n.built = r.built \cup {m} /\ n.tag = [r.tag EXCEPT ![LeadOf(m)] = m]
      <4>1. HeldBy(n) \subseteq HeldBy(r) /\ HeldBy(r) = r.batch \cup r.built
        BY <2>4, <3>1, <3>3 DEF HeldBy, BuiltRow
      <4>2. \A b \in n.built : n.tag[LeadOf(b)] = b
        <5>1. r.tag \in [Leads -> MsgIds \cup {NULL}]
          BY <1>1 DEF TickState
        <5>2. \A b \in r.built : b # m /\ LeadOf(b) # LeadOf(m) /\ r.tag[LeadOf(b)] = b
          BY <1>1, <3>1, <4>1 DEF BatchOK, Busy
        <5> QED BY <1>1, <3>3, <5>1, <5>2
      <4>3. \A a, b \in HeldBy(n) : LeadOf(a)' = LeadOf(b)' => a = b
        BY <1>1, <4>1 DEF BatchOK
      <4>4. \A b \in n.built : LeadOf(b)' = LeadOf(b)
        BY <1>1, <3>3
      <4> QED BY <4>2, <4>3, <4>4 DEF BatchOK
    <3> QED BY <2>4, <3>2, <3>3 DEF BuiltRow
  <2>5. CASE PostMoves(t)
    <3>1. r.pc \in {"posted", "errors"} /\ n.pc \in {"posted", "errors"}
      BY <2>5 DEF PostMoves, ProviderAccept, ProviderReject, TickResponse, TickHttpError, TickTransportError, TickMarkFailed
    <3>2. n.batch = r.batch /\ n.built = r.built /\ n.tag = r.tag
      BY <2>5 DEF PostMoves
    <3> QED BY <1>3, <3>1, <3>2 DEF HeldBy, Busy
  <2> QED BY <1>5, <2>1, <2>2, <2>3, <2>4, <2>5, TickMoves
<1> QED BY <1>4, <1>5

-----------------------------------------------------------------------------
(* Only Instantly's acceptance of an entry changes the mails. *)
AcceptedFrom(t, b) ==
  /\ Dispatch(t) /\ ProviderAccept(t) /\ tick[t].pc = "posted"
  /\ tick'[t].pc = "posted" /\ tick'[t].wire = tick[t].wire \ {b} /\ Accepted(t, b)
  /\ msgs' = msgs

(* Only Instantly's acceptance of an entry changes the mails. *)
LEMMA MailMoves ==
  ASSUME TypeInv, [Next]_vars
  PROVE  \/ mail' = mail
         \/ \E t \in Ticks : \E b \in tick[t].wire : AcceptedFrom(t, b)
<1>1. ASSUME NEW t \in Ticks, Dispatch(t), ProviderAccept(t)
      PROVE  \E b \in tick[t].wire : AcceptedFrom(t, b)
  <2>1. PICK b \in tick[t].wire : tick' = [tick EXCEPT ![t].wire = tick[t].wire \ {b}] /\ Accepted(t, b)
    <3>1. (CHOOSE p \in Pids : mail[p] = NULL) \in Pids /\ mail[CHOOSE p \in Pids : mail[p] = NULL] = NULL
      BY <1>1 DEF ProviderAccept
    <3> QED BY <1>1, <3>1 DEF ProviderAccept, Accepted
  <2>2. tick[t].pc = "posted" /\ msgs' = msgs /\ tick \in [Ticks -> TickState]
    BY <1>1 DEF ProviderAccept, TypeInv, TypeOK, TickTypeOK
  <2>3. tick'[t].wire = tick[t].wire \ {b} /\ tick'[t].pc = "posted"
    BY <2>1, <2>2 DEF TickState
  <2> QED BY <1>1, <2>1, <2>2, <2>3 DEF AcceptedFrom
<1>2. ASSUME NEW t \in Ticks, Dispatch(t), ~ ProviderAccept(t)
      PROVE  mail' = mail
  BY <1>2 DEF Dispatch, TickStep, TickFault, TickSweep, TickSelect, TickClaim, TickFetch, TickRecheck,
     TickBuild, TickResponse, TickMarkFailed, ProviderReject, TickHttpError, TickTransportError, TickStop, tables
<1>3. ASSUME NEW h \in Processes, Webhook(h)
      PROVE  mail' = mail
  BY <1>3 DEF Webhook, HandlerStep, HandleMark, HandleLookup, HandleCount, HandleSuppress, HandleCancel,
     HandleAdvance, HandleStamp, HandlerCrash
<1>4. CASE (\E m \in MsgIds : Elapse(m)) \/ Ingress \/ Sweep \/ (\E e \in Event : Grace(e)) \/ UNCHANGED vars
  BY <1>4 DEF Elapse, Ingress, ProviderEvent, DeliverFails, Deliver, Sweep, SweepSelect, SweepNext,
     Grace, GraceEnds, vars, tables
<1> QED BY <1>1, <1>2, <1>3, <1>4 DEF Next

(* The rows and their mails after an acceptance. *)
LEMMA MailedAfter ==
  ASSUME TypeInv, NEW t \in Ticks, NEW b \in tick[t].wire, AcceptedFrom(t, b), BatchOK(tick[t])
  PROVE  /\ \E p \in Pids : mail[p] = NULL /\ mail' = [mail EXCEPT ![p] = [body |-> b, tag |-> b]]
         /\ \A m \in MsgIds : Mailed(m)' => Mailed(m) \/ m = b
<1>1. b \in tick[t].built /\ Busy(tick[t])
  BY TypeInvFacts DEF TickOK, AcceptedFrom, Busy
<1>2. tick[t].tag[LeadOf(b)] = b
  BY <1>1 DEF BatchOK
<1>3. PICK p \in Pids : mail[p] = NULL /\ mail' = [mail EXCEPT ![p] = [body |-> b, tag |-> b]]
  BY <1>2 DEF AcceptedFrom, Accepted
<1>4. ASSUME NEW m \in MsgIds, NEW q \in Pids, mail'[q] # NULL, mail'[q].body = m, m # b
      PROVE  Mailed(m)
  <2>1. q # p
    BY <1>3, <1>4, TypeInvFacts
  <2> QED BY <1>3, <1>4, <2>1 DEF Mailed
<1> QED BY <1>3, <1>4 DEF Mailed

(* What the steps of the mailing invariant may use. *)
MailFacts ==
  TypeInv /\ ClaimInv /\ ConfInv /\ TaskInv /\ PostInv /\ MailState /\ RoundTripExact

(* What a tick has yet to give to Instantly it holds. *)
LEMMA UnsentIsHeld ==
  ASSUME MailFacts, NEW t \in Ticks, NEW m \in Unsent(tick[t])
  PROVE  m \in MsgIds /\ m \in Held(t) /\ tick[t].pc \in {"fetch", "recheck", "build", "posted"}
BY TypeInvFacts DEF MailFacts, TypeInv, TickOK, TickState, PostInv, PostShape, Unsent, Held

(* Nobody else moves a row that a tick is about to post. *)
LEMMA UnsentStays ==
  ASSUME MailFacts, [Next]_vars, NEW t \in Ticks, NEW m \in Unsent(tick[t])
  PROVE  InHand(msgs'[m]) \/ (Dispatch(t) /\ tick[t].pc = "build")
<1>1. m \in MsgIds /\ m \in Held(t) /\ tick[t].pc \in {"fetch", "recheck", "build", "posted"}
  BY UnsentIsHeld
<1>2. ~ Mailed(m) /\ InHand(msgs[m])
  BY DEF MailFacts, PostInv
<1>3. RowMoves(m)
  BY <1>1, RowsMove DEF MailFacts
<1>4. ASSUME NEW u \in Ticks, Dispatch(u), MovedByTick(m, u)
      PROVE  Dispatch(t) /\ tick[t].pc = "build"
  <2>1. CASE tick[u].pc = "build" /\ m \in tick[u].batch
    BY <1>1, <1>4, <2>1 DEF MailFacts, ClaimInv, ClaimExclusive, Held
  <2>2. CASE TickMarkFailed(u) /\ \E b \in tick[u].errors : m = tick[u].tag[LeadOf(b)]
    <3>1. PICK b \in tick[u].errors : m = tick[u].tag[LeadOf(b)]
      BY <2>2
    <3>2. tick[u].pc = "errors" /\ b \in tick[u].built
      BY <2>2, TypeInvFacts DEF TickMarkFailed, TickOK, MailFacts
    <3>3. m = b
      BY <3>1, <3>2 DEF MailFacts, PostInv, BatchOK, Busy
    <3>4. m \in Held(u)
      BY <3>2, <3>3 DEF Held
    <3> QED BY <1>1, <3>2, <3>4 DEF MailFacts, ClaimInv, ClaimExclusive
  <2> QED BY <1>2, <1>4, <2>1, <2>2 DEF MovedByTick, InHand
<1>5. ASSUME NEW h \in Processes, MovedByTask(m, h) PROVE FALSE
  <2>1. msgs[m].pid = NULL
    BY <1>1, <1>2 DEF MailFacts, ConfInv, ConfirmedNeverQueued, InHand
  <2>2. HandleMark(h) /\ m = mail[handler[h].ev.pid].tag
    BY <1>2, <1>5, <2>1 DEF MovedByTask, InHand
  <2>3. handler[h].ev.pid \in Pids /\ mail[handler[h].ev.pid] # NULL
    BY <2>2, WorkingOn, TypeInvFacts DEF HandleMark, MailFacts, HandlerOK
  <2> QED BY <1>2, <2>2, <2>3 DEF MailFacts, RoundTripExact, Mailed
<1> QED BY <1>1, <1>2, <1>3, <1>4, <1>5 DEF RowMoves, Inserted, InHand

(* A row that a tick has yet to give to Instantly is accepted from no      *)
(* other tick.                                                             *)
LEMMA UnsentUnmailed ==
  ASSUME MailFacts, [Next]_vars, NEW t \in Ticks, NEW m \in Unsent(tick[t]), Mailed(m)'
  PROVE  m \in tick[t].wire /\ AcceptedFrom(t, m)
<1>1. m \in MsgIds /\ m \in Held(t) /\ ~ Mailed(m)
  BY UnsentIsHeld DEF MailFacts, PostInv
<1>2. mail' # mail
  BY <1>1 DEF Mailed
<1>3. PICK u \in Ticks : \E b \in tick[u].wire : AcceptedFrom(u, b)
  BY <1>2, MailMoves DEF MailFacts
<1>4. PICK b \in tick[u].wire : AcceptedFrom(u, b)
  BY <1>3
<1>5. m = b
  BY <1>1, <1>4, MailedAfter DEF MailFacts, PostInv
<1>6. b \in Unsent(tick[u])
  BY <1>4 DEF AcceptedFrom, Unsent
<1>7. u = t
  BY <1>1, <1>5, <1>6, UnsentIsHeld DEF MailFacts, ClaimInv, ClaimExclusive
<1> QED BY <1>4, <1>5, <1>7

-----------------------------------------------------------------------------
(* The rows a tick holds and has not given to Instantly stay unmailed. *)
LEMMA UnsentNext ==
  ASSUME MailFacts, [Next]_vars, NEW t \in Ticks, NEW m \in Unsent(tick'[t])
  PROVE  ~ Mailed(m)' /\ InHand(msgs'[m])
<1> DEFINE r == tick[t]
           n == tick'[t]
<1>1. PostShape(r) /\ Shape(r)
  BY DEF MailFacts, PostInv, ClaimInv
<1>2. ASSUME m \in Unsent(r), Dispatch(t) => r.pc # "build", ~ AcceptedFrom(t, m)
      PROVE  ~ Mailed(m)' /\ InHand(msgs'[m])
  BY <1>2, UnsentStays, UnsentUnmailed
<1>3. CASE ~ Dispatch(t)
  <2>1. n = r
    BY <1>3, OneTickMoves DEF MailFacts
  <2> QED BY <1>2, <1>3, <2>1 DEF AcceptedFrom
<1>4. CASE Dispatch(t) /\ n = idleTick
  BY <1>4 DEF Unsent, idleTick
<1>5. CASE Dispatch(t) /\ QueueMoves(t) /\ ~ TickClaim(t)
  <2>1. \/ r.pc \in {"idle", "select"} /\ n.pc \in {"select", "claim"}
        \/ r.pc \in {"fetch", "recheck"} /\ n.pc \in {"recheck", "build"} /\ n.batch = r.batch
    BY <1>5 DEF QueueMoves, TickSweep, TickSelect, TickFetch, TickRecheck
  <2>2. n.built = r.built /\ n.wire = r.wire
    BY <1>5 DEF QueueMoves, SamePost
  <2>3. ~ AcceptedFrom(t, m)
    BY <2>1 DEF AcceptedFrom
  <2> QED BY <1>1, <1>2, <2>1, <2>2, <2>3 DEF Unsent, PostShape
<1>6. CASE Dispatch(t) /\ QueueMoves(t) /\ TickClaim(t)
  <2>1. /\ r.pc = "claim" /\ n.pc = "fetch" /\ n.batch = Claimable(msgs, r.batch) /\ n.built = r.built
        /\ msgs' = ClaimBatch(msgs, r.batch) /\ mail' = mail
    BY <1>6 DEF QueueMoves, TickClaim, TickSweep, TickSelect, TickFetch, TickRecheck, SamePost
  <2>2. m \in Claimable(msgs, r.batch) /\ m \in MsgIds /\ msgs[m].status = "pending"
    BY <1>1, <2>1, TypeInvFacts DEF Unsent, Shape, Claimable, TickState, MailFacts
  <2>3. msgs'[m] = [msgs[m] EXCEPT !.status = "dispatching", !.stale = FALSE] /\ msgs[m] \in Row
    BY <2>1, <2>2, TypeInvFacts DEF ClaimBatch, Rows, MailFacts
  <2>4. InHand(msgs'[m])
    BY <2>3 DEF InHand, Row
  <2>5. ~ Mailed(m)
    BY <2>2 DEF MailFacts, MailState, InHand
  <2> QED BY <2>1, <2>4, <2>5 DEF Mailed
<1>7. ASSUME TickBuild(t), NEW x \in r.batch, BuiltRow(t, x)
      PROVE  ~ Mailed(m)' /\ InHand(msgs'[m])
  <2>1. r.pc = "build" /\ mail' = mail
    BY <1>7 DEF TickBuild
  <2>2. m \in (r.batch \ {x}) \cup n.built
    BY <1>7 DEF BuiltRow, Unsent
  <2>3. m \in Unsent(r) /\ msgs'[m] = msgs[m]
    <3>1. CASE n.built = r.built /\ \E st \in {"failed", "cancelled", "pending"} : TickRelease(t, x, st)
      <4>1. m \in r.batch \cup r.built /\ m # x
        BY <1>1, <2>2, <3>1 DEF Shape
      <4>2. m \in MsgIds
        BY <4>1, TypeInvFacts DEF MailFacts, TickState
      <4>3. msgs' = msgs \/ \E st : msgs' = ReleaseClaim(msgs, x, st)
        BY <3>1 DEF TickRelease
      <4>4. msgs'[m] = msgs[m]
        BY <4>1, <4>2, <4>3, TypeInvFacts DEF MailFacts, ReleaseClaim, Rows
      <4> QED BY <2>1, <4>1, <4>4 DEF Unsent
    <3>2. CASE n.built = r.built \cup {x} /\ TickAppend(t, x)
      BY <2>1, <2>2, <3>2 DEF TickAppend, Unsent
    <3> QED BY <1>7, <3>1, <3>2 DEF BuiltRow
  <2> QED BY <2>1, <2>3 DEF MailFacts, PostInv, Mailed
<1>8. CASE Dispatch(t) /\ PostMoves(t)
  <2>1. r.pc \in {"posted", "errors"} /\ n.pc \in {"posted", "errors"}
    BY <1>8 DEF PostMoves, ProviderAccept, ProviderReject, TickResponse, TickHttpError, TickTransportError, TickMarkFailed
  <2>2. n.wire \subseteq r.wire
    BY <1>8 DEF PostMoves
  <2>3. m \in Unsent(r) /\ m \in n.wire
    BY <2>1, <2>2 DEF Unsent
  <2>4. ~ AcceptedFrom(t, m)
    BY <2>3 DEF AcceptedFrom
  <2> QED BY <1>2, <2>1, <2>3, <2>4
<1> QED BY <1>3, <1>4, <1>5, <1>6, <1>7, <1>8, TickMoves DEF MailFacts

(* The invariant of the ticks. *)
LEMMA PostInvNext ==
  ASSUME MailFacts, TableInv, [Next]_vars
  PROVE  PostInv'
<1>1. ASSUME NEW t \in Ticks
      PROVE  BatchOK(tick[t])' /\ PostShape(tick'[t])
  <2>1. BatchOK(tick[t]) /\ PostShape(tick[t]) /\ Lasts
    BY StepLasts DEF MailFacts, PostInv
  <2>2. CASE Dispatch(t)
    BY <2>1, <2>2, BatchOKNext, PostShapeNext DEF MailFacts
  <2>3. CASE ~ Dispatch(t)
    BY <2>1, <2>3, BatchOKNext, OneTickMoves DEF MailFacts
  <2> QED BY <2>2, <2>3
<1>2. \A t \in Ticks : \A m \in Unsent(tick'[t]) : ~ Mailed(m)' /\ InHand(msgs'[m])
  BY UnsentNext
<1> QED BY <1>1, <1>2 DEF PostInv

(* The claim on a mailed row does not get stale, so it is confirmed in place. *)
LEMMA MailStateNext ==
  ASSUME MailFacts, Prompt, [Next]_vars
  PROVE  MailState'
<1> SUFFICES ASSUME NEW m \in MsgIds, Mailed(m)'
             PROVE  \/ InHand(msgs'[m])
                    \/ msgs'[m].status \in {"sent", "replied", "bounced", "unsubscribed"}
  BY DEF MailState
<1>1. CASE ~ Mailed(m)
  <2>1. PICK t \in Ticks : \E b \in tick[t].wire : AcceptedFrom(t, b)
    BY <1>1, MailMoves DEF MailFacts, Mailed
  <2>2. PICK b \in tick[t].wire : AcceptedFrom(t, b)
    BY <2>1
  <2>3. m = b /\ b \in Unsent(tick[t])
    BY <1>1, <2>2, MailedAfter DEF MailFacts, PostInv, AcceptedFrom, Unsent
  <2> QED BY <2>2, <2>3 DEF MailFacts, PostInv, AcceptedFrom
<1>2. CASE Mailed(m)
  <2>1. PICK p \in Pids : mail[p] # NULL /\ mail[p].body = m /\ mail[p].tag = m
    BY <1>2 DEF Mailed, MailFacts, RoundTripExact
  <2>2. InHand(msgs[m]) \/ msgs[m].status \in {"sent", "replied", "bounced", "unsubscribed"}
    BY <1>2 DEF MailFacts, MailState
  <2>3. RowMoves(m)
    BY RowsMove DEF MailFacts
  <2>4. CASE AwaitsSent(m) \/ msgs[m].pid # NULL
    <3>1. msgs[m].pid # NULL => msgs[m].status # "dispatching"
      BY DEF MailFacts, ConfInv, ConfirmedNeverQueued
    <3>2. "late" \notin FaultKinds
      BY DEF Prompt
    <3>3. ASSUME NEW u \in Ticks, Dispatch(u), MovedByTick(m, u)
          PROVE  msgs'[m].status = "bounced"
      <4>1. ~ (tick[u].pc = "build" /\ m \in tick[u].batch)
        BY <1>2 DEF MailFacts, PostInv, Unsent
      <4> QED BY <2>2, <3>3, <4>1 DEF MovedByTick, InHand
    <3>4. ASSUME NEW h \in Processes, MovedByTask(m, h)
          PROVE  msgs'[m].status \in {"sent", "replied", "bounced", "unsubscribed"}
      BY <2>2, <3>4 DEF MovedByTask, InHand
    <3> QED BY <2>2, <2>3, <2>4, <3>1, <3>2, <3>3, <3>4 DEF RowMoves, Inserted, InHand
  <2>5. AwaitsSent(m) \/ msgs[m].pid # NULL
    BY <2>1 DEF AwaitsSent, MailFacts, TaskInv, DoneConfirmed
  <2> QED BY <2>4, <2>5
<1> QED BY <1>1, <1>2

(* A new mail is the first of its row, and is tagged with it. *)
LEMMA MailsNext ==
  ASSUME MailFacts, MailedOnce, [Next]_vars
  PROVE  RoundTripExact' /\ MailedOnce'
<1>1. CASE mail' = mail
  BY <1>1 DEF MailFacts, RoundTripExact, MailedOnce
<1>2. CASE mail' # mail
  <2>1. PICK t \in Ticks : \E b \in tick[t].wire : AcceptedFrom(t, b)
    BY <1>2, MailMoves DEF MailFacts
  <2>2. PICK b \in tick[t].wire : AcceptedFrom(t, b)
    BY <2>1
  <2>3. ~ Mailed(b)
    BY <2>2 DEF MailFacts, PostInv, AcceptedFrom, Unsent
  <2>4. PICK p \in Pids : mail[p] = NULL /\ mail' = [mail EXCEPT ![p] = [body |-> b, tag |-> b]]
    BY <2>2, MailedAfter DEF MailFacts, PostInv
  <2>5. mail'[p] = [body |-> b, tag |-> b] /\ \A q \in Pids \ {p} : mail'[q] = mail[q]
    BY <2>4, TypeInvFacts DEF MailFacts
  <2>6. RoundTripExact'
    BY <2>5 DEF MailFacts, RoundTripExact
  <2>7. MailedOnce'
    BY <2>3, <2>5 DEF MailedOnce, Mailed
  <2> QED BY <2>6, <2>7
<1> QED BY <1>1, <1>2

(* The mailing invariant is inductive, relative to the other three. *)
LEMMA MailInvNext == TypeInv /\ ClaimInv /\ ConfInv /\ MailInv /\ [Next]_vars => MailInv'
<1> SUFFICES ASSUME TypeInv, ClaimInv, ConfInv, MailInv, [Next]_vars, Prompt, EnrolledOnce
             PROVE  TableInv' /\ TaskInv' /\ PostInv' /\ MailState' /\ RoundTripExact' /\ MailedOnce'
  BY DEF MailInv, Prompt, EnrolledOnce
<1>1. MailFacts /\ TableInv /\ MailedOnce /\ "db" \notin FaultKinds
  BY DEF MailInv, MailFacts, Prompt
<1>2. TableInv'
  BY <1>1, TableInvNext DEF MailFacts, TaskInv
<1>3. TaskInv'
  BY <1>1, HandlersConfirmedNext, DoneConfirmedNext DEF MailFacts, TaskInv
<1> QED BY <1>1, <1>2, <1>3, PostInvNext, MailStateNext, MailsNext

(* No double dispatch: the text of a row is mailed once, whatever ticks    *)
(* and tasks die or overlap and whatever is delivered again or out of      *)
(* order, as long as no database call fails and an email_sent is processed *)
(* before the claim on its row times out.                                  *)
THEOREM MailsOnce ==
  ASSUME Prompt, EnrolledOnce
  PROVE  Spec => []MailedOnce
<1>1. MailInv => MailedOnce
  BY DEF MailInv
<1> QED BY <1>1, TypeInvInit, TypeInvNext, ClaimInvInit, ClaimInvNext, ConfInvInit, ConfInvNext, MailInvInit, MailInvNext,
           PTL DEF Spec

(* The lds_message_id round trip: what Instantly reports of a mail names   *)
(* the row whose text was mailed, through message_ids of the tick.         *)
THEOREM TagsAreExact ==
  ASSUME Prompt, EnrolledOnce
  PROVE  Spec => []RoundTripExact
<1>1. MailInv => RoundTripExact
  BY DEF MailInv
<1> QED BY <1>1, TypeInvInit, TypeInvNext, ClaimInvInit, ClaimInvNext, ConfInvInit, ConfInvNext, MailInvInit, MailInvNext,
           PTL DEF Spec

(* An email_sent that is stamped processed was applied: its row is         *)
(* confirmed, by whichever task or sweep got there first.                  *)
THEOREM ProcessedIsApplied ==
  ASSUME Prompt, EnrolledOnce
  PROVE  Spec => []ProcessedMeansApplied
<1>1. MailInv => ProcessedMeansApplied
  BY DEF MailInv, TaskInv, DoneConfirmed, ProcessedMeansApplied, Done
<1> QED BY <1>1, TypeInvInit, TypeInvNext, ClaimInvInit, ClaimInvNext, ConfInvInit, ConfInvNext, MailInvInit, MailInvNext,
           PTL DEF Spec

-----------------------------------------------------------------------------
(* What a tick takes for an error of the POST Instantly did not accept. *)
ErrorsUnmailed == \A t \in Ticks : \A b \in tick[t].errors : ~ Mailed(b)

RejectInv ==
  Prompt /\ EnrolledOnce /\ "transport" \notin FaultKinds => ErrorsUnmailed /\ SendFailedWasNotAccepted

(* No error and no bounce at first. *)
LEMMA RejectInvInit == Init => RejectInv
BY DEF Init, TickInit, TablesInit, idleTick, RejectInv, ErrorsUnmailed, SendFailedWasNotAccepted

(* An entry is rejected or accepted, never both. *)
LEMMA ErrorsUnmailedNext ==
  ASSUME MailFacts, ErrorsUnmailed, "transport" \notin FaultKinds, [Next]_vars
  PROVE  ErrorsUnmailed'
<1> SUFFICES ASSUME NEW t \in Ticks, NEW b \in tick'[t].errors, Mailed(b)' PROVE FALSE
  BY DEF ErrorsUnmailed
<1> DEFINE r == tick[t]
           n == tick'[t]
<1>1. PostShape(r) /\ \A x \in r.wire : r.pc = "posted" /\ x \in Unsent(r) /\ ~ Mailed(x)
  BY DEF MailFacts, PostInv, PostShape, Unsent
<1>2. b \in r.errors \/ (Dispatch(t) /\ ProviderReject(t) /\ b \in r.wire) \/ (Dispatch(t) /\ TickHttpError(t) /\ b \in r.wire)
  <2>1. CASE ~ Dispatch(t)
    BY <2>1, OneTickMoves DEF MailFacts
  <2>2. CASE n = idleTick
    BY <2>2 DEF idleTick
  <2>3. CASE QueueMoves(t)
    BY <2>3 DEF QueueMoves, SamePost
  <2>4. ASSUME NEW x \in r.batch, BuiltRow(t, x) PROVE b \in r.errors
    BY <2>4 DEF BuiltRow
  <2>5. CASE Dispatch(t) /\ PostMoves(t)
    <3>1. ~ TickTransportError(t)
      BY DEF TickTransportError, Fault
    <3>2. TickHttpError(t) => r.wire = r.built
      BY DEF TickHttpError
    <3> QED BY <2>5, <3>1, <3>2 DEF PostMoves
  <2> QED BY <2>1, <2>2, <2>3, <2>4, <2>5, TickMoves DEF MailFacts
<1>3. ~ Mailed(b)
  BY <1>1, <1>2 DEF ErrorsUnmailed
<1>4. PICK u \in Ticks : \E x \in tick[u].wire : AcceptedFrom(u, x)
  BY <1>3, MailMoves DEF MailFacts, Mailed
<1>5. PICK x \in tick[u].wire : AcceptedFrom(u, x)
  BY <1>4
<1>6. b \in MsgIds /\ (b \in r.errors => b \in r.built)
  BY <1>2, TypeInvFacts DEF MailFacts, TickOK, TickState
<1>7. b = x /\ b \in Unsent(tick[u]) /\ b \in Held(u)
  <2>1. b = x
    BY <1>3, <1>5, <1>6, MailedAfter DEF MailFacts, PostInv
  <2>2. b \in Unsent(tick[u])
    BY <1>5, <2>1 DEF AcceptedFrom, Unsent
  <2> QED BY <2>1, <2>2, UnsentIsHeld
<1>8. b \in Held(t)
  <2>1. CASE b \in r.errors
    BY <1>1, <1>6, <2>1 DEF PostShape, Held
  <2>2. CASE b \in r.wire
    BY <1>1, <2>2, UnsentIsHeld
  <2> QED BY <1>2, <2>1, <2>2
<1>9. u = t
  BY <1>7, <1>8 DEF MailFacts, ClaimInv, ClaimExclusive
<1> QED BY <1>1, <1>2, <1>5, <1>7, <1>9 DEF PostShape, AcceptedFrom, ProviderAccept, ProviderReject, TickHttpError

(* mark_send_failed gives up on rejected rows only. *)
LEMMA SendFailedNext ==
  ASSUME MailFacts, ErrorsUnmailed, SendFailedWasNotAccepted, RoundTripExact', [Next]_vars
  PROVE  SendFailedWasNotAccepted'
<1> SUFFICES ASSUME NEW m \in MsgIds, msgs'[m].status = "bounced", msgs'[m].pid = NULL, Mailed(m)'
             PROVE  FALSE
  BY TypeInvFacts DEF SendFailedWasNotAccepted, RoundTripExact, Mailed
<1>1. RowMoves(m)
  BY RowsMove DEF MailFacts
<1>2. CASE Mailed(m)
  <2>1. ~ (msgs[m].status = "bounced" /\ msgs[m].pid = NULL)
    BY <1>2 DEF SendFailedWasNotAccepted, MailFacts, RoundTripExact, Mailed
  <2>2. PICK u \in Ticks : TickMarkFailed(u) /\ \E b \in tick[u].errors : m = tick[u].tag[LeadOf(b)]
    BY <1>1, <2>1, TablesAssumption DEF RowMoves, MovedByTick, MovedByTask, Inserted
  <2>3. PICK b \in tick[u].errors : m = tick[u].tag[LeadOf(b)]
    BY <2>2
  <2>4. tick[u].pc = "errors" /\ b \in tick[u].built
    BY <2>2, TypeInvFacts DEF TickMarkFailed, TickOK, MailFacts
  <2>5. m = b
    BY <2>3, <2>4 DEF MailFacts, PostInv, BatchOK, Busy
  <2> QED BY <1>2, <2>5 DEF ErrorsUnmailed
<1>3. CASE ~ Mailed(m)
  <2>1. PICK t \in Ticks : \E b \in tick[t].wire : AcceptedFrom(t, b)
    BY <1>3, MailMoves DEF MailFacts, Mailed
  <2>2. PICK b \in tick[t].wire : AcceptedFrom(t, b)
    BY <2>1
  <2>3. m = b /\ b \in Unsent(tick[t])
    BY <1>3, <2>2, MailedAfter DEF MailFacts, PostInv, AcceptedFrom, Unsent
  <2> QED BY <2>2, <2>3 DEF MailFacts, PostInv, AcceptedFrom, InHand
<1> QED BY <1>2, <1>3

(* The invariant of the errors is inductive, relative to the other four. *)
LEMMA RejectInvNext == TypeInv /\ ClaimInv /\ ConfInv /\ MailInv /\ MailInv' /\ RejectInv /\ [Next]_vars => RejectInv'
<1> SUFFICES ASSUME TypeInv, ClaimInv, ConfInv, MailInv, MailInv', RejectInv, [Next]_vars, Prompt, EnrolledOnce,
                    "transport" \notin FaultKinds
             PROVE  ErrorsUnmailed' /\ SendFailedWasNotAccepted'
  BY DEF RejectInv, Prompt, EnrolledOnce
<1>1. MailFacts /\ RoundTripExact' /\ ErrorsUnmailed /\ SendFailedWasNotAccepted
  BY DEF MailInv, MailFacts, RejectInv, Prompt, EnrolledOnce
<1> QED BY <1>1, ErrorsUnmailedNext, SendFailedNext

(* A row that the tick bounces after the POST was not accepted by          *)
(* Instantly, where no POST is cut off after Instantly took an entry       *)
(* ("transport").                                                          *)
THEOREM SendFailuresAreReal ==
  ASSUME Prompt, EnrolledOnce, "transport" \notin FaultKinds
  PROVE  Spec => []SendFailedWasNotAccepted
<1>1. RejectInv => SendFailedWasNotAccepted
  BY DEF RejectInv
<1> QED BY <1>1, TypeInvInit, TypeInvNext, ClaimInvInit, ClaimInvNext, ConfInvInit, ConfInvNext, MailInvInit, MailInvNext,
           RejectInvInit, RejectInvNext, PTL DEF Spec
-----------------------------------------------------------------------------
(* No call is repeated: nothing fails or is slow, and nothing is delivered *)
(* twice.  A task that dies leaves its event to the sweeper alone.         *)
Once == {"db", "slow", "duplicate"} \cap FaultKinds = {}

Works(h, e) == handler[h].pc # "idle" /\ handler[h].ev = e

(* An event is in the hands of one task: first of the one that its only    *)
(* delivery started, then of the sweeper, then of none.                    *)
Attended(e) ==
  /\ Recorded(e) => e \in acked
  /\ e \in sweep => webhook_events[e] = "overdue" /\ ~ Works(Sweeper, e)
  /\ \A h \in Processes : Works(h, e) =>
       /\ webhook_events[e] = IF h = Sweeper THEN "overdue" ELSE "received"
       /\ \A k \in Processes : Works(k, e) => k = h

(* What Instantly says of a mail comes after its email_sent is processed.  *)
InTurn(e) == e.type # "sent" /\ Recorded(e) => Done(Ev("sent", e.pid))

TurnInv ==
  Once => \A e \in Event : Attended(e) /\ ("reorder" \notin FaultKinds => InTurn(e))

(* Which calls a handler makes. *)
TaskPath == \A h \in Processes :
  LET e == handler[h].ev  pc == handler[h].pc IN
  /\ pc \in {"count", "suppress"} => e.type \notin {"sent", "replied"}
  /\ pc = "stampError" => e.type \notin {"sent", "replied"} \/ "db" \in FaultKinds
  /\ pc = "cancel" => e.type # "sent"
  /\ pc = "advance" => e.type \in {"sent", "replied"}

(* The reply to mail p is processed, or its task is at one of these calls. *)
Past(p, pcs) ==
  "replied" \in EventTypes /\
  \/ Done(Ev("replied", p))
  \/ \E h \in Processes : Works(h, Ev("replied", p)) /\ handler[h].pc \in pcs
-----------------------------------------------------------------------------
(* How a step moves the events and the tasks, where no call is repeated. *)
HooksMove ==
  \/ UNCHANGED <<acked, webhook_events, handler, sweep>>
  \/ \E h \in Handlers, e \in Event : Deliver(h, e) /\ e \notin acked
  \/ \E e \in Event : GraceEnds(e) /\ \A h \in Handlers : handler[h].ev # e
  \/ SweepSelect \/ SweepNext
  \/ \E h \in Processes : HandlerStep(h) \/ HandlerCrash(h)

(* Every step moves them so. *)
LEMMA HooksAreMoved == ASSUME Once, [Next]_vars PROVE HooksMove
<1>1. \A k \in {"db", "slow", "duplicate"} : ~ Fault(k)
  BY DEF Once, Fault
<1>2. CASE Ingress
  <2>1. PICK e \in Event : ProviderEvent(e) \/ \E h \in Handlers : Deliver(h, e)
    BY <1>1, <1>2 DEF Ingress, DeliverFails
  <2>2. ASSUME NEW h \in Handlers, Deliver(h, e) PROVE e \notin acked
    BY <1>1, <2>2 DEF Deliver
  <2> QED BY <2>1, <2>2 DEF ProviderEvent, HooksMove
<1>3. ASSUME NEW e \in Event, Grace(e) PROVE HooksMove
  <2>1. \A h \in Handlers : handler[h].ev # e
    BY <1>1, <1>3 DEF Grace, GraceEnds
  <2> QED BY <1>3, <2>1 DEF Grace, HooksMove
<1>4. CASE Sweep \/ \E h \in Processes : Webhook(h)
  BY <1>4 DEF Sweep, Webhook, HooksMove
<1>5. CASE (\E t \in Ticks : Dispatch(t)) \/ (\E m \in MsgIds : Elapse(m)) \/ UNCHANGED vars
  BY <1>5 DEF Dispatch, Elapse, hooks, vars, HooksMove
<1> QED BY <1>2, <1>3, <1>4, <1>5 DEF Next

(* A call of a task that is not its last leaves the events alone; the last *)
(* one stamps the event of the task.                                       *)
LEMMA TaskHooks ==
  ASSUME TypeInv, Once, NEW h \in Processes, HandlerStep(h)
  PROVE  /\ handler[h].pc # "idle" /\ acked' = acked /\ sweep' = sweep
         /\ \A k \in Processes \ {h} : handler'[k] = handler[k]
         /\ \/ webhook_events' = webhook_events /\ handler'[h].ev = handler[h].ev
            \/ webhook_events' = webhook_events /\ handler'[h].pc = "idle"
            \/ /\ HandleStamp(h) /\ handler'[h] = idleHandler
               /\ webhook_events'[handler[h].ev] \in {"processed", "errored"}
               /\ \A e \in Event \ {handler[h].ev} : webhook_events'[e] = webhook_events[e]
<1>1. /\ webhook_events \in [Event -> {"none", "received", "overdue", "processed", "errored"}]
      /\ handler \in [Processes -> HandlerState]
  BY DEF TypeInv, TypeOK, HooksTypeOK
<1>2. handler[h].pc # "idle"
  BY StepPc DEF HandlerStep
<1>3. handler[h].ev \in Event
  BY <1>2, WorkingOn
<1>4. acked' = acked /\ sweep' = sweep
  BY DEF HandlerStep, HandleMark, HandleCancel, HandleLookup, HandleCount, HandleSuppress, HandleAdvance, HandleStamp
<1>5. ASSUME NEW pc, Goto(h, pc)
      PROVE  handler'[h].ev = handler[h].ev /\ \A k \in Processes \ {h} : handler'[k] = handler[k]
  BY <1>1, <1>5 DEF Goto, HandlerState
<1>6. Finish(h) => handler'[h] = idleHandler /\ \A k \in Processes \ {h} : handler'[k] = handler[k]
  BY <1>1 DEF Finish
<1>7. CASE HandleLookup(h)
  <2>1. PICK m : handler' = [handler EXCEPT ![h] =
                   [pc |-> AfterLookup(handler[h].ev, m), ev |-> handler[h].ev, row |-> m,
                    rowPid |-> IF m = NULL THEN NULL ELSE msgs[m].pid]]
    BY <1>7 DEF HandleLookup
  <2>2. handler'[h].ev = handler[h].ev /\ \A k \in Processes \ {h} : handler'[k] = handler[k]
    BY <1>1, <2>1
  <2> QED BY <1>2, <1>4, <1>7, <2>2 DEF HandleLookup
<1>8. CASE HandleStamp(h)
  <2>1. webhook_events' = [webhook_events EXCEPT ![handler[h].ev] =
                             IF handler[h].pc = "stamp" THEN "processed" ELSE "errored"]
    BY <1>8 DEF HandleStamp, Once, Fault
  <2> QED BY <1>1, <1>2, <1>3, <1>4, <1>6, <1>8, <2>1 DEF HandleStamp
<1>9. CASE HandleMark(h) \/ HandleCount(h) \/ HandleSuppress(h) \/ HandleCancel(h) \/ HandleAdvance(h)
  <2>1. webhook_events' = webhook_events /\ (Finish(h) \/ \E pc : Goto(h, pc))
    BY <1>9 DEF HandleMark, HandleCount, HandleSuppress, HandleCancel, HandleAdvance
  <2> QED BY <1>2, <1>4, <1>5, <1>6, <2>1 DEF idleHandler
<1> QED BY <1>7, <1>8, <1>9 DEF HandlerStep

(* No event is recorded at first. *)
LEMMA TurnInvInit == Init => TurnInv
BY DEF Init, HooksInit, idleHandler, TurnInv, Attended, InTurn, Works, Recorded

(* An event stays in one hand. *)
LEMMA AttendedNext ==
  ASSUME TypeInv, Once, [Next]_vars, \A x \in Event : Attended(x), NEW e \in Event
  PROVE  Attended(e)'
<1>1. /\ webhook_events \in [Event -> {"none", "received", "overdue", "processed", "errored"}]
      /\ handler \in [Processes -> HandlerState] /\ Sweeper \in Processes /\ Sweeper \notin Handlers
      /\ Handlers \subseteq Processes
  BY WebhookAssumption DEF TypeInv, TypeOK, HooksTypeOK, Processes
<1>2. Attended(e)
  OBVIOUS
<1>3. CASE UNCHANGED <<acked, webhook_events, handler, sweep>>
  BY <1>2, <1>3 DEF Attended, Works, Recorded
<1>4. ASSUME NEW g \in Handlers, NEW x \in Event, Deliver(g, x), x \notin acked
      PROVE  Attended(e)'
  <2> DEFINE r == [idleHandler EXCEPT !.pc = "mark", !.ev = x]
  <2>1. r.pc = "mark" /\ r.ev = x
    BY DEF idleHandler
  <2>2. /\ handler' = [handler EXCEPT ![g] = r] /\ acked' = acked \cup {x} /\ sweep' = sweep
        /\ handler[g].pc = "idle"
    BY <1>4 DEF Deliver
  <2>3. webhook_events[x] = "none" /\ webhook_events' = [webhook_events EXCEPT ![x] = "received"]
    BY <1>4 DEF Deliver, Attended, Recorded
  <2> HIDE DEF r
  <2>4. x \notin sweep /\ \A k \in Processes : ~ Works(k, x)
    <3>1. Attended(x)
      OBVIOUS
    <3> QED BY <2>3, <3>1 DEF Attended
  <2>5. \A k \in Processes : Works(k, e)' <=> IF k = g THEN e = x ELSE Works(k, e)
    BY <1>1, <2>1, <2>2 DEF Works
  <2> QED BY <1>1, <1>2, <2>2, <2>3, <2>4, <2>5 DEF Attended, Recorded
<1>5. ASSUME NEW x \in Event, GraceEnds(x), \A h \in Handlers : handler[h].ev # x
      PROVE  Attended(e)'
  <2>1. /\ webhook_events[x] = "received" /\ webhook_events' = [webhook_events EXCEPT ![x] = "overdue"]
        /\ UNCHANGED <<acked, handler, sweep>>
    BY <1>5 DEF GraceEnds
  <2>2. x \notin sweep /\ \A k \in Processes : ~ Works(k, x)
    <3>1. Attended(x)
      OBVIOUS
    <3> QED BY <1>5, <2>1, <3>1 DEF Attended, Works, Processes
  <2> QED BY <1>1, <1>2, <2>1, <2>2 DEF Attended, Works, Recorded
<1>6. CASE SweepSelect
  <2>1. /\ UNCHANGED <<acked, webhook_events, handler>> /\ sweep' = {x \in Event : webhook_events[x] = "overdue"}
        /\ handler[Sweeper].pc = "idle"
    BY <1>6 DEF SweepSelect, Unprocessed
  <2> QED BY <1>2, <2>1 DEF Attended, Works, Recorded
<1>7. CASE SweepNext
  <2>1. PICK x \in sweep : /\ handler' = [handler EXCEPT ![Sweeper] = [idleHandler EXCEPT !.pc = "mark", !.ev = x]]
                           /\ sweep' = sweep \ {x}
    BY <1>7 DEF SweepNext
  <2> DEFINE r == [idleHandler EXCEPT !.pc = "mark", !.ev = x]
  <2>2. r.pc = "mark" /\ r.ev = x /\ x \in Event
    BY DEF idleHandler, TypeInv, TypeOK, HooksTypeOK
  <2>3. handler[Sweeper].pc = "idle" /\ UNCHANGED <<acked, webhook_events>> /\ handler' = [handler EXCEPT ![Sweeper] = r]
    BY <1>7, <2>1 DEF SweepNext
  <2> HIDE DEF r
  <2>4. webhook_events[x] = "overdue" /\ \A k \in Processes : ~ Works(k, x)
    <3>1. Attended(x)
      BY <2>2
    <3> QED BY <2>1, <2>3, <3>1 DEF Attended, Works
  <2>5. \A k \in Processes : Works(k, e)' <=> IF k = Sweeper THEN e = x ELSE Works(k, e)
    BY <1>1, <2>2, <2>3 DEF Works
  <2> QED BY <1>1, <1>2, <2>1, <2>3, <2>4, <2>5 DEF Attended, Recorded
<1>8. ASSUME NEW g \in Processes, HandlerStep(g) PROVE Attended(e)'
  <2> DEFINE x == handler[g].ev
  <2>1. /\ handler[g].pc # "idle" /\ acked' = acked /\ sweep' = sweep /\ x \in Event
        /\ \A k \in Processes \ {g} : handler'[k] = handler[k]
    BY <1>8, TaskHooks, WorkingOn
  <2>2. CASE webhook_events' = webhook_events /\ (handler'[g].ev = x \/ handler'[g].pc = "idle")
    <3>1. \A k \in Processes : Works(k, e)' => Works(k, e)
      BY <2>1, <2>2 DEF Works
    <3> QED BY <1>1, <1>2, <2>1, <2>2, <3>1 DEF Attended, Recorded
  <2>3. CASE /\ handler'[g] = idleHandler /\ webhook_events'[x] \in {"processed", "errored"}
             /\ \A y \in Event \ {x} : webhook_events'[y] = webhook_events[y]
    <3>1. Works(g, x) /\ Attended(x)
      BY <2>1 DEF Works
    <3>2. x \in acked /\ x \notin sweep /\ \A k \in Processes \ {g} : ~ Works(k, x)
      BY <1>1, <3>1 DEF Attended, Recorded
    <3>3. \A k \in Processes : Works(k, e)' => k # g /\ Works(k, e)
      BY <2>1, <2>3 DEF Works, idleHandler
    <3>4. CASE e = x
      BY <1>1, <2>1, <3>2, <3>3, <3>4 DEF Attended
    <3>5. CASE e # x
      BY <1>1, <1>2, <2>1, <2>3, <3>3, <3>5 DEF Attended, Recorded
    <3> QED BY <3>4, <3>5
  <2> QED BY <1>8, <2>2, <2>3, TaskHooks
<1>9. ASSUME NEW g \in Processes, HandlerCrash(g) PROVE Attended(e)'
  <2>1. /\ UNCHANGED <<acked, webhook_events>> /\ sweep' \subseteq sweep
        /\ handler' = [handler EXCEPT ![g] = idleHandler]
    BY <1>9 DEF HandlerCrash, Finish
  <2>2. \A k \in Processes : Works(k, e)' => Works(k, e)
    BY <1>1, <2>1 DEF Works, idleHandler
  <2> QED BY <1>1, <1>2, <2>1, <2>2 DEF Attended, Recorded
<1> QED BY <1>3, <1>4, <1>5, <1>6, <1>7, <1>8, <1>9, HooksAreMoved DEF HooksMove

(* An event that is done stays done. *)
LEMMA DoneStays ==
  ASSUME TypeInv, [Next]_vars, NEW e \in Event, Done(e)
  PROVE  Done(e)'
BY EventsMove DEF Done

(* What is recorded was delivered in its turn. *)
LEMMA InTurnNext ==
  ASSUME TypeInv, Once, "reorder" \notin FaultKinds, [Next]_vars, NEW e \in Event, Attended(e), InTurn(e)
  PROVE  InTurn(e)'
<1> SUFFICES ASSUME e.type # "sent", Recorded(e)' PROVE Done(Ev("sent", e.pid))'
  BY DEF InTurn
<1>1. Ev("sent", e.pid) \in Event
  BY WebhookAssumption DEF Ev, Event
<1>2. CASE Recorded(e)
  BY <1>1, <1>2, DoneStays DEF InTurn
<1>3. CASE ~ Recorded(e)
  <2>1. /\ webhook_events \in [Event -> {"none", "received", "overdue", "processed", "errored"}]
    BY DEF TypeInv, TypeOK, HooksTypeOK
  <2>2. webhook_events[e] = "none" /\ webhook_events'[e] # "none"
    BY <1>3 DEF Recorded
  <2>3. ASSUME NEW g \in Handlers, NEW x \in Event, Deliver(g, x) PROVE Done(Ev("sent", e.pid))
    BY <2>1, <2>2, <2>3 DEF Deliver, InOrder
  <2>4. ~ UNCHANGED webhook_events
    BY <2>2
  <2>5. ASSUME NEW x \in Event, GraceEnds(x) PROVE FALSE
    BY <2>1, <2>2, <2>5 DEF GraceEnds
  <2>6. ASSUME NEW h \in Processes, HandlerStep(h) PROVE FALSE
    BY <2>2, <2>6, TaskHooks DEF Attended, Works
  <2> QED BY <1>1, <2>3, <2>4, <2>5, <2>6, HooksAreMoved, DoneStays DEF HooksMove, SweepSelect, SweepNext, HandlerCrash
<1> QED BY <1>2, <1>3

(* The turn invariant is inductive. *)
LEMMA TurnInvNext == TypeInv /\ TurnInv /\ [Next]_vars => TurnInv'
BY AttendedNext, InTurnNext DEF TurnInv, Once

(* No task is at a call at first. *)
LEMMA TaskPathInit == Init => TaskPath
BY DEF Init, HooksInit, idleHandler, TaskPath

(* A task makes the calls that its event calls for. *)
LEMMA TaskPathNext == TypeInv /\ TaskPath /\ [Next]_vars => TaskPath'
<1> SUFFICES ASSUME TypeInv, TaskPath, [Next]_vars, NEW h \in Processes
             PROVE  LET e == handler'[h].ev  pc == handler'[h].pc IN
                    /\ pc \in {"count", "suppress"} => e.type \notin {"sent", "replied"}
                    /\ pc = "stampError" => e.type \notin {"sent", "replied"} \/ "db" \in FaultKinds
                    /\ pc = "cancel" => e.type # "sent"
                    /\ pc = "advance" => e.type \in {"sent", "replied"}
  BY DEF TaskPath
<1>1. Moves(h)
  BY HandlersMove
<1>2. CASE handler'[h] = handler[h]
  BY <1>2 DEF TaskPath
<1>3. CASE handler'[h] = idleHandler \/ handler'[h].pc = "mark"
  BY <1>3 DEF idleHandler
<1>4. CASE handler[h].pc # "idle" /\ handler'[h].ev = handler[h].ev /\ HandlerStep(h)
  <2> DEFINE e == handler[h].ev
  <2>1. e \in Event
    BY <1>4, WorkingOn
  <2>2. HandleCount(h) \/ HandleSuppress(h) => e.type \notin {"sent", "replied"}
    BY StepPc DEF TaskPath
  <2>3. HandleLookup(h) =>
          \/ e.type = "sent" /\ handler'[h].pc \in {"stamp", "advance"}
          \/ e.type \in Bounces /\ handler'[h].pc = "count"
          \/ e.type = "unsubscribed" /\ handler'[h].pc = "suppress"
          \/ e.type = "replied" /\ handler'[h].pc \in {"stamp", "cancel"}
    BY <1>4, <2>1, LookupLeads, PcAfter, StepPc
  <2> HIDE DEF e
  <2>4. LET pc == handler'[h].pc IN
        /\ pc \in {"count", "suppress"} => e.type \notin {"sent", "replied"}
        /\ pc = "stampError" => e.type \notin {"sent", "replied"} \/ "db" \in FaultKinds
        /\ pc = "cancel" => e.type # "sent"
        /\ pc = "advance" => e.type \in {"sent", "replied"}
    BY <1>4, <2>2, <2>3, PcAfter DEF Bounces, idleHandler, e
  <2> QED BY <1>4, <2>4 DEF e
<1> QED BY <1>1, <1>2, <1>3, <1>4 DEF Moves

(* What the steps of the reply invariants may use. *)
ReplyFacts ==
  /\ MailFacts /\ CauseInv /\ MailedOnce /\ TaskPath
  /\ \A e \in Event : Attended(e) /\ InTurn(e)

(* A reply is recorded after the row it answers is confirmed, by its mail. *)
LEMMA ReplyFinds ==
  ASSUME ReplyFacts, NEW p \in Pids, "replied" \in EventTypes, Recorded(Ev("replied", p))
  PROVE  /\ Ev("replied", p) \in Event /\ Done(Ev("sent", p))
         /\ mail[p] # NULL /\ mail[p].tag \in MsgIds
         /\ msgs[mail[p].tag].pid = p /\ msgs[mail[p].tag].status # "absent"
<1>1. Ev("replied", p) \in Event /\ Ev("replied", p).type = "replied" /\ Ev("replied", p).pid = p
  BY DEF Ev, Event
<1>2. Done(Ev("sent", p)) /\ mail[p] # NULL
  BY <1>1 DEF ReplyFacts, InTurn, MailFacts, TypeInv, EventsMailed
<1>3. mail[p].tag \in MsgIds /\ msgs \in Rows
  BY <1>2, TypeInvFacts DEF ReplyFacts, MailFacts, Mail
<1> DEFINE n == mail[p].tag
           q == msgs[n].pid
<1>4. q # NULL
  BY <1>2 DEF ReplyFacts, MailFacts, TaskInv, DoneConfirmed
<1>5. q \in Pids /\ mail[q] # NULL /\ mail[q].tag = n
  BY <1>3, <1>4 DEF ReplyFacts, MailFacts, ConfInv, ProviderIdTraced, Rows, Row
<1>6. mail[q].body = mail[p].body
  BY <1>2, <1>5 DEF ReplyFacts, MailFacts, RoundTripExact
<1>7. q = p
  BY <1>2, <1>5, <1>6 DEF ReplyFacts, MailedOnce
<1> QED BY <1>1, <1>2, <1>3, <1>4, <1>7 DEF ReplyFacts, MailFacts, TypeInv, RowsNamed

(* A task at work on an event has it recorded and not done. *)
LEMMA WorksOn ==
  ASSUME ReplyFacts, NEW e \in Event, NEW h \in Processes, Works(h, e)
  PROVE  Recorded(e) /\ ~ Done(e) /\ \A k \in Processes : Works(k, e) => k = h
BY DEF ReplyFacts, Attended, Recorded, Done

(* The reply that a task is at work on, and the row it answers. *)
LEMMA ReplyTask ==
  ASSUME ReplyFacts, NEW h \in Processes, handler[h].pc # "idle", handler[h].ev.type = "replied"
  PROVE  LET p == handler[h].ev.pid IN
         /\ "replied" \in EventTypes /\ p \in Pids /\ handler[h].ev = Ev("replied", p)
         /\ Works(h, Ev("replied", p)) /\ Recorded(Ev("replied", p))
         /\ handler[h].row # NULL => handler[h].row = mail[p].tag
<1>1. handler[h].ev \in Event /\ handler[h].ev.pid \in Pids
  BY WorkingOn DEF ReplyFacts, MailFacts
<1>2. "replied" \in EventTypes /\ handler[h].ev = Ev("replied", handler[h].ev.pid)
  BY <1>1 DEF Event, Ev
<1>3. Works(h, handler[h].ev)
  BY DEF Works
<1>4. Recorded(handler[h].ev) /\ (handler[h].row # NULL => mail[handler[h].ev.pid].tag = handler[h].row)
  BY DEF ReplyFacts, CauseInv, HandlersTraced
<1> QED BY <1>1, <1>2, <1>3, <1>4

(* The first time a reply is past the call of its task that comes before   *)
(* advance, or before the stamp, its task has made that call.              *)
LEMMA TurnsPast ==
  ASSUME ReplyFacts, "db" \notin FaultKinds, [Next]_vars, NEW p \in Pids, "replied" \in EventTypes,
         NEW pcs \in {{"stamp"}, {"advance", "stamp"}}, ~ Past(p, pcs), Past(p, pcs)'
  PROVE  \E h \in Processes :
           /\ handler[h].ev = Ev("replied", p) /\ handler[h].row = mail[p].tag
           /\ IF "advance" \in pcs THEN HandleCancel(h) ELSE HandleAdvance(h)
<1> DEFINE e == Ev("replied", p)
<1>0. TypeInv /\ TypeInv'
  BY TypeInvNext DEF ReplyFacts, MailFacts
<1>1. e \in Event /\ e.type = "replied" /\ e.pid = p
  BY DEF Ev, Event
<1>2. ~ Done(e)'
  <2> SUFFICES ASSUME Done(e)' PROVE FALSE
    OBVIOUS
  <2>1. ~ Done(e)
    BY DEF Past
  <2>2. PICK h \in Processes : HandleStamp(h) /\ handler[h].ev = e
    BY <1>0, <1>1, <2>1, EventsMove DEF Done
  <2>3. handler[h].pc = "stamp"
    BY <1>1, <2>2 DEF HandleStamp, ReplyFacts, TaskPath
  <2> QED BY <1>1, <2>2, <2>3 DEF Past, Works
<1>3. PICK h \in Processes : Works(h, e)' /\ handler'[h].pc \in pcs
  BY <1>2 DEF Past
<1>4. handler'[h].ev = e /\ handler'[h].pc \in {"advance", "stamp"}
  BY <1>3 DEF Works
<1>5. handler[h].pc # "idle" /\ handler[h].ev = e /\ HandlerStep(h)
  <2>1. Moves(h)
    BY <1>0, HandlersMove
  <2>2. handler'[h] # handler[h]
    BY <1>3 DEF Past, Works
  <2> QED BY <1>4, <2>1, <2>2 DEF Moves, idleHandler
<1>6. /\ Works(h, e) /\ Recorded(e) /\ (handler[h].row # NULL => handler[h].row = mail[p].tag)
      /\ msgs[mail[p].tag].pid = p /\ mail[p].tag \in MsgIds
  <2>1. Works(h, e) /\ Recorded(e) /\ (handler[h].row # NULL => handler[h].row = mail[p].tag)
    BY <1>1, <1>5, ReplyTask
  <2> QED BY <2>1, ReplyFinds
<1>7. handler[h].pc \notin pcs
  BY <1>6 DEF Past
<1>8. ~ HandleLookup(h)
  <2> SUFFICES ASSUME HandleLookup(h) PROVE FALSE
    OBVIOUS
  <2>1. RowOf(e) # {} /\ RowOf(e) \subseteq MsgIds
    BY <1>1, <1>6 DEF RowOf
  <2>2. PICK m \in RowOf(e) : handler' = [handler EXCEPT ![h] =
                   [pc |-> AfterLookup(e, m), ev |-> e, row |-> m,
                    rowPid |-> IF m = NULL THEN NULL ELSE msgs[m].pid]]
    BY <1>5, <2>1 DEF HandleLookup, Fault
  <2>3. handler'[h].pc = AfterLookup(e, m) /\ m # NULL
    BY <1>0, <2>1, <2>2, TablesAssumption DEF TypeInv, TypeOK, HooksTypeOK
  <2>4. handler'[h].pc = "cancel"
    BY <1>1, <2>3, LookupLeads DEF Bounces
  <2> QED BY <1>4, <2>4
<1>9. handler[h].pc \notin {"count", "suppress", "stampError"}
  BY <1>1, <1>5 DEF ReplyFacts, TaskPath
<1>10. \/ HandleCancel(h) /\ handler'[h].pc = "advance"
       \/ HandleAdvance(h) /\ handler'[h].pc = "stamp"
  <2>1. ~ HandleCount(h) /\ ~ HandleSuppress(h)
    BY <1>9, StepPc
  <2>2. handler'[h] # idleHandler
    BY <1>4 DEF idleHandler
  <2>3. \/ HandleMark(h) /\ handler'[h].pc = "lookup"
        \/ HandleCancel(h) /\ handler'[h].pc = IF e.type = "replied" THEN "advance" ELSE "stamp"
        \/ HandleAdvance(h) /\ handler'[h].pc = "stamp"
    BY <1>0, <1>5, <1>8, <2>1, <2>2, PcAfter
  <2> QED BY <1>1, <1>4, <2>3
<1>11. handler[h].row = mail[p].tag
  BY <1>0, <1>1, <1>5, <1>6, <1>10, StepPc, TypeInvFacts DEF HandlerOK
<1>12. CASE HandleCancel(h) /\ handler'[h].pc = "advance"
  BY <1>3, <1>5, <1>11, <1>12
<1>13. CASE HandleAdvance(h) /\ handler'[h].pc = "stamp"
  BY <1>3, <1>5, <1>7, <1>11, <1>13, StepPc
<1> QED BY <1>10, <1>12, <1>13
-----------------------------------------------------------------------------
(* The build loop cancels a row for a suppression, and lets it wait for    *)
(* its window or for the prior message of its thread.                      *)
LEMMA BuildReleases ==
  ASSUME TypeInv, NEW t \in Ticks, TickBuild(t), NEW m \in MsgIds, msgs'[m].status # msgs[m].status
  PROVE  /\ msgs'[m].status = "cancelled" => tick[t].blocked # {}
         /\ msgs'[m].status = "pending" => "window" \in Verdicts \/ msgs[m].step \in Threaded
<1>1. msgs \in Rows /\ tick[t] \in TickState
  BY TypeInvFacts
<1>2. PICK y \in tick[t].batch, st \in {"failed", "cancelled", "pending"} :
         /\ TickRelease(t, y, st)
         /\ st = "cancelled" => tick[t].blocked # {}
         /\ st = "pending" => "window" \in Verdicts \/ msgs[y].step \in Threaded
  BY DEF TickBuild, TickPostpone, TickAppend, NotReady
<1> DEFINE row == [msgs[y] EXCEPT !.status = st, !.sched = IF st = "pending" THEN "later" ELSE msgs[y].sched]
<1>3. y \in MsgIds /\ msgs[y] \in Row
  BY <1>1 DEF TickState, Rows
<1>4. row.status = st
  BY <1>3 DEF Row
<1>5. msgs' = msgs \/ msgs' = [msgs EXCEPT ![y] = row]
  BY <1>2 DEF TickRelease, ReleaseClaim
<1> HIDE DEF row
<1>6. m = y /\ msgs'[m].status = st
  BY <1>1, <1>3, <1>4, <1>5 DEF Rows
<1> QED BY <1>2, <1>6

(* A task cancels a row in the sequence of the row it works for, if its    *)
(* event is a reply.                                                       *)
LEMMA TaskCancels ==
  ASSUME TypeInv, NEW h \in Processes, Webhook(h), NEW m \in MsgIds,
         msgs[m].status # "cancelled", msgs'[m].status = "cancelled"
  PROVE  /\ HandleCancel(h)
         /\ handler[h].ev.type = "replied" =>
              /\ handler[h].row \in MsgIds
              /\ msgs[m].lead = msgs[handler[h].row].lead /\ msgs[m].seq = msgs[handler[h].row].seq
<1>1. msgs \in Rows /\ handler[h] \in HandlerState /\ HandlerOK(handler[h], msgs, mail)
  BY TypeInvFacts
<1>2. ~ HandleAdvance(h)
  BY AdvanceInserts
<1>3. ~ HandleMark(h)
  <2> SUFFICES ASSUME HandleMark(h) PROVE FALSE
    OBVIOUS
  <2> DEFINE e == handler[h].ev
  <2>1. msgs' = Mark(e) /\ e.type \in {"sent", "bounced_hard", "bounced_soft", "unsubscribed", "replied"}
    BY WorkingOn, WebhookAssumption DEF HandleMark, Event
  <2> HIDE DEF e
  <2>2. \/ \E n, p : msgs' = MarkSent(msgs, n, p)
        \/ \E S : \E st \in {"bounced", "unsubscribed", "replied"} : msgs' = SetStatus(msgs, S, st)
    <3>1. e.type = "sent" => msgs' = MarkSent(msgs, mail[e.pid].tag, e.pid)
      BY <2>1 DEF Mark, Bounces
    <3>2. e.type \in Bounces => msgs' = SetStatus(msgs, WithPid(msgs, e.pid, {"pending", "sent"}), "bounced")
      BY <2>1 DEF Mark, Bounces, MarkBounced
    <3>3. e.type = "unsubscribed" =>
            msgs' = SetStatus(msgs, WithPid(msgs, e.pid, {"pending", "sent", "replied"}), "unsubscribed")
      BY <2>1 DEF Mark, Bounces, MarkUnsubscribed
    <3>4. e.type = "replied" => msgs' = SetStatus(msgs, WithPid(msgs, e.pid, {"sent"}), "replied")
      BY <2>1 DEF Mark, Bounces, MarkReplied
    <3> QED BY <2>1, <3>1, <3>2, <3>3, <3>4 DEF Bounces
  <2>3. ASSUME NEW n, NEW p, msgs' = MarkSent(msgs, n, p) PROVE FALSE
    <3> DEFINE row == [msgs[n] EXCEPT !.status = "sent", !.pid = p]
    <3>1. msgs' = [msgs EXCEPT ![n] = row]
      BY <2>3 DEF MarkSent
    <3>2. m = n /\ msgs'[m] = row
      BY <1>1, <3>1 DEF Rows
    <3>3. msgs[m] \in Row
      BY <1>1 DEF Rows
    <3> QED BY <3>2, <3>3 DEF Row
  <2>4. ASSUME NEW S, NEW st \in {"bounced", "unsubscribed", "replied"}, msgs' = SetStatus(msgs, S, st)
        PROVE  FALSE
    <3>1. msgs[m] \in Row /\ msgs'[m] = [msgs[m] EXCEPT !.status = st]
      BY <1>1, <2>4 DEF SetStatus, Rows
    <3> QED BY <3>1 DEF Row
  <2> QED BY <2>2, <2>3, <2>4
<1>4. HandleCancel(h) /\ msgs' = Cancel(h)
  BY <1>2, <1>3 DEF Webhook, HandlerStep, HandleCancel, HandleLookup, HandleCount, HandleSuppress,
     HandleStamp, HandlerCrash
<1>5. ASSUME handler[h].ev.type = "replied"
      PROVE  /\ handler[h].row \in MsgIds
             /\ msgs[m].lead = msgs[handler[h].row].lead /\ msgs[m].seq = msgs[handler[h].row].seq
  <2>1. handler[h].row \in MsgIds /\ handler[h].row # NULL
    BY <1>1, <1>4, <1>5, TablesAssumption DEF HandleCancel, HandlerOK, HandlerState
  <2>2. msgs' = CancelPending(msgs, msgs[handler[h].row].lead, {msgs[handler[h].row].seq})
    BY <1>4, <1>5, <2>1 DEF Cancel
  <2>3. msgs[m].lead = msgs[handler[h].row].lead /\ msgs[m].seq \in {msgs[handler[h].row].seq}
    BY <2>2 DEF CancelPending, SetStatus
  <2> QED BY <2>1, <2>3
<1> QED BY <1>4, <1>5

(* After the INSERT the key is taken, by the new row or by another. *)
LEMMA InsertOccupies ==
  ASSUME NEW t \in Rows, NEW l, NEW s, NEW i, NEW r, HasRoom(t) \/ Occupied(t, l, s, i)
  PROVE  Occupied(InsertNextStep(t, l, s, i, r), l, s, i)
<1>1. CASE Occupied(t, l, s, i)
  BY <1>1 DEF InsertNextStep
<1>2. CASE ~ Occupied(t, l, s, i)
  <2> DEFINE new == CHOOSE m \in MsgIds : t[m].status = "absent"
             row == NewRow(l, s, i, r, "later")
  <2>1. new \in MsgIds
    BY <1>2 DEF HasRoom
  <2>2. row.status = "pending" /\ row.lead = l /\ row.seq = s /\ row.step = i
    BY DEF NewRow
  <2>3. InsertNextStep(t, l, s, i, r) = [t EXCEPT ![new] = row]
    BY <1>2 DEF InsertNextStep
  <2> HIDE DEF new, row
  <2>4. [t EXCEPT ![new] = row][new] = row
    BY <2>1 DEF Rows
  <2> QED BY <2>1, <2>2, <2>3, <2>4 DEF Occupied
<1> QED BY <1>1, <1>2
-----------------------------------------------------------------------------
(* Nobody is suppressed, and no tick was told that somebody is. *)
Uneventful == suppressions = {} /\ \A t \in Ticks : tick[t].blocked = {}

(* A reply that is past its advance has the branch step in place. *)
BranchTaken(p) ==
  LET a == msgs[mail[p].tag] IN
  Past(p, {"stamp"}) /\ OnlyReply(p) /\ a.step + 1 \in ReplyOnly
    => Occupied(msgs, a.lead, a.seq, a.step + 1)

(* No call fails or is repeated, events come in order, and nothing but    *)
(* mails and replies is reported.                                          *)
Branching == /\ Prompt /\ EnrolledOnce /\ Once /\ "reorder" \notin FaultKinds
             /\ EventTypes \subseteq {"sent", "replied"} /\ ReplyOnly \subseteq Steps

WalkInv == Branching => Uneventful /\ \A p \in Pids : BranchTaken(p)

(* Nothing is suppressed and no reply is processed at first. *)
LEMMA WalkInvInit == Init => WalkInv
BY DEF Init, HooksInit, TablesInit, TickInit, idleTick, idleHandler, WalkInv, Uneventful, BranchTaken, Past, Works,
   Done, Ev, Event

(* Where no opt-out and no bounce is reported, nobody is suppressed. *)
LEMMA UneventfulNext ==
  ASSUME TypeInv, TaskPath, Branching, Uneventful, [Next]_vars
  PROVE  Uneventful'
<1>1. suppressions' = {}
  <2>1. ASSUME NEW h \in Processes, HandleSuppress(h) PROVE FALSE
    <3>1. handler[h].pc = "suppress" /\ handler[h].ev \in Event
      BY <2>1, WorkingOn DEF HandleSuppress
    <3> QED BY <3>1 DEF TaskPath, Branching, Event
  <2>2. ASSUME NEW h \in Processes, Webhook(h) PROVE suppressions' = suppressions
    BY <2>1, <2>2 DEF Webhook, HandlerStep, HandleMark, HandleLookup, HandleCount, HandleCancel,
       HandleAdvance, HandleStamp, HandlerCrash
  <2>3. ASSUME NEW t \in Ticks, Dispatch(t) PROVE suppressions' = suppressions
    BY <2>3 DEF Dispatch, TickStep, TickFault, TickSweep, TickSelect, TickClaim, TickFetch, TickRecheck,
       TickBuild, ProviderAccept, ProviderReject, TickResponse, TickHttpError, TickTransportError,
       TickMarkFailed, TickStop, tables
  <2>4. CASE (\E m \in MsgIds : Elapse(m)) \/ (\E e \in Event : Grace(e)) \/ UNCHANGED vars
    BY <2>4 DEF Elapse, Grace, GraceEnds, vars, tables, Uneventful
  <2>5. CASE Ingress \/ Sweep
    BY <2>5 DEF Ingress, ProviderEvent, DeliverFails, Deliver, Sweep, SweepSelect, SweepNext, tables, Uneventful
  <2> QED BY <2>2, <2>3, <2>4, <2>5 DEF Next, Uneventful
<1>2. ASSUME NEW t \in Ticks PROVE tick'[t].blocked = {}
  <2>1. tick[t].blocked = {} /\ SuppressedOn("email") = {}
    BY DEF Uneventful, SuppressedOn
  <2>2. QueueMoves(t) => tick'[t].blocked = {}
    BY <2>1 DEF QueueMoves, SameAnswers, Branching, Prompt
  <2>3. PostMoves(t) \/ (\E m \in tick[t].batch : BuiltRow(t, m)) => tick'[t].blocked = {}
    BY <2>1 DEF BuiltRow, PostMoves, SameAnswers
  <2>4. idleTick.blocked = {}
    BY DEF idleTick
  <2> QED BY <2>1, <2>2, <2>3, <2>4, TickMoves, OneTickMoves
<1> QED BY <1>1, <1>2 DEF Uneventful

(* Where nothing is suppressed, only the task of a reply cancels. *)
LEMMA OnlyRepliesCancel ==
  ASSUME ReplyFacts, Branching, Uneventful, [Next]_vars, NEW m \in MsgIds,
         msgs[m].status # "cancelled", msgs'[m].status = "cancelled"
  PROVE  \E h \in Processes, q \in Pids :
           /\ Works(h, Ev("replied", q)) /\ handler[h].pc = "cancel"
           /\ msgs[m].lead = msgs[mail[q].tag].lead /\ msgs[m].seq = msgs[mail[q].tag].seq
<1>1. RowMoves(m)
  BY RowsMove DEF ReplyFacts, MailFacts
<1>2. ASSUME NEW t \in Ticks, Dispatch(t) PROVE ~ MovedByTick(m, t)
  <2>1. tick[t].pc = "build" => TickBuild(t)
    BY <1>2 DEF Dispatch, TickStep, TickFault, TickSweep, TickSelect, TickClaim, TickFetch, TickRecheck,
       ProviderAccept, ProviderReject, TickResponse, TickHttpError, TickTransportError,
       TickMarkFailed, TickStop
  <2> QED BY <2>1, BuildReleases DEF MovedByTick, Uneventful, ReplyFacts, MailFacts
<1>3. PICK h \in Processes : Webhook(h)
  BY <1>1, <1>2 DEF RowMoves, SameKey, Inserted
<1>4. HandleCancel(h) /\ handler[h].pc = "cancel"
  BY <1>3, TaskCancels DEF ReplyFacts, MailFacts, HandleCancel
<1>5. handler[h].ev.type = "replied"
  <2>1. handler[h].ev \in Event
    BY <1>4, WorkingOn DEF ReplyFacts, MailFacts
  <2> QED BY <1>4, <2>1 DEF ReplyFacts, TaskPath, Branching, Event
<1> DEFINE q == handler[h].ev.pid
<1>6. q \in Pids /\ Works(h, Ev("replied", q)) /\ (handler[h].row # NULL => handler[h].row = mail[q].tag)
  BY <1>4, <1>5, ReplyTask
<1>7. /\ handler[h].row \in MsgIds
      /\ msgs[m].lead = msgs[handler[h].row].lead /\ msgs[m].seq = msgs[handler[h].row].seq
  BY <1>3, <1>5, TaskCancels DEF ReplyFacts, MailFacts
<1> QED BY <1>4, <1>6, <1>7, TablesAssumption

(* The branch step that a reply has put in place stays, and every reply    *)
(* puts one before its task gets to the stamp.                             *)
LEMMA BranchTakenNext ==
  ASSUME ReplyFacts, Branching, Uneventful, [Next]_vars, NEW p \in Pids, BranchTaken(p)
  PROVE  BranchTaken(p)'
<1> DEFINE n == mail[p].tag
           a == msgs[n]
<1> SUFFICES ASSUME Past(p, {"stamp"})', OnlyReply(p)', msgs'[mail'[p].tag].step + 1 \in ReplyOnly
             PROVE  Occupied(msgs', msgs'[mail'[p].tag].lead, msgs'[mail'[p].tag].seq, msgs'[mail'[p].tag].step + 1)
  BY DEF BranchTaken
<1>1. "replied" \in EventTypes /\ "db" \notin FaultKinds /\ TypeInv
  BY DEF Past, Branching, Prompt, ReplyFacts, MailFacts
<1>2. Recorded(Ev("replied", p)) /\ (Past(p, {"stamp"}) \/ \E h \in Processes :
          handler[h].ev = Ev("replied", p) /\ handler[h].row = n /\ HandleAdvance(h))
  <2>1. CASE Past(p, {"stamp"})
    <3>1. Ev("replied", p) \in Event
      BY <1>1 DEF Ev, Event
    <3> QED BY <2>1, <3>1, WorksOn DEF Past, Done, Recorded
  <2>2. CASE ~ Past(p, {"stamp"})
    <3>1. PICK h \in Processes :
            handler[h].ev = Ev("replied", p) /\ handler[h].row = n /\ HandleAdvance(h)
      BY <1>1, <2>2, TurnsPast
    <3>2. Recorded(Ev("replied", p))
      BY <3>1 DEF HandleAdvance, ReplyFacts, CauseInv, HandlersTraced
    <3> QED BY <3>1, <3>2
  <2> QED BY <2>1, <2>2
<1>3. /\ Ev("replied", p) \in Event /\ mail[p] # NULL /\ n \in MsgIds /\ a.status # "absent"
      /\ mail'[p] = mail[p]
      /\ msgs'[n].lead = a.lead /\ msgs'[n].seq = a.seq /\ msgs'[n].step = a.step
  <2>1. /\ Ev("replied", p) \in Event /\ mail[p] # NULL /\ n \in MsgIds /\ a.status # "absent"
    BY <1>1, <1>2, ReplyFinds
  <2> QED BY <1>1, <2>1, StepLasts DEF Lasts, Kept
<1> SUFFICES Occupied(msgs', a.lead, a.seq, a.step + 1)
  BY <1>3
<1>4. a.step + 1 \in ReplyOnly
  BY <1>3
<1>5. CASE Past(p, {"stamp"})
  <2>1. ASSUME NEW q \in Pids, Recorded(Ev("replied", q)), q # p
        PROVE  <<msgs[mail[q].tag].lead, msgs[mail[q].tag].seq>> # <<a.lead, a.seq>>
    <3>1. mail[q] # NULL /\ mail[q].tag \in MsgIds /\ msgs[mail[q].tag].status # "absent" /\ Ev("replied", q) \in Event
      BY <1>1, <2>1, ReplyFinds
    <3>2. /\ mail'[q] = mail[q] /\ Recorded(Ev("replied", q))'
          /\ msgs'[mail[q].tag].lead = msgs[mail[q].tag].lead /\ msgs'[mail[q].tag].seq = msgs[mail[q].tag].seq
      BY <1>1, <2>1, <3>1, StepLasts DEF Lasts, Kept
    <3> QED BY <1>3, <2>1, <3>2 DEF OnlyReply
  <2>2. OnlyReply(p)
    BY <2>1 DEF OnlyReply
  <2>3. PICK m \in MsgIds : /\ msgs[m].status \notin {"absent", "cancelled"}
                            /\ msgs[m].lead = a.lead /\ msgs[m].seq = a.seq /\ msgs[m].step = a.step + 1
    BY <1>4, <1>5, <2>2 DEF BranchTaken, Occupied
  <2>4. msgs'[m].status # "cancelled"
    <3> SUFFICES ASSUME msgs'[m].status = "cancelled" PROVE FALSE
      OBVIOUS
    <3>1. PICK h \in Processes, q \in Pids :
             /\ Works(h, Ev("replied", q)) /\ handler[h].pc = "cancel"
             /\ msgs[m].lead = msgs[mail[q].tag].lead /\ msgs[m].seq = msgs[mail[q].tag].seq
      BY <2>3, OnlyRepliesCancel
    <3>2. Recorded(Ev("replied", q)) /\ Ev("replied", q) \in Event
      BY <1>1, <3>1, WorksOn DEF Ev, Event
    <3>3. q = p
      BY <2>1, <2>3, <3>1, <3>2
    <3> QED BY <1>5, <3>1, <3>2, <3>3, WorksOn DEF Past
  <2>5. /\ msgs'[m].status # "absent"
        /\ msgs'[m].lead = msgs[m].lead /\ msgs'[m].seq = msgs[m].seq /\ msgs'[m].step = msgs[m].step
    BY <1>1, <2>3, StepLasts DEF Lasts, Kept
  <2> QED BY <2>3, <2>4, <2>5 DEF Occupied
<1>6. ASSUME NEW h \in Processes, handler[h].ev = Ev("replied", p), handler[h].row = n, HandleAdvance(h)
      PROVE  Occupied(msgs', a.lead, a.seq, a.step + 1)
  <2>1. Advances(handler[h].ev, a.step + 1)
    <3>1. a.step + 1 < NumSteps
      BY <1>1, <1>3, <1>4, TypeInvFacts, TablesAssumption DEF Branching, Steps, Rows, Row
    <3>2. handler[h].ev.type = "replied"
      BY <1>6 DEF Ev
    <3> QED BY <1>4, <3>1, <3>2 DEF Advances
  <2>2. PICK r : msgs' = InsertNextStep(msgs, a.lead, a.seq, a.step + 1, r)
                 /\ (HasRoom(msgs) \/ Occupied(msgs, a.lead, a.seq, a.step + 1))
    BY <1>1, <1>6, <2>1 DEF HandleAdvance, Fault
  <2> QED BY <1>1, <2>2, InsertOccupies, TypeInvFacts
<1> QED BY <1>2, <1>5, <1>6

(* The walk invariant is inductive, relative to the others. *)
LEMMA WalkInvNext ==
  TypeInv /\ ClaimInv /\ ConfInv /\ CauseInv /\ MailInv /\ TurnInv /\ TaskPath /\ WalkInv /\ [Next]_vars => WalkInv'
<1> SUFFICES ASSUME TypeInv, ClaimInv, ConfInv, CauseInv, MailInv, TurnInv, TaskPath, WalkInv, [Next]_vars, Branching
             PROVE  Uneventful' /\ \A p \in Pids : BranchTaken(p)'
  BY DEF WalkInv, Branching, Prompt, EnrolledOnce, Once
<1>1. ReplyFacts
  BY DEF ReplyFacts, MailFacts, MailInv, TurnInv, Branching
<1>2. Uneventful /\ \A p \in Pids : BranchTaken(p)
  BY DEF WalkInv
<1> QED BY <1>1, <1>2, UneventfulNext, BranchTakenNext

(* The no_reply branch is walked: where no call is repeated, events come   *)
(* in order and nothing but mails and replies is reported, a processed     *)
(* reply that is the only one of its sequence has a live step of the       *)
(* reply-only branch after the step it answers, whatever ticks and tasks   *)
(* die and whatever claims are swept.                                      *)
THEOREM RepliesWalkTheBranch ==
  ASSUME Branching
  PROVE  Spec => []ReplyWalksBranch
<1>1. TypeInv /\ WalkInv => ReplyWalksBranch
  <2> SUFFICES ASSUME TypeInv, WalkInv, NEW p \in Pids, ReplyProcessed(p),
                      msgs[mail[p].tag].step + 1 \in ReplyOnly, OnlyReply(p)
               PROVE  \E m \in MsgIds : /\ msgs[m].status \notin {"absent", "cancelled"}
                                        /\ msgs[m].step \in ReplyOnly /\ Successor(m, p)
    BY DEF ReplyWalksBranch
  <2> DEFINE a == msgs[mail[p].tag]
  <2>1. Past(p, {"stamp"})
    BY DEF ReplyProcessed, Past
  <2>2. Occupied(msgs, a.lead, a.seq, a.step + 1)
    BY <2>1 DEF WalkInv, BranchTaken
  <2>3. a.step \in Nat
    <3>1. Ev("replied", p) \in Event /\ Recorded(Ev("replied", p)) /\ Ev("replied", p).pid = p
      BY DEF ReplyProcessed, Ev, Event, Done, Recorded
    <3>2. mail[p] \in Mail
      BY <3>1, TypeInvFacts DEF TypeInv, EventsMailed
    <3>3. mail[p].tag \in MsgIds
      BY <3>2 DEF Mail
    <3> QED BY <3>3, TypeInvFacts DEF Rows, Row, Steps
  <2>4. PICK m \in MsgIds : /\ msgs[m].status \notin {"absent", "cancelled"}
                            /\ msgs[m].lead = a.lead /\ msgs[m].seq = a.seq /\ msgs[m].step = a.step + 1
    BY <2>2 DEF Occupied
  <2> QED BY <2>3, <2>4 DEF Successor
<1> QED BY <1>1, TypeInvInit, TypeInvNext, ClaimInvInit, ClaimInvNext, ConfInvInit, ConfInvNext, CauseInvInit, CauseInvNext,
           MailInvInit, MailInvNext, TurnInvInit, TurnInvNext, TaskPathInit, TaskPathNext, WalkInvInit, WalkInvNext,
           PTL DEF Spec
=============================================================================
