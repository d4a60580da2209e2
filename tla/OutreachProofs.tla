--------------------------- MODULE OutreachProofs ---------------------------
(***************************************************************************)
(* What the dispatch queue promises for every number of ticks, handlers,   *)
(* rows and faults: the types, and that no two ticks ever act on one row.  *)
(***************************************************************************)
EXTENDS Outreach, TLAPS

(* Statements only add rows; a row keeps its lead, sequence and step. *)
Kept(t, u) ==
  \A m \in MsgIds : t[m].status # "absent" =>
    /\ u[m].status # "absent"
    /\ <<u[m].lead, u[m].seq, u[m].step>> = <<t[m].lead, t[m].seq, t[m].step>>

(* An UPDATE moreover adds no row. *)
Updated(t, u) == Kept(t, u) /\ \A m \in MsgIds : t[m].status = "absent" => u[m] = t[m]

Rows == [MsgIds -> Row]

(* An UPDATE of the status of rows that exist. *)
LEMMA SetStatusRows ==
  ASSUME NEW t \in Rows, NEW S \in SUBSET MsgIds, NEW st \in Status \ {"absent"},
         \A m \in S : t[m].status # "absent"
  PROVE  SetStatus(t, S, st) \in Rows /\ Updated(t, SetStatus(t, S, st))
<1> DEFINE u == SetStatus(t, S, st)
           Set(r) == [r EXCEPT !.status = st]
<1>1. \A m \in MsgIds : t[m] \in Row
  BY DEF Rows
<1>2. ASSUME NEW r \in Row
      PROVE  /\ Set(r) \in Row /\ Set(r).status = st
             /\ Set(r).lead = r.lead /\ Set(r).seq = r.seq /\ Set(r).step = r.step
  BY DEF Row, Status
<1>3. u = [m \in MsgIds |-> IF m \in S THEN Set(t[m]) ELSE t[m]]
  BY DEF SetStatus
<1> HIDE DEF u, Set
<1>4. ASSUME NEW m \in MsgIds
      PROVE  u[m] = t[m] \/ (t[m].status # "absent" /\ u[m] = Set(t[m]))
  <2>1. u[m] = IF m \in S THEN Set(t[m]) ELSE t[m]
    BY <1>3
  <2> QED BY <2>1
<1>5. u \in Rows
  <2>1. \A m \in MsgIds : u[m] \in Row
    BY <1>1, <1>2, <1>4
  <2> QED BY <1>3, <2>1 DEF Rows
<1>6. Updated(t, u)
  BY <1>1, <1>2, <1>4 DEF Kept, Updated
<1> QED BY <1>5, <1>6 DEF u

(* The conditional UPDATE of a claim. *)
LEMMA ClaimBatchRows ==
  ASSUME NEW t \in Rows, NEW ids \in SUBSET MsgIds
  PROVE  ClaimBatch(t, ids) \in Rows /\ Updated(t, ClaimBatch(t, ids))
<1> DEFINE u == ClaimBatch(t, ids)
           Set(r) == [r EXCEPT !.status = "dispatching", !.stale = FALSE]
<1>1. \A m \in MsgIds : t[m] \in Row
  BY DEF Rows
<1>2. ASSUME NEW r \in Row
      PROVE  /\ Set(r) \in Row /\ Set(r).status = "dispatching"
             /\ Set(r).lead = r.lead /\ Set(r).seq = r.seq /\ Set(r).step = r.step
  BY DEF Row, Status
<1>3. u = [m \in MsgIds |-> IF m \in {k \in ids : t[k].status = "pending"} THEN Set(t[m]) ELSE t[m]]
  BY DEF ClaimBatch, Claimable
<1> HIDE DEF u, Set
<1>4. ASSUME NEW m \in MsgIds
      PROVE  u[m] = t[m] \/ (t[m].status # "absent" /\ u[m] = Set(t[m]))
  <2>1. u[m] = IF m \in {k \in ids : t[k].status = "pending"} THEN Set(t[m]) ELSE t[m]
    BY <1>3
  <2> QED BY <2>1
<1>5. u \in Rows
  <2>1. \A m \in MsgIds : u[m] \in Row
    BY <1>1, <1>2, <1>4
  <2> QED BY <1>3, <2>1 DEF Rows
<1>6. Updated(t, u)
  BY <1>1, <1>2, <1>4 DEF Kept, Updated
<1> QED BY <1>5, <1>6 DEF u

(* The sweep of stale claims. *)
LEMMA SweepRows ==
  ASSUME NEW t \in Rows
  PROVE  SweepStaleClaims(t) \in Rows /\ Updated(t, SweepStaleClaims(t))
<1> DEFINE u == SweepStaleClaims(t)
           Set(r) == [r EXCEPT !.status = "pending", !.stale = FALSE]
<1>1. \A m \in MsgIds : t[m] \in Row
  BY DEF Rows
<1>2. ASSUME NEW r \in Row
      PROVE  /\ Set(r) \in Row /\ Set(r).status = "pending"
             /\ Set(r).lead = r.lead /\ Set(r).seq = r.seq /\ Set(r).step = r.step
  BY DEF Row, Status
<1>3. u = [m \in MsgIds |-> IF t[m].status = "dispatching" /\ t[m].stale THEN Set(t[m]) ELSE t[m]]
  BY DEF SweepStaleClaims
<1> HIDE DEF u, Set
<1>4. ASSUME NEW m \in MsgIds
      PROVE  u[m] = t[m] \/ (t[m].status # "absent" /\ u[m] = Set(t[m]))
  <2>1. u[m] = IF t[m].status = "dispatching" /\ t[m].stale THEN Set(t[m]) ELSE t[m]
    BY <1>3
  <2> QED BY <2>1
<1>5. u \in Rows
  <2>1. \A m \in MsgIds : u[m] \in Row
    BY <1>1, <1>2, <1>4
  <2> QED BY <1>3, <2>1 DEF Rows
<1>6. Updated(t, u)
  BY <1>1, <1>2, <1>4 DEF Kept, Updated
<1> QED BY <1>5, <1>6 DEF u

(* The release of a claimed row. *)
LEMMA ReleaseRows ==
  ASSUME NEW t \in Rows, NEW m \in MsgIds, NEW st \in Status \ {"absent"}
  PROVE  ReleaseClaim(t, m, st) \in Rows /\ Updated(t, ReleaseClaim(t, m, st))
<1>1. ReleaseClaim(t, m, st) \in Rows
  <2>1. [t[m] EXCEPT !.status = st,
                    !.sched = IF st = "pending" THEN "later" ELSE t[m].sched] \in Row
    BY DEF Rows, Row
  <2> QED BY <2>1 DEF ReleaseClaim, Rows
<1>2. Updated(t, ReleaseClaim(t, m, st))
  BY DEF ReleaseClaim, Rows, Row, Kept, Updated
<1> QED BY <1>1, <1>2

(* mark_sent, whether or not its predicate matches. *)
LEMMA MarkSentRows ==
  ASSUME NEW t \in Rows, NEW m \in MsgIds, NEW p \in Pids
  PROVE  MarkSent(t, m, p) \in Rows /\ Updated(t, MarkSent(t, m, p))
<1>1. MarkSent(t, m, p) \in Rows
  <2>1. [t[m] EXCEPT !.status = "sent", !.pid = p] \in Row
    <3>1. t[m] \in Row
      BY DEF Rows
    <3> QED BY <3>1 DEF Row, Status
  <2> QED BY <2>1 DEF MarkSent, Rows
<1>2. Updated(t, MarkSent(t, m, p))
  BY DEF MarkSent, Rows, Row, Kept, Updated
<1> QED BY <1>1, <1>2

(* The INSERT writes at most one row, and that row was free. *)
LEMMA InsertRows ==
  ASSUME NEW t \in Rows, NEW l \in Leads, NEW s \in Sequences, NEW i \in Steps,
         NEW r \in Pids \cup {NULL},
         HasRoom(t) \/ Occupied(t, l, s, i)
  PROVE  LET u == InsertNextStep(t, l, s, i, r) IN
           /\ u \in Rows /\ Kept(t, u)
           /\ \A m \in MsgIds : u[m] = t[m] \/ (/\ t[m].status = "absent"
                                                /\ u[m] = NewRow(l, s, i, r, "later"))
<1>1. CASE Occupied(t, l, s, i)
  BY <1>1 DEF InsertNextStep, Kept
<1>2. CASE ~ Occupied(t, l, s, i)
  <2> DEFINE new == CHOOSE m \in MsgIds : t[m].status = "absent"
             u == [t EXCEPT ![new] = NewRow(l, s, i, r, "later")]
  <2>1. new \in MsgIds /\ t[new].status = "absent"
    BY <1>2 DEF HasRoom
  <2>2. NewRow(l, s, i, r, "later") \in Row
    BY DEF NewRow, Row, Status
  <2>3. InsertNextStep(t, l, s, i, r) = u
    BY <1>2 DEF InsertNextStep
  <2> HIDE DEF new
  <2>4. u \in Rows
    BY <2>1, <2>2 DEF Rows
  <2>5. \A m \in MsgIds : u[m] = t[m] \/ (/\ t[m].status = "absent"
                                          /\ u[m] = NewRow(l, s, i, r, "later"))
    BY <2>1 DEF Rows
  <2>6. Kept(t, u)
    BY <2>5 DEF Kept
  <2> QED BY <2>3, <2>4, <2>5, <2>6
<1> QED BY <1>1, <1>2

-----------------------------------------------------------------------------
(* The inductive invariant of type correctness: what ticks, mails and      *)
(* handlers refer to exists.                                               *)
RowsNamed ==
  \A m \in MsgIds : IF msgs[m].status = "absent" THEN msgs[m].pid = NULL
                    ELSE msgs[m].lead \in Leads /\ msgs[m].seq \in Sequences

MailsNamed ==
  \A p \in Pids : mail[p] # NULL => /\ msgs[mail[p].body].status # "absent"
                                    /\ msgs[mail[p].tag].status # "absent"

(* r is a sound state of a tick over the table t. *)
TickOK(r, t) ==
  /\ r \in TickState
  /\ \A m \in r.batch \cup r.built : t[m].status # "absent"
  /\ \A m \in r.built : r.tag[t[m].lead] \in MsgIds /\ t[r.tag[t[m].lead]].status # "absent"
  /\ r.wire \subseteq r.built /\ r.errors \subseteq r.built

(* r is a sound state of a handler over the table t and the mails ml. *)
HandlerOK(r, t, ml) ==
  /\ r \in HandlerState
  /\ r.pc # "idle" => r.ev \in Event /\ ml[r.ev.pid] # NULL
  /\ r.row # NULL => t[r.row].status # "absent"
  /\ r.pc = "advance" \/ (r.pc = "cancel" /\ r.ev.type = "replied") => r.row # NULL
  /\ r.pc \in {"count", "suppress"} => r.ev.type # "replied"

EventsMailed ==
  \A e \in Event : e \in happened \cup sweep \/ Recorded(e) => mail[e.pid] # NULL

TypeInv ==
  /\ TypeOK /\ RowsNamed /\ MailsNamed /\ EventsMailed
  /\ \A t \in Ticks : TickOK(tick[t], msgs)
  /\ \A h \in Processes : HandlerOK(handler[h], msgs, mail)

(* The tables after a step. *)
Grown ==
  /\ TablesTypeOK' /\ Kept(msgs, msgs') /\ RowsNamed' /\ MailsNamed'
  /\ \A p \in Pids : mail[p] # NULL => mail'[p] = mail[p]

(* A fault stays within the bound on faults. *)
LEMMA FaultBound ==
  ASSUME NEW k, Fault(k), faults \in 0 .. MaxFaults
  PROVE  faults' \in 0 .. MaxFaults
BY TablesAssumption DEF Fault

(* Rows that stay in place keep the record of a tick sound. *)
LEMMA TickOKKept ==
  ASSUME NEW t \in Rows, NEW u \in Rows, Kept(t, u), NEW r, TickOK(r, t)
  PROVE  TickOK(r, u)
<1>1. r \in TickState /\ r.batch \subseteq MsgIds /\ r.built \subseteq MsgIds
  BY DEF TickOK, TickState
<1>2. \A m \in r.batch \cup r.built : u[m].status # "absent" /\ u[m].lead = t[m].lead
  BY <1>1 DEF TickOK, Kept
<1>3. \A m \in r.built : r.tag[u[m].lead] \in MsgIds /\ u[r.tag[u[m].lead]].status # "absent"
  BY <1>1, <1>2 DEF TickOK, Kept
<1> QED BY <1>1, <1>2, <1>3 DEF TickOK

(* Rows and mails that stay keep the record of a handler sound. *)
LEMMA HandlerOKKept ==
  ASSUME NEW t \in Rows, NEW u \in Rows, Kept(t, u),
         NEW ml \in [Pids -> Mail \cup {NULL}], NEW nl \in [Pids -> Mail \cup {NULL}],
         \A p \in Pids : ml[p] # NULL => nl[p] = ml[p],
         NEW r, HandlerOK(r, t, ml)
  PROVE  HandlerOK(r, u, nl)
<1>1. r \in HandlerState
  BY DEF HandlerOK
<1>2. r.row # NULL => u[r.row].status # "absent"
  BY <1>1 DEF HandlerOK, HandlerState, Kept
<1>3. r.pc # "idle" => r.ev \in Event /\ nl[r.ev.pid] # NULL
  BY <1>1 DEF HandlerOK, HandlerState, Event
<1> QED BY <1>1, <1>2, <1>3 DEF HandlerOK

(* A step that does not touch the mails and updates the rows. *)
LEMMA GrownByUpdate ==
  ASSUME TypeInv, msgs' \in Rows, Updated(msgs, msgs'), mail' = mail,
         suppressions' \subseteq Leads \X Channels, faults' \in 0 .. MaxFaults
  PROVE  Grown
<1>1. TablesTypeOK'
  BY DEF TypeInv, TypeOK, TablesTypeOK, Rows
<1>2. MailsNamed'
  BY DEF TypeInv, TypeOK, TablesTypeOK, MailsNamed, Mail, Updated, Kept
<1>3. RowsNamed'
  BY DEF TypeInv, RowsNamed, Updated, Kept
<1> QED BY <1>1, <1>2, <1>3 DEF Grown, Updated

(* A tick step: the tables grow, and tick t goes to a sound state. *)
LEMMA TickStepInv ==
  ASSUME TypeInv, Grown, UNCHANGED hooks, NEW t \in Ticks, NEW r, TickOK(r, msgs'),
         tick' = [tick EXCEPT ![t] = r]
  PROVE  TypeInv'
<1>1. msgs \in Rows /\ msgs' \in Rows /\ Kept(msgs, msgs')
  BY DEF TypeInv, TypeOK, TablesTypeOK, Grown, Rows
<1>2. tick' \in [Ticks -> TickState] /\ \A u \in Ticks : tick'[u] = IF u = t THEN r ELSE tick[u]
  BY DEF TypeInv, TypeOK, TickTypeOK, TickOK
<1>3. \A u \in Ticks : TickOK(tick'[u], msgs')
  BY <1>1, <1>2, TickOKKept DEF TypeInv
<1>4. \A h \in Processes : HandlerOK(handler'[h], msgs', mail')
  <2> TAKE h \in Processes
  <2>1. HandlerOK(handler[h], msgs, mail) /\ handler' = handler
    BY DEF TypeInv, hooks
  <2>2. mail \in [Pids -> Mail \cup {NULL}] /\ mail' \in [Pids -> Mail \cup {NULL}]
    BY DEF TypeInv, TypeOK, TablesTypeOK, Grown
  <2>3. \A p \in Pids : mail[p] # NULL => mail'[p] = mail[p]
    BY DEF Grown
  <2> QED BY <1>1, <2>1, <2>2, <2>3, HandlerOKKept
<1>5. HooksTypeOK'
  BY DEF TypeInv, TypeOK, HooksTypeOK, hooks
<1>6. EventsMailed'
  BY DEF TypeInv, EventsMailed, hooks, Grown, Recorded, Event
<1> QED BY <1>2, <1>3, <1>4, <1>5, <1>6 DEF TypeInv, TypeOK, Grown, TickTypeOK

(* What every action may use. *)
LEMMA TypeInvFacts ==
  ASSUME TypeInv
  PROVE  /\ msgs \in Rows /\ faults \in 0 .. MaxFaults
         /\ suppressions \subseteq Leads \X Channels
         /\ mail \in [Pids -> Mail \cup {NULL}]
         /\ Updated(msgs, msgs)
         /\ \A t \in Ticks : tick[t] \in TickState /\ TickOK(tick[t], msgs)
         /\ \A h \in Processes : handler[h] \in HandlerState /\ HandlerOK(handler[h], msgs, mail)
BY DEF TypeInv, TypeOK, TablesTypeOK, Rows, Updated, Kept, TickOK, HandlerOK

(* A tick ends. *)
LEMMA StopInv ==
  ASSUME TypeInv, Grown, UNCHANGED hooks, NEW t \in Ticks, Stop(t)
  PROVE  TypeInv'
<1>1. idleTick \in TickState
  BY DEF idleTick, TickState
<1>2. TickOK(idleTick, msgs')
  BY <1>1 DEF TickOK, idleTick
<1> QED BY <1>2, TickStepInv DEF Stop

(* What the reads before the build loop write into a tick's record keeps   *)
(* its type.                                                               *)
LEMMA ReadRecord ==
  ASSUME NEW r \in TickState, NEW batch \in SUBSET MsgIds, NEW ready \in SUBSET MsgIds,
         NEW lost \in SUBSET Reads
  PROVE  /\ [r EXCEPT !.pc = "claim", !.batch = batch] \in TickState
         /\ [r EXCEPT !.pc = "recheck", !.lost = lost, !.ready = ready] \in TickState
BY DEF TickState

(* The actions before the build loop. *)
LEMMA TickClaimPhase ==
  ASSUME TypeInv, UNCHANGED hooks, NEW t \in Ticks,
         TickSweep(t) \/ TickSelect(t) \/ TickClaim(t) \/ TickFetch(t) \/ TickRecheck(t)
  PROVE  TypeInv'
<1> USE TypeInvFacts
<1>1. CASE TickSweep(t)
  <2>1. msgs' \in Rows /\ Updated(msgs, msgs') /\ faults' \in 0 .. MaxFaults
    BY <1>1, SweepRows, FaultBound DEF TickSweep
  <2>2. Grown
    BY <1>1, <2>1, GrownByUpdate DEF TickSweep
  <2> DEFINE r == [tick[t] EXCEPT !.pc = "select"]
  <2>3. TickOK(r, msgs)
    BY DEF TickOK, TickState
  <2>4. TickOK(r, msgs')
    BY <2>1, <2>3, TickOKKept DEF Updated
  <2>5. tick' = [tick EXCEPT ![t] = r]
    BY <1>1 DEF TickSweep
  <2> HIDE DEF r
  <2> QED BY <2>2, <2>4, <2>5, TickStepInv
<1>2. CASE TickSelect(t)
  <2>1. faults' \in 0 .. MaxFaults
    BY <1>2, FaultBound DEF TickSelect
  <2>2. Grown
    BY <1>2, <2>1, GrownByUpdate DEF TickSelect
  <2>3. CASE Stop(t)
    BY <2>2, <2>3, StopInv
  <2>4. ASSUME NEW S \in SUBSET Due(msgs),
               tick' = [tick EXCEPT ![t].pc = "claim", ![t].batch = S]
        PROVE  TypeInv'
    <3> DEFINE r == [tick[t] EXCEPT !.pc = "claim", !.batch = S]
    <3>1. S \in SUBSET MsgIds /\ \A m \in S : msgs[m].status # "absent"
      BY DEF Due
    <3>2. r \in TickState
      BY <3>1, ReadRecord
    <3>3. /\ r.batch = S /\ r.built = tick[t].built /\ r.tag = tick[t].tag
          /\ r.wire = tick[t].wire /\ r.errors = tick[t].errors
      BY DEF TickState
    <3>4. tick' = [tick EXCEPT ![t] = r]
      BY <2>4
    <3> HIDE DEF r
    <3>5. TickOK(r, msgs)
      BY <3>1, <3>2, <3>3 DEF TickOK
    <3>6. TickOK(r, msgs')
      BY <1>2, <3>5 DEF TickSelect
    <3> QED BY <2>2, <3>4, <3>6, TickStepInv
  <2> QED BY <1>2, <2>3, <2>4 DEF TickSelect
<1>3. CASE TickClaim(t)
  <2> DEFINE won == Claimable(msgs, tick[t].batch)
  <2>1. tick[t].batch \in SUBSET MsgIds
    BY DEF TickState
  <2>2. msgs' \in Rows /\ Updated(msgs, msgs') /\ faults' \in 0 .. MaxFaults
    BY <1>3, <2>1, ClaimBatchRows, FaultBound DEF TickClaim
  <2>3. Grown
    BY <1>3, <2>2, GrownByUpdate DEF TickClaim
  <2>4. CASE Stop(t)
    BY <2>3, <2>4, StopInv
  <2>5. CASE tick' = [tick EXCEPT ![t].pc = "fetch", ![t].batch = won,
                                  ![t].supp0 = {s[1] : s \in suppressions}]
    <3> DEFINE r == [tick[t] EXCEPT !.pc = "fetch", !.batch = won,
                                    !.supp0 = {s[1] : s \in suppressions}]
    <3>1. {s[1] : s \in suppressions} \in SUBSET Leads
      OBVIOUS
    <3>5. /\ r \in TickState /\ r.batch = won /\ r.built = tick[t].built /\ r.tag = tick[t].tag
          /\ r.wire = tick[t].wire /\ r.errors = tick[t].errors
      <4>1. tick[t] \in TickState /\ won \in SUBSET MsgIds
        BY <2>1 DEF Claimable
      <4> HIDE DEF won
      <4> QED BY <3>1, <4>1 DEF TickState
    <3>2. TickOK(r, msgs)
      BY <3>5 DEF TickOK, Claimable
    <3>3. TickOK(r, msgs')
      BY <2>2, <3>2, TickOKKept DEF Updated
    <3>4. tick' = [tick EXCEPT ![t] = r]
      BY <2>5
    <3> HIDE DEF r
    <3> QED BY <2>3, <3>3, <3>4, TickStepInv
  <2> QED BY <1>3, <2>4, <2>5 DEF TickClaim
<1>4. CASE TickFetch(t)
  <2>1. PICK lost \in SUBSET Reads :
          /\ tick' = [tick EXCEPT ![t].pc = "recheck", ![t].lost = lost,
                                  ![t].ready = IF "prior" \in lost THEN {} ELSE Found(t)]
          /\ faults' \in 0 .. MaxFaults
    BY <1>4, FaultBound DEF TickFetch
  <2>2. Grown
    BY <1>4, <2>1, GrownByUpdate DEF TickFetch
  <2>3. Found(t) \in SUBSET MsgIds
    BY DEF Found, TickState
  <2> DEFINE ready == IF "prior" \in lost THEN {} ELSE Found(t)
             r == [tick[t] EXCEPT !.pc = "recheck", !.lost = lost, !.ready = ready]
  <2>4. ready \in SUBSET MsgIds
    BY <2>3
  <2>5. tick' = [tick EXCEPT ![t] = r]
    BY <2>1
  <2> HIDE DEF ready
  <2>6. r \in TickState
    BY <2>4, ReadRecord
  <2>7. /\ r.batch = tick[t].batch /\ r.built = tick[t].built /\ r.tag = tick[t].tag
        /\ r.wire = tick[t].wire /\ r.errors = tick[t].errors
    BY DEF TickState
  <2> HIDE DEF r
  <2>8. TickOK(r, msgs)
    BY <2>6, <2>7 DEF TickOK
  <2>9. TickOK(r, msgs')
    BY <1>4, <2>8 DEF TickFetch
  <2> QED BY <2>2, <2>5, <2>9, TickStepInv
<1>5. CASE TickRecheck(t)
  <2>1. faults' \in 0 .. MaxFaults
    BY <1>5, FaultBound DEF TickRecheck
  <2>2. Grown
    BY <1>5, <2>1, GrownByUpdate DEF TickRecheck
  <2>3. PICK S \in SUBSET Leads : tick' = [tick EXCEPT ![t].pc = "build", ![t].blocked = S]
    BY <1>5 DEF TickRecheck, SuppressedOn
  <2> DEFINE r == [tick[t] EXCEPT !.pc = "build", !.blocked = S]
  <2>6. /\ r \in TickState /\ r.batch = tick[t].batch /\ r.built = tick[t].built /\ r.tag = tick[t].tag
        /\ r.wire = tick[t].wire /\ r.errors = tick[t].errors
    BY DEF TickState
  <2>4. TickOK(r, msgs')
    BY <1>5, <2>6 DEF TickOK, TickRecheck
  <2>5. tick' = [tick EXCEPT ![t] = r]
    BY <2>3
  <2> HIDE DEF r
  <2> QED BY <2>2, <2>4, <2>5, TickStepInv
<1> QED BY <1>1, <1>2, <1>3, <1>4, <1>5

(* What the build loop writes into a tick's record keeps its type. *)
LEMMA BuiltRecord ==
  ASSUME NEW r \in TickState, NEW batch \in SUBSET MsgIds, NEW built \in SUBSET MsgIds,
         NEW tag \in [Leads -> MsgIds \cup {NULL}], NEW pc \in {"posted", "build"},
         NEW wire \in SUBSET MsgIds
  PROVE  [r EXCEPT !.batch = batch, !.built = built, !.tag = tag, !.pc = pc, !.wire = wire]
           \in TickState
BY DEF TickState

(* The build loop.  built and tag are what it has after row m. *)
LEMMA BuiltInv ==
  ASSUME TypeInv, Grown, UNCHANGED hooks, NEW t \in Ticks, NEW m \in tick[t].batch,
         NEW built, NEW tag, Built(t, m, built, tag),
         built \subseteq tick[t].built \cup {m}, tick[t].built \subseteq built,
         tag \in [Leads -> MsgIds \cup {NULL}],
         \A b \in built : /\ tag[msgs[b].lead] \in MsgIds
                          /\ msgs[tag[msgs[b].lead]].status # "absent"
  PROVE  TypeInv'
<1> USE TypeInvFacts
<1> DEFINE rest == tick[t].batch \ {m}
           r == [tick[t] EXCEPT !.batch = rest, !.built = built, !.tag = tag,
                                !.pc = IF rest = {} THEN "posted" ELSE "build",
                                !.wire = IF rest = {} THEN built ELSE {}]
<1>1. CASE rest = {} /\ built = {}
  BY <1>1, StopInv DEF Built
<1>2. CASE ~ (rest = {} /\ built = {})
  <2>1. r \in TickState
    <3> DEFINE pc == IF rest = {} THEN "posted" ELSE "build"
               wire == IF rest = {} THEN built ELSE {}
    <3>1. m \in MsgIds /\ rest \in SUBSET MsgIds /\ built \in SUBSET MsgIds
      BY DEF TickState
    <3>2. pc \in {"posted", "build"} /\ wire \in SUBSET MsgIds
      BY <3>1
    <3> HIDE DEF pc, wire, rest
    <3> QED BY <3>1, <3>2, BuiltRecord
  <2>2. /\ r.batch \subseteq tick[t].batch /\ r.built = built /\ r.tag = tag
        /\ r.wire \subseteq built /\ r.errors = tick[t].errors
    BY DEF TickState
  <2>3. TickOK(r, msgs)
    <3> HIDE DEF r
    <3> QED BY <2>1, <2>2 DEF TickOK
  <2>4. msgs' \in Rows /\ Kept(msgs, msgs')
    BY DEF Grown, TablesTypeOK, Rows
  <2>5. TickOK(r, msgs')
    <3> HIDE DEF r
    <3> QED BY <2>3, <2>4, TickOKKept
  <2>6. tick' = [tick EXCEPT ![t] = r]
    BY <1>2 DEF Built
  <2> HIDE DEF r
  <2> QED BY <2>5, <2>6, TickStepInv
<1> QED BY <1>1, <1>2

(* The build loop releases a row. *)
LEMMA TickReleaseInv ==
  ASSUME TypeInv, UNCHANGED <<suppressions, mail, hooks>>, NEW t \in Ticks, NEW m \in tick[t].batch,
         NEW st \in Status \ {"absent"}, TickRelease(t, m, st)
  PROVE  TypeInv'
<1> USE TypeInvFacts
<1>1. m \in MsgIds
  BY DEF TickState
<1>2. msgs' \in Rows /\ Updated(msgs, msgs') /\ faults' \in 0 .. MaxFaults
  BY <1>1, ReleaseRows, FaultBound DEF TickRelease
<1>3. Grown
  BY <1>2, GrownByUpdate
<1>4. \A b \in tick[t].built : /\ tick[t].tag[msgs[b].lead] \in MsgIds
                               /\ msgs[tick[t].tag[msgs[b].lead]].status # "absent"
  BY DEF TickOK
<1>5. tick[t].tag \in [Leads -> MsgIds \cup {NULL}]
  BY DEF TickState
<1> QED BY <1>3, <1>4, <1>5, BuiltInv DEF TickRelease

(* The build loop appends the payload of a row. *)
LEMMA TickAppendInv ==
  ASSUME TypeInv, UNCHANGED <<suppressions, mail, hooks>>, NEW t \in Ticks, NEW m \in tick[t].batch,
         TickAppend(t, m)
  PROVE  TypeInv'
<1> USE TypeInvFacts
<1> DEFINE tag == [tick[t].tag EXCEPT ![LeadOf(m)] = m]
<1>1. m \in MsgIds /\ msgs[m].status # "absent" /\ LeadOf(m) \in Leads
  BY DEF TickState, TickOK, TypeInv, RowsNamed, LeadOf
<1>2. tick[t].tag \in [Leads -> MsgIds \cup {NULL}] /\ tick[t].built \subseteq MsgIds
  BY DEF TickState
<1>3. tag \in [Leads -> MsgIds \cup {NULL}]
  BY <1>1, <1>2
<1>4. \A b \in tick[t].built \cup {m} : /\ tag[msgs[b].lead] \in MsgIds
                                        /\ msgs[tag[msgs[b].lead]].status # "absent"
  <2>1. \A b \in tick[t].built : /\ msgs[b].lead \in Leads
                                 /\ tick[t].tag[msgs[b].lead] \in MsgIds
                                 /\ msgs[tick[t].tag[msgs[b].lead]].status # "absent"
    BY <1>2 DEF TickOK, TypeInv, RowsNamed
  <2> QED BY <1>1, <1>2, <2>1 DEF LeadOf
<1>5. Grown
  BY GrownByUpdate DEF TickAppend
<1>6. Built(t, m, tick[t].built \cup {m}, tag)
  BY DEF TickAppend
<1> HIDE DEF tag
<1> QED BY <1>3, <1>4, <1>5, <1>6, BuiltInv

(* The build loop, whatever it decides on a row. *)
LEMMA TickBuildInv ==
  ASSUME TypeInv, UNCHANGED hooks, NEW t \in Ticks, TickBuild(t)
  PROVE  TypeInv'
<1>1. PICK m \in tick[t].batch :
        \/ \E st \in {"failed", "cancelled", "pending"} : TickRelease(t, m, st)
        \/ TickAppend(t, m)
  BY DEF TickBuild, TickPostpone
<1>2. UNCHANGED <<suppressions, mail, hooks>>
  BY DEF TickBuild
<1>3. {"failed", "cancelled", "pending"} \subseteq Status \ {"absent"}
  BY DEF Status
<1> QED BY <1>1, <1>2, <1>3, TickReleaseInv, TickAppendInv

(* A tick that only changes what is left of its POST or its errors. *)
LEMMA TickShrinks ==
  ASSUME TypeInv, UNCHANGED hooks, NEW t \in Ticks, Grown,
         NEW pc \in {"posted", "errors"}, NEW wire \in SUBSET tick[t].built,
         NEW errors \in SUBSET tick[t].built,
         tick' = [tick EXCEPT ![t] = [tick[t] EXCEPT !.pc = pc, !.wire = wire, !.errors = errors]]
  PROVE  TypeInv'
<1> DEFINE r == [tick[t] EXCEPT !.pc = pc, !.wire = wire, !.errors = errors]
<1>1. r \in TickState
  <2>1. tick[t] \in TickState
    BY TypeInvFacts
  <2>2. wire \in SUBSET MsgIds /\ errors \in SUBSET MsgIds
    BY <2>1 DEF TickState
  <2> QED BY <2>1, <2>2 DEF TickState
<1> USE TypeInvFacts
<1>2. /\ r.batch = tick[t].batch /\ r.built = tick[t].built /\ r.tag = tick[t].tag
      /\ r.wire = wire /\ r.errors = errors
  BY DEF TickState
<1>3. tick' = [tick EXCEPT ![t] = r]
  OBVIOUS
<1> HIDE DEF r
<1>4. TickOK(r, msgs)
  BY <1>1, <1>2 DEF TickOK
<1>5. TickOK(r, msgs')
  BY <1>4, TickOKKept DEF Grown, TablesTypeOK, Rows
<1> QED BY <1>3, <1>5, TickStepInv

(* Instantly accepts an entry of the POST under a new provider id. *)
LEMMA ProviderAcceptInv ==
  ASSUME TypeInv, UNCHANGED hooks, NEW t \in Ticks, ProviderAccept(t)
  PROVE  TypeInv'
<1> USE TypeInvFacts
<1> DEFINE p == CHOOSE q \in Pids : mail[q] = NULL
<1>1. p \in Pids /\ mail[p] = NULL
  BY DEF ProviderAccept
<1> HIDE DEF p
<1>2. PICK b \in tick[t].wire :
        /\ mail' = [mail EXCEPT ![p] = [body |-> b, tag |-> tick[t].tag[LeadOf(b)]]]
        /\ tick' = [tick EXCEPT ![t].wire = @ \ {b}]
  BY DEF ProviderAccept, p
<1>3. /\ b \in MsgIds /\ msgs[b].status # "absent"
      /\ tick[t].tag[LeadOf(b)] \in MsgIds /\ msgs[tick[t].tag[LeadOf(b)]].status # "absent"
  BY DEF TickOK, TickState, LeadOf
<1> DEFINE new == [body |-> b, tag |-> tick[t].tag[LeadOf(b)]]
<1>4. new \in Mail
  BY <1>3 DEF Mail
<1>5. mail' \in [Pids -> Mail \cup {NULL}] /\ \A q \in Pids : mail'[q] = IF q = p THEN new ELSE mail[q]
  BY <1>1, <1>2, <1>4
<1>6. UNCHANGED <<msgs, suppressions, faults>>
  BY DEF ProviderAccept
<1>7. MailsNamed'
  <2>1. new.body = b /\ new.tag = tick[t].tag[LeadOf(b)]
    OBVIOUS
  <2> HIDE DEF new
  <2> QED BY <1>3, <1>5, <1>6, <2>1 DEF TypeInv, MailsNamed
<1>8. Grown
  BY <1>1, <1>5, <1>6, <1>7 DEF Grown, TypeInv, TypeOK, TablesTypeOK, RowsNamed, Updated
<1>9. tick[t].pc = "posted" /\ tick[t].wire \subseteq tick[t].built /\ tick[t].errors \subseteq tick[t].built
  BY DEF ProviderAccept, TickOK
<1>10. tick' = [tick EXCEPT ![t] = [tick[t] EXCEPT !.pc = "posted", !.wire = tick[t].wire \ {b},
                                                  !.errors = tick[t].errors]]
  BY <1>2, <1>9 DEF TickState
<1> QED BY <1>8, <1>9, <1>10, TickShrinks

(* The actions after the POST that the provider does not answer well. *)
LEMMA TickErrorsInv ==
  ASSUME TypeInv, UNCHANGED hooks, NEW t \in Ticks,
         ProviderReject(t) \/ TickHttpError(t) \/ TickTransportError(t) \/ TickResponse(t)
  PROVE  TypeInv'
<1> USE TypeInvFacts
<1>1. /\ UNCHANGED <<msgs, suppressions, mail>> /\ faults' \in 0 .. MaxFaults
      /\ tick[t].pc = "posted"
  BY FaultBound DEF ProviderReject, TickHttpError, TickTransportError, TickResponse, tables
<1>2. Grown
  BY <1>1, GrownByUpdate
<1>3. tick[t].wire \subseteq tick[t].built /\ tick[t].errors \subseteq tick[t].built
  BY DEF TickOK
<1>4. CASE ProviderReject(t)
  <2>1. PICK b \in tick[t].wire :
          tick' = [tick EXCEPT ![t].wire = @ \ {b}, ![t].errors = @ \cup {b}]
    BY <1>4 DEF ProviderReject
  <2>2. tick' = [tick EXCEPT ![t] = [tick[t] EXCEPT !.pc = "posted", !.wire = tick[t].wire \ {b},
                                                   !.errors = tick[t].errors \cup {b}]]
    BY <1>1, <2>1 DEF TickState
  <2>3. /\ tick[t].wire \ {b} \in SUBSET tick[t].built
        /\ tick[t].errors \cup {b} \in SUBSET tick[t].built
    BY <1>3
  <2> QED BY <1>2, <2>2, <2>3, TickShrinks
<1>5. CASE TickHttpError(t) \/ TickTransportError(t)
  <2>1. tick' = [tick EXCEPT ![t] = [tick[t] EXCEPT !.pc = "errors", !.wire = {},
                                                   !.errors = tick[t].built]]
    BY <1>5 DEF TickHttpError, TickTransportError
  <2> QED BY <1>2, <2>1, TickShrinks
<1>6. CASE TickResponse(t)
  <2>1. CASE Stop(t)
    BY <1>2, <2>1, StopInv
  <2>2. ASSUME NEW matched \in SUBSET tick[t].errors,
               tick' = [tick EXCEPT ![t].pc = "errors", ![t].errors = matched]
        PROVE  TypeInv'
    <3>1. tick' = [tick EXCEPT ![t] = [tick[t] EXCEPT !.pc = "errors", !.wire = tick[t].wire,
                                                     !.errors = matched]]
      BY <2>2 DEF TickState
    <3> QED BY <1>2, <1>3, <3>1, TickShrinks
  <2> QED BY <1>6, <2>1, <2>2 DEF TickResponse
<1> QED BY <1>4, <1>5, <1>6

(* An error of the POST is reconciled. *)
LEMMA TickMarkFailedInv ==
  ASSUME TypeInv, UNCHANGED hooks, NEW t \in Ticks, TickMarkFailed(t)
  PROVE  TypeInv'
<1> USE TypeInvFacts
<1>1. PICK b \in tick[t].errors :
        /\ IF tick[t].errors = {b} THEN Stop(t)
           ELSE tick' = [tick EXCEPT ![t].errors = @ \ {b}]
        /\ \/ msgs' = MarkSendFailed(msgs, tick[t].tag[LeadOf(b)]) /\ UNCHANGED faults
           \/ Fault("db") /\ UNCHANGED msgs
  BY DEF TickMarkFailed
<1>2. UNCHANGED <<suppressions, mail>> /\ tick[t].pc = "errors"
  BY DEF TickMarkFailed
<1>3. msgs' \in Rows /\ Updated(msgs, msgs')
  <2> DEFINE m == tick[t].tag[LeadOf(b)]
             S == {m} \cap {x \in MsgIds : msgs[x].status = "dispatching"}
  <2>1. S \in SUBSET MsgIds /\ \A x \in S : msgs[x].status # "absent"
    OBVIOUS
  <2>2. MarkSendFailed(msgs, m) = SetStatus(msgs, S, "bounced") /\ "bounced" \in Status \ {"absent"}
    BY DEF MarkSendFailed, Status
  <2> HIDE DEF S
  <2>3. MarkSendFailed(msgs, m) \in Rows /\ Updated(msgs, MarkSendFailed(msgs, m))
    BY <2>1, <2>2, SetStatusRows
  <2> QED BY <1>1, <2>3
<1>4. faults' \in 0 .. MaxFaults
  BY <1>1, FaultBound
<1>5. Grown
  BY <1>2, <1>3, <1>4, GrownByUpdate
<1>6. CASE Stop(t)
  BY <1>5, <1>6, StopInv
<1>7. CASE tick' = [tick EXCEPT ![t].errors = @ \ {b}]
  <2> DEFINE wire == tick[t].wire
             left == tick[t].errors \ {b}
  <2>1. tick' = [tick EXCEPT ![t] = [tick[t] EXCEPT !.pc = "errors", !.wire = wire, !.errors = left]]
    BY <1>2, <1>7 DEF TickState
  <2>2. wire \in SUBSET tick[t].built /\ left \in SUBSET tick[t].built
    BY DEF TickOK
  <2> HIDE DEF wire, left
  <2> QED BY <1>5, <2>1, <2>2, TickShrinks
<1> QED BY <1>1, <1>6, <1>7

(* Every step of a dispatch tick. *)
LEMMA DispatchInv ==
  ASSUME TypeInv, NEW t \in Ticks, Dispatch(t)
  PROVE  TypeInv'
<1>1. UNCHANGED hooks
  BY DEF Dispatch
<1>2. CASE TickStop(t)
  <2>1. Grown
    BY <1>2, TypeInvFacts, FaultBound, GrownByUpdate DEF TickStop
  <2> QED BY <1>1, <1>2, <2>1, StopInv DEF TickStop
<1> QED BY <1>1, <1>2, TickClaimPhase, TickBuildInv, ProviderAcceptInv, TickErrorsInv,
           TickMarkFailedInv DEF Dispatch, TickStep, TickFault

-----------------------------------------------------------------------------
(* Webhook steps. *)
HookTypes ==
  /\ happened \subseteq Event /\ acked \subseteq Event /\ sweep \subseteq Event
  /\ webhook_events \in [Event -> {"none", "received", "overdue", "processed", "errored"}]
  /\ EventsMailed

(* Tables that only grow keep every record sound. *)
LEMMA GrownHandlers ==
  ASSUME TypeInv, Grown
  PROVE  /\ \A t \in Ticks : TickOK(tick[t], msgs')
         /\ \A h \in Processes : HandlerOK(handler[h], msgs', mail')
<1>1. msgs \in Rows /\ msgs' \in Rows /\ Kept(msgs, msgs')
  BY DEF TypeInv, TypeOK, TablesTypeOK, Grown, Rows
<1>2. mail \in [Pids -> Mail \cup {NULL}] /\ mail' \in [Pids -> Mail \cup {NULL}]
  BY DEF TypeInv, TypeOK, TablesTypeOK, Grown
<1>3. \A p \in Pids : mail[p] # NULL => mail'[p] = mail[p]
  BY DEF Grown
<1> QED BY <1>1, <1>2, <1>3, TickOKKept, HandlerOKKept DEF TypeInv

(* A step that writes the record of one handler. *)
LEMMA HookStepInv ==
  ASSUME TypeInv, Grown, UNCHANGED tick, HookTypes', NEW h \in Processes, NEW r,
         HandlerOK(r, msgs', mail'), handler' = [handler EXCEPT ![h] = r]
  PROVE  TypeInv'
<1>1. handler \in [Processes -> HandlerState] /\ r \in HandlerState
  BY DEF TypeInv, TypeOK, HooksTypeOK, HandlerOK
<1>2. handler' \in [Processes -> HandlerState]
  BY <1>1
<1>3. \A g \in Processes : HandlerOK(handler'[g], msgs', mail')
  BY <1>1, GrownHandlers
<1> QED BY <1>2, <1>3, GrownHandlers
        DEF TypeInv, TypeOK, HooksTypeOK, HookTypes, Grown, TickTypeOK

(* A step that writes no record of a process. *)
LEMMA EventStepInv ==
  ASSUME TypeInv, Grown, UNCHANGED <<tick, handler>>, HookTypes'
  PROVE  TypeInv'
BY GrownHandlers DEF TypeInv, TypeOK, HooksTypeOK, HookTypes, Grown, TickTypeOK

(* A step that leaves the event tables alone. *)
LEMMA SameHookTypes ==
  ASSUME TypeInv, Grown, UNCHANGED <<happened, acked, sweep, webhook_events>>
  PROVE  HookTypes'
BY DEF TypeInv, TypeOK, HooksTypeOK, HookTypes, EventsMailed, Recorded, Grown, Event

(* A handler goes on to its next call. *)
LEMMA GotoInv ==
  ASSUME TypeInv, Grown, UNCHANGED tick, HookTypes', NEW h \in Processes,
         NEW pc \in {"lookup", "count", "suppress", "cancel", "advance", "stamp", "stampError"}, Goto(h, pc),
         handler[h].pc # "idle",
         pc = "advance" \/ (pc = "cancel" /\ handler[h].ev.type = "replied")
           => handler[h].row # NULL,
         pc \in {"count", "suppress"} => handler[h].ev.type # "replied"
  PROVE  TypeInv'
<1> DEFINE r == [handler[h] EXCEPT !.pc = pc]
<1>1. handler[h] \in HandlerState /\ HandlerOK(handler[h], msgs', mail')
  BY TypeInvFacts, GrownHandlers
<1>2. r \in HandlerState /\ r.pc = pc /\ r.ev = handler[h].ev /\ r.row = handler[h].row
  BY <1>1 DEF HandlerState
<1>3. handler' = [handler EXCEPT ![h] = r]
  BY DEF Goto
<1> HIDE DEF r
<1>4. HandlerOK(r, msgs', mail')
  BY <1>1, <1>2 DEF HandlerOK
<1> QED BY <1>3, <1>4, HookStepInv

(* A handler ends. *)
LEMMA FinishInv ==
  ASSUME TypeInv, Grown, UNCHANGED tick, HookTypes', NEW h \in Processes, Finish(h)
  PROVE  TypeInv'
<1>1. idleHandler \in HandlerState
  BY DEF idleHandler, HandlerState
<1>2. HandlerOK(idleHandler, msgs', mail')
  BY <1>1 DEF HandlerOK, idleHandler
<1> QED BY <1>2, HookStepInv DEF Finish

(* Instantly reports or delivers an event. *)
LEMMA IngressInv ==
  ASSUME TypeInv, Ingress
  PROVE  TypeInv'
<1> USE TypeInvFacts
<1>1. PICK e \in Event : ProviderEvent(e) \/ DeliverFails(e) \/ \E h \in Handlers : Deliver(h, e)
  BY DEF Ingress
<1>2. UNCHANGED <<tick, msgs, suppressions, mail, sweep>> /\ faults' \in 0 .. MaxFaults
  BY <1>1, FaultBound DEF Ingress, ProviderEvent, DeliverFails, Deliver, tables
<1>3. Grown
  BY <1>2, GrownByUpdate
<1>4. mail[e.pid] # NULL
  BY <1>1 DEF ProviderEvent, DeliverFails, Deliver, TypeInv, EventsMailed
<1>5. HookTypes'
  <2>1. happened' \subseteq happened \cup {e} /\ acked' \subseteq acked \cup {e}
    BY <1>1 DEF ProviderEvent, DeliverFails, Deliver
  <2>2. \/ webhook_events' = webhook_events
        \/ webhook_events' = [webhook_events EXCEPT ![e] = "received"]
    BY <1>1 DEF ProviderEvent, DeliverFails, Deliver, TypeInv, TypeOK, HooksTypeOK
  <2> QED BY <1>2, <1>4, <2>1, <2>2 DEF TypeInv, TypeOK, HooksTypeOK, HookTypes, EventsMailed, Recorded
<1>6. CASE \E h \in Handlers : Deliver(h, e)
  <2>1. PICK h \in Handlers : Deliver(h, e)
    BY <1>6
  <2> DEFINE r == [idleHandler EXCEPT !.pc = "mark", !.ev = e]
  <2>2. r \in HandlerState /\ r.pc = "mark" /\ r.ev = e /\ r.row = NULL
    BY DEF idleHandler, HandlerState
  <2>3. handler' = [handler EXCEPT ![h] = r]
    BY <2>1 DEF Deliver
  <2> HIDE DEF r
  <2>4. HandlerOK(r, msgs', mail')
    BY <1>2, <1>4, <2>2 DEF HandlerOK
  <2> QED BY <1>2, <1>3, <1>5, <2>3, <2>4, HookStepInv DEF Processes
<1>7. CASE ProviderEvent(e) \/ DeliverFails(e)
  <2>1. UNCHANGED <<tick, handler>>
    BY <1>2, <1>7 DEF ProviderEvent, DeliverFails
  <2> QED BY <1>3, <1>5, <2>1, EventStepInv
<1> QED BY <1>1, <1>6, <1>7

(* The sweeper selects, and takes up, overdue events. *)
LEMMA SweepInv ==
  ASSUME TypeInv, Sweep \/ \E e \in Event : Grace(e)
  PROVE  TypeInv'
<1> USE TypeInvFacts
<1>1. UNCHANGED <<tick, msgs, suppressions, mail>> /\ faults' \in 0 .. MaxFaults
  BY FaultBound DEF Sweep, Grace, SweepSelect, SweepNext, GraceEnds, tables
<1>2. Grown
  BY <1>1, GrownByUpdate
<1>3. HookTypes'
  <2>1. CASE Sweep
    <3>1. UNCHANGED <<happened, acked, webhook_events>> /\ sweep' \subseteq sweep \cup Unprocessed
      BY <2>1 DEF Sweep, SweepSelect, SweepNext
    <3>2. Unprocessed \subseteq Event /\ \A e \in Unprocessed : Recorded(e)
      BY DEF Unprocessed, Recorded
    <3> QED BY <1>1, <3>1, <3>2 DEF TypeInv, TypeOK, HooksTypeOK, HookTypes, EventsMailed, Recorded
  <2>2. CASE \E e \in Event : Grace(e)
    BY <1>1, <2>2 DEF Grace, GraceEnds, TypeInv, TypeOK, HooksTypeOK, HookTypes, EventsMailed, Recorded
  <2> QED BY <2>1, <2>2
<1>4. CASE SweepNext
  <2>1. PICK e \in sweep : handler' = [handler EXCEPT ![Sweeper] = [idleHandler EXCEPT !.pc = "mark", !.ev = e]]
    BY <1>4 DEF SweepNext
  <2> DEFINE r == [idleHandler EXCEPT !.pc = "mark", !.ev = e]
  <2>2. e \in Event /\ mail[e.pid] # NULL
    BY DEF TypeInv, TypeOK, HooksTypeOK, EventsMailed
  <2>3. r \in HandlerState /\ r.pc = "mark" /\ r.ev = e /\ r.row = NULL
    BY <2>2 DEF idleHandler, HandlerState
  <2> HIDE DEF r
  <2>4. HandlerOK(r, msgs', mail')
    BY <1>1, <2>2, <2>3 DEF HandlerOK
  <2>5. handler' = [handler EXCEPT ![Sweeper] = r]
    BY <2>1 DEF r
  <2> QED BY <1>1, <1>2, <1>3, <2>4, <2>5, HookStepInv DEF Processes
<1>5. CASE SweepSelect \/ \E e \in Event : Grace(e)
  <2>1. UNCHANGED <<tick, handler>>
    BY <1>1, <1>5 DEF SweepSelect, Grace, GraceEnds
  <2> QED BY <1>2, <1>3, <2>1, EventStepInv
<1> QED BY <1>4, <1>5 DEF Sweep

(* The handler's own event. *)
LEMMA WorkingOn ==
  ASSUME TypeInv, NEW h \in Processes, handler[h].pc # "idle"
  PROVE  /\ handler[h].ev \in Event /\ mail[handler[h].ev.pid] \in Mail
         /\ handler[h].ev.pid \in Pids
         /\ Recipient(handler[h].ev) \in Leads
<1>1. handler[h].ev \in Event /\ handler[h].ev.pid \in Pids
  BY TypeInvFacts DEF HandlerOK, HandlerState, Event
<1>2. mail[handler[h].ev.pid] \in Mail
  BY <1>1, TypeInvFacts DEF HandlerOK
<1>3. msgs[mail[handler[h].ev.pid].body].status # "absent"
  BY <1>1, <1>2, TypeInvFacts DEF TypeInv, MailsNamed, HandlerOK
<1> QED BY <1>1, <1>2, <1>3 DEF TypeInv, RowsNamed, Mail, Recipient, LeadOf

(* The call that opens a handler, for every type of event. *)
LEMMA MarkRows ==
  ASSUME TypeInv, NEW h \in Processes, handler[h].pc # "idle"
  PROVE  Mark(handler[h].ev) \in Rows /\ Updated(msgs, Mark(handler[h].ev))
<1> DEFINE e == handler[h].ev
<1>1. /\ e \in Event /\ mail[e.pid].tag \in MsgIds /\ e.pid \in Pids /\ msgs \in Rows
  BY WorkingOn, TypeInvFacts DEF Mail
<1>2. e.type \in {"sent", "bounced_hard", "bounced_soft", "unsubscribed", "replied"}
  BY <1>1, WebhookAssumption DEF Event
<1>3. ASSUME NEW from \in SUBSET (Status \ {"absent"})
      PROVE  /\ WithPid(msgs, e.pid, from) \in SUBSET MsgIds
             /\ \A m \in WithPid(msgs, e.pid, from) : msgs[m].status # "absent"
  BY DEF WithPid
<1>4. CASE e.type = "sent"
  <2>1. Mark(e) = MarkSent(msgs, mail[e.pid].tag, e.pid)
    BY <1>4 DEF Mark, Bounces
  <2> QED BY <1>1, <2>1, MarkSentRows
<1>5. CASE e.type \in Bounces
  <2>1. Mark(e) = SetStatus(msgs, WithPid(msgs, e.pid, {"pending", "sent"}), "bounced")
    BY <1>5 DEF Mark, MarkBounced, Bounces
  <2>2. "bounced" \in Status \ {"absent"} /\ {"pending", "sent"} \in SUBSET (Status \ {"absent"})
    BY DEF Status
  <2> QED BY <1>1, <1>3, <2>1, <2>2, SetStatusRows
<1>6. CASE e.type = "unsubscribed"
  <2>1. Mark(e) = SetStatus(msgs, WithPid(msgs, e.pid, {"pending", "sent", "replied"}), "unsubscribed")
    BY <1>6 DEF Mark, MarkUnsubscribed, Bounces
  <2>2. /\ "unsubscribed" \in Status \ {"absent"}
        /\ {"pending", "sent", "replied"} \in SUBSET (Status \ {"absent"})
    BY DEF Status
  <2> QED BY <1>1, <1>3, <2>1, <2>2, SetStatusRows
<1>7. CASE e.type = "replied"
  <2>1. Mark(e) = SetStatus(msgs, WithPid(msgs, e.pid, {"sent"}), "replied")
    BY <1>7 DEF Mark, MarkReplied, Bounces
  <2>2. "replied" \in Status \ {"absent"} /\ {"sent"} \in SUBSET (Status \ {"absent"})
    BY DEF Status
  <2> QED BY <1>1, <1>3, <2>1, <2>2, SetStatusRows
<1> QED BY <1>2, <1>4, <1>5, <1>6, <1>7 DEF Bounces

(* The handler's actions, the insertion of the next step aside. *)
LEMMA HandleMarkInv ==
  ASSUME TypeInv, UNCHANGED tick, NEW h \in Processes, HandleMark(h)
  PROVE  TypeInv'
<1>1. handler[h].pc = "mark" /\ UNCHANGED <<happened, acked, webhook_events, sweep, suppressions, mail>>
  BY DEF HandleMark
<1>2. msgs' \in Rows /\ Updated(msgs, msgs') /\ faults' \in 0 .. MaxFaults
  BY <1>1, MarkRows, TypeInvFacts, FaultBound DEF HandleMark
<1>3. Grown
  BY <1>1, <1>2, TypeInvFacts, GrownByUpdate
<1>4. HookTypes'
  BY <1>1, <1>3, SameHookTypes
<1>5. Goto(h, "lookup")
  BY DEF HandleMark
<1> QED BY <1>1, <1>3, <1>4, <1>5, GotoInv

(* A handler looks its row up. *)
LEMMA HandleLookupInv ==
  ASSUME TypeInv, UNCHANGED tick, NEW h \in Processes, HandleLookup(h)
  PROVE  TypeInv'
<1> USE TypeInvFacts
<1> DEFINE e == handler[h].ev
           rec(m) == [pc |-> AfterLookup(e, m), ev |-> e, row |-> m,
                      rowPid |-> IF m = NULL THEN NULL ELSE msgs[m].pid]
<1>1. /\ handler[h].pc = "lookup"
      /\ UNCHANGED <<happened, acked, webhook_events, sweep, msgs, suppressions, mail>>
      /\ faults' \in 0 .. MaxFaults
  BY FaultBound DEF HandleLookup
<1>2. Grown
  BY <1>1, GrownByUpdate
<1>3. HookTypes'
  BY <1>1, <1>2, SameHookTypes
<1>4. e \in Event /\ mail[e.pid] \in Mail /\ e.pid \in Pids
  BY <1>1, WorkingOn
<1>5. PICK m \in RowOf(e) \cup {NULL} : handler' = [handler EXCEPT ![h] = rec(m)]
  BY DEF HandleLookup
<1>6. m # NULL => m \in MsgIds /\ msgs[m].status # "absent"
  <2>1. CASE e.type = "sent"
    <3>1. m # NULL => m = mail[e.pid].tag
      BY <1>5, <2>1 DEF RowOf
    <3>2. mail[e.pid].tag \in MsgIds /\ msgs[mail[e.pid].tag].status # "absent"
      BY <1>1, <1>4 DEF Mail, TypeInv, MailsNamed, HandlerOK
    <3> QED BY <3>1, <3>2
  <2>2. CASE e.type # "sent"
    <3>1. m # NULL => m \in MsgIds /\ msgs[m].pid = e.pid
      BY <1>5, <2>2 DEF RowOf
    <3> QED BY <1>4, <3>1, TablesAssumption DEF TypeInv, RowsNamed
  <2> QED BY <2>1, <2>2
<1>7. e.type \in {"sent", "bounced_hard", "bounced_soft", "unsubscribed", "replied"}
  BY <1>4, WebhookAssumption DEF Event
<1>8. /\ AfterLookup(e, m) \in {"stamp", "advance", "count", "suppress", "cancel"}
      /\ AfterLookup(e, m) \in {"advance", "cancel"} => m # NULL
      /\ AfterLookup(e, m) \in {"count", "suppress"} => e.type # "replied"
  BY <1>7 DEF AfterLookup, Bounces
<1>9. rec(m) \in HandlerState
  <2>1. (IF m = NULL THEN NULL ELSE msgs[m].pid) \in Pids \cup {NULL}
    BY <1>6 DEF Rows, Row
  <2> QED BY <1>4, <1>6, <1>8, <2>1 DEF HandlerState
<1>10. rec(m).pc = AfterLookup(e, m) /\ rec(m).ev = e /\ rec(m).row = m
  OBVIOUS
<1> HIDE DEF rec, e
<1>11. HandlerOK(rec(m), msgs', mail')
  <2>1. e \in Event /\ mail[e.pid] # NULL
    BY <1>1, <1>4 DEF HandlerOK, e
  <2> QED BY <1>1, <1>6, <1>8, <1>9, <1>10, <2>1 DEF HandlerOK
<1> QED BY <1>2, <1>3, <1>5, <1>11, HookStepInv

(* A handler counts strikes or adds the suppression. *)
LEMMA HandleSuppressInv ==
  ASSUME TypeInv, UNCHANGED tick, NEW h \in Processes, HandleCount(h) \/ HandleSuppress(h)
  PROVE  TypeInv'
<1>1. /\ handler[h].pc \in {"count", "suppress"} /\ Recipient(handler[h].ev) \in Leads
      /\ handler[h].ev \in Event
  BY WorkingOn DEF HandleCount, HandleSuppress
<1>2. UNCHANGED <<happened, acked, webhook_events, sweep, msgs, mail>>
  BY DEF HandleCount, HandleSuppress
<1>3. suppressions' \subseteq Leads \X Channels
  BY <1>1, TypeInvFacts DEF HandleCount, HandleSuppress, Channels
<1>4. faults' \in 0 .. MaxFaults
  BY TypeInvFacts, FaultBound DEF HandleCount, HandleSuppress
<1>5. Grown
  BY <1>2, <1>3, <1>4, TypeInvFacts, GrownByUpdate
<1>6. HookTypes'
  BY <1>2, <1>5, SameHookTypes
<1>7. \/ \E pc \in {"stamp", "suppress", "stampError"} : Goto(h, pc)
      \/ Goto(h, "cancel") /\ handler[h].pc = "suppress"
      \/ Finish(h)
  BY DEF HandleCount, HandleSuppress
<1>8. handler[h].ev.type # "replied"
  BY <1>1, TypeInvFacts DEF HandlerOK
<1> QED BY <1>1, <1>5, <1>6, <1>7, <1>8, GotoInv, FinishInv

(* The cancellation of pending rows. *)
LEMMA CancelRows ==
  ASSUME TypeInv, NEW h \in Processes, handler[h].pc = "cancel"
  PROVE  Cancel(h) \in Rows /\ Updated(msgs, Cancel(h))
<1>1. ASSUME NEW l, NEW seqs
      PROVE  CancelPending(msgs, l, seqs) \in Rows /\ Updated(msgs, CancelPending(msgs, l, seqs))
  <2> DEFINE S == {m \in MsgIds : msgs[m].status = "pending" /\ msgs[m].lead = l /\ msgs[m].seq \in seqs}
  <2>1. CancelPending(msgs, l, seqs) = SetStatus(msgs, S, "cancelled")
    BY DEF CancelPending
  <2>2. S \in SUBSET MsgIds /\ (\A m \in S : msgs[m].status # "absent")
        /\ "cancelled" \in Status \ {"absent"}
    BY DEF Status
  <2> HIDE DEF S
  <2> QED BY <2>1, <2>2, TypeInvFacts, SetStatusRows
<1>2. \/ Cancel(h) = msgs
      \/ \E l, seqs : Cancel(h) = CancelPending(msgs, l, seqs)
  BY DEF Cancel
<1> QED BY <1>1, <1>2, TypeInvFacts

(* A handler cancels the pending rows of the lead. *)
LEMMA HandleCancelInv ==
  ASSUME TypeInv, UNCHANGED tick, NEW h \in Processes, HandleCancel(h)
  PROVE  TypeInv'
<1>1. handler[h].pc = "cancel" /\ UNCHANGED <<happened, acked, webhook_events, sweep, suppressions, mail>>
  BY DEF HandleCancel
<1>2. msgs' \in Rows /\ Updated(msgs, msgs') /\ faults' \in 0 .. MaxFaults
  BY <1>1, CancelRows, TypeInvFacts, FaultBound DEF HandleCancel
<1>3. Grown
  BY <1>1, <1>2, TypeInvFacts, GrownByUpdate
<1>4. HookTypes'
  BY <1>1, <1>3, SameHookTypes
<1>5. CASE handler[h].ev.type = "replied"
  <2>1. Goto(h, "advance") /\ handler[h].row # NULL
    BY <1>1, <1>5, TypeInvFacts DEF HandleCancel, HandlerOK
  <2> QED BY <1>1, <1>3, <1>4, <2>1, GotoInv
<1>6. CASE handler[h].ev.type # "replied"
  <2>1. Goto(h, "stamp")
    BY <1>6 DEF HandleCancel
  <2> QED BY <1>1, <1>3, <1>4, <2>1, GotoInv
<1> QED BY <1>5, <1>6

(* A handler inserts the next step of the sequence. *)
LEMMA HandleAdvanceInv ==
  ASSUME TypeInv, UNCHANGED tick, NEW h \in Processes, HandleAdvance(h)
  PROVE  TypeInv'
<1> DEFINE m == handler[h].row
           next == msgs[m].step + 1
           inReply == IF next \in Threaded THEN handler[h].rowPid ELSE NULL
           u == InsertNextStep(msgs, msgs[m].lead, msgs[m].seq, next, inReply)
<1>1. handler[h].pc = "advance" /\ UNCHANGED <<happened, acked, webhook_events, sweep, suppressions, mail>>
  BY DEF HandleAdvance
<1>2. faults' \in 0 .. MaxFaults
  BY TypeInvFacts, FaultBound DEF HandleAdvance
<1>3. m \in MsgIds /\ msgs[m].status # "absent" /\ msgs \in Rows
  BY <1>1, TypeInvFacts DEF HandlerOK, HandlerState
<1>4. msgs[m].lead \in Leads /\ msgs[m].seq \in Sequences
  BY <1>3 DEF TypeInv, RowsNamed
<1>5. inReply \in Pids \cup {NULL}
  BY TypeInvFacts DEF HandlerState
<1>6. Grown
  <2>1. CASE msgs' = msgs
    BY <1>1, <1>2, <2>1, TypeInvFacts, GrownByUpdate
  <2>2. CASE /\ Advances(handler[h].ev, next)
             /\ HasRoom(msgs) \/ Occupied(msgs, msgs[m].lead, msgs[m].seq, next)
             /\ msgs' = u
    <3>1. next \in Steps
      BY <1>3, <2>2, TablesAssumption DEF Advances, Rows, Row, Steps
    <3> HIDE DEF next, inReply, m
    <3>2. /\ u \in Rows /\ Kept(msgs, u)
          /\ \A x \in MsgIds : u[x] = msgs[x] \/ (/\ msgs[x].status = "absent"
                  /\ u[x] = NewRow(msgs[m].lead, msgs[m].seq, next, inReply, "later"))
      BY <1>3, <1>4, <1>5, <2>2, <3>1, InsertRows
    <3> HIDE DEF u
    <3>3. TablesTypeOK'
      BY <1>1, <1>2, <2>2, <3>2 DEF TypeInv, TypeOK, TablesTypeOK, Rows
    <3>4. RowsNamed'
      BY <1>4, <2>2, <3>2 DEF RowsNamed, NewRow, TypeInv
    <3>5. MailsNamed'
      BY <1>1, <2>2, <3>2 DEF TypeInv, TypeOK, TablesTypeOK, MailsNamed, Mail, Kept
    <3> QED BY <1>1, <2>2, <3>2, <3>3, <3>4, <3>5 DEF Grown
  <2> QED BY <2>1, <2>2 DEF HandleAdvance
<1>7. HookTypes'
  BY <1>1, <1>6, SameHookTypes
<1>8. Goto(h, "stamp") \/ Goto(h, "stampError") \/ Finish(h)
  BY DEF HandleAdvance
<1> HIDE DEF m, next, inReply, u
<1> QED BY <1>1, <1>6, <1>7, <1>8, GotoInv, FinishInv

(* A handler stamps its event, or crashes. *)
LEMMA HandleStampInv ==
  ASSUME TypeInv, UNCHANGED tick, NEW h \in Processes, HandleStamp(h) \/ HandlerCrash(h)
  PROVE  TypeInv'
<1>1. UNCHANGED <<happened, acked, msgs, suppressions, mail>> /\ Finish(h)
  BY DEF HandleStamp, HandlerCrash
<1>2. faults' \in 0 .. MaxFaults
  BY TypeInvFacts, FaultBound DEF HandleStamp, HandlerCrash
<1>3. Grown
  BY <1>1, <1>2, TypeInvFacts, GrownByUpdate
<1>4. HookTypes'
  <2>1. CASE HandlerCrash(h)
    BY <1>1, <2>1 DEF HandlerCrash, TypeInv, TypeOK, HooksTypeOK, HookTypes, EventsMailed, Recorded
  <2>2. CASE HandleStamp(h)
    <3>1. handler[h].ev \in Event /\ mail[handler[h].ev.pid] # NULL
      BY <2>2, TypeInvFacts DEF HandlerOK, HandleStamp
    <3>2. sweep' = sweep
      BY <2>2 DEF HandleStamp
    <3>3. \/ webhook_events' = webhook_events
          \/ \E st \in {"processed", "errored"} :
               webhook_events' = [webhook_events EXCEPT ![handler[h].ev] = st]
      BY <2>2 DEF HandleStamp
    <3> QED BY <1>1, <3>1, <3>2, <3>3
            DEF TypeInv, TypeOK, HooksTypeOK, HookTypes, EventsMailed, Recorded
  <2> QED BY <2>1, <2>2
<1> QED BY <1>1, <1>3, <1>4, FinishInv

(* Time passes for one row. *)
LEMMA ElapseInv ==
  ASSUME TypeInv, NEW m \in MsgIds, Elapse(m)
  PROVE  TypeInv'
<1>1. UNCHANGED <<suppressions, mail, tick, hooks>>
  BY DEF Elapse
<1>2. faults' \in 0 .. MaxFaults
  BY TypeInvFacts, FaultBound DEF Elapse, BecomeDue, BecomeStale
<1>3. msgs' \in Rows /\ Updated(msgs, msgs')
  <2>1. msgs \in Rows /\ msgs[m] \in Row
    BY TypeInvFacts DEF Rows
  <2>2. \A r \in {[msgs[m] EXCEPT !.sched = "due"], [msgs[m] EXCEPT !.stale = TRUE]} :
          /\ r \in Row /\ r.status = msgs[m].status
          /\ r.lead = msgs[m].lead /\ r.seq = msgs[m].seq /\ r.step = msgs[m].step
    BY <2>1 DEF Row
  <2>3. PICK r \in {[msgs[m] EXCEPT !.sched = "due"], [msgs[m] EXCEPT !.stale = TRUE]} :
          msgs' = [msgs EXCEPT ![m] = r] /\ msgs[m].status # "absent"
    BY <2>1 DEF Elapse, BecomeDue, BecomeStale
  <2>4. msgs' \in Rows /\ \A k \in MsgIds : msgs'[k] = IF k = m THEN r ELSE msgs[k]
    BY <2>1, <2>2, <2>3 DEF Rows
  <2>5. /\ msgs[m].status # "absent" /\ r.status = msgs[m].status
        /\ r.lead = msgs[m].lead /\ r.seq = msgs[m].seq /\ r.step = msgs[m].step
    BY <2>2, <2>3
  <2> QED BY <2>4, <2>5 DEF Kept, Updated
<1>4. Grown
  BY <1>1, <1>2, <1>3, TypeInvFacts, GrownByUpdate
<1>5. HookTypes'
  BY <1>1, <1>4, SameHookTypes DEF hooks
<1> QED BY <1>1, <1>4, <1>5, EventStepInv DEF hooks

(* The initial tables are well typed. *)
LEMMA TypeInvInit == Init => TypeInv
<1> SUFFICES ASSUME Init PROVE TypeInv
  OBVIOUS
<1>1. msgs \in Rows /\ RowsNamed
  <2>1. 0 \in Steps
    BY TablesAssumption DEF Steps
  <2> QED BY <2>1, TablesAssumption
          DEF Init, TablesInit, NewRow, NoRow, Rows, Row, Status, RowsNamed
<1>2. TablesTypeOK /\ MailsNamed
  BY <1>1, TablesAssumption DEF Init, TablesInit, TablesTypeOK, Rows, MailsNamed
<1>3. TickTypeOK /\ \A t \in Ticks : TickOK(tick[t], msgs)
  BY DEF Init, TickInit, TickTypeOK, TickOK, idleTick, TickState
<1>4. HooksTypeOK /\ EventsMailed /\ \A h \in Processes : HandlerOK(handler[h], msgs, mail)
  BY DEF Init, HooksInit, HooksTypeOK, EventsMailed, Recorded, HandlerOK, idleHandler, HandlerState
<1> QED BY <1>1, <1>2, <1>3, <1>4 DEF TypeInv, TypeOK

(* The type invariant is inductive. *)
LEMMA TypeInvNext == TypeInv /\ [Next]_vars => TypeInv'
<1> SUFFICES ASSUME TypeInv, [Next]_vars PROVE TypeInv'
  OBVIOUS
<1>1. CASE UNCHANGED vars
  BY <1>1 DEF vars, tables, hooks, TypeInv, TypeOK, TablesTypeOK, TickTypeOK, HooksTypeOK,
              RowsNamed, MailsNamed, EventsMailed, Recorded
<1>2. ASSUME NEW h \in Processes, Webhook(h) PROVE TypeInv'
  BY <1>2, HandleMarkInv, HandleLookupInv, HandleSuppressInv, HandleCancelInv, HandleAdvanceInv,
     HandleStampInv DEF Webhook, HandlerStep
<1> QED BY <1>1, <1>2, DispatchInv, ElapseInv, IngressInv, SweepInv DEF Next

(* Every variable keeps its type, whatever the ticks, handlers and faults. *)
THEOREM TypeCorrect == Spec => []TypeOK
<1>1. TypeInv => TypeOK
  BY DEF TypeInv
<1> QED BY <1>1, TypeInvInit, TypeInvNext, PTL DEF Spec
-----------------------------------------------------------------------------
(* The two-phase claim.  ClaimExclusive is not inductive.  It rests on the  *)
(* rows a tick holds being out of reach of the two statements that could   *)
(* hand them to another tick: a held row is not pending, so no claim       *)
(* matches it, and it is not stale, so no sweep puts it back.              *)

(* No claim and no sweep changes this row. *)
Fresh(row) == row.status \notin {"absent", "pending"} /\ (row.status = "dispatching" => ~ row.stale)

HeldBy(r) == IF r.pc \in {"fetch", "recheck", "build", "posted", "errors"}
             THEN r.batch \cup r.built ELSE {}

(* Nothing is built before the build loop, and a row is built once. *)
Shape(r) == /\ r.batch \cap r.built = {}
            /\ r.pc \in {"idle", "select", "claim", "fetch", "recheck"} => r.built = {}

ClaimInv ==
  /\ ClaimExclusive
  /\ \A t \in Ticks : Shape(tick[t]) /\ \A m \in Held(t) : Fresh(msgs[m])

(* Every statement but a release leaves a fresh row fresh. *)
LEMMA SetStatusFresh ==
  ASSUME NEW t \in Rows, NEW S, NEW st \in Status \ {"absent", "pending", "dispatching"},
         NEW m \in MsgIds, Fresh(t[m])
  PROVE  Fresh(SetStatus(t, S, st)[m])
BY DEF SetStatus, Rows, Row, Fresh, Status

(* Neither a claim nor the stale-claim sweep disturbs a fresh row. *)
LEMMA QueueFresh ==
  ASSUME NEW t \in Rows, NEW ids, NEW m \in MsgIds, Fresh(t[m])
  PROVE  Fresh(ClaimBatch(t, ids)[m]) /\ Fresh(SweepStaleClaims(t)[m])
BY DEF ClaimBatch, Claimable, SweepStaleClaims, Rows, Row, Fresh

(* mark_sent either leaves a fresh row alone or confirms it. *)
LEMMA MarkSentFresh ==
  ASSUME NEW t \in Rows, NEW n \in MsgIds, NEW p \in Pids, NEW m \in MsgIds, Fresh(t[m])
  PROVE  Fresh(MarkSent(t, n, p)[m])
BY DEF MarkSent, Rows, Row, Fresh

(* The call that opens a webhook handler leaves a fresh row fresh. *)
LEMMA MarkFresh ==
  ASSUME TypeInv, NEW h \in Processes, handler[h].pc # "idle", NEW m \in MsgIds, Fresh(msgs[m])
  PROVE  Fresh(Mark(handler[h].ev)[m])
<1> DEFINE e == handler[h].ev
<1>1. /\ e \in Event /\ mail[e.pid].tag \in MsgIds /\ e.pid \in Pids /\ msgs \in Rows
  BY WorkingOn, TypeInvFacts DEF Mail
<1>2. e.type \in {"sent", "bounced_hard", "bounced_soft", "unsubscribed", "replied"}
  BY <1>1, WebhookAssumption DEF Event
<1>3. \/ Mark(e) = MarkSent(msgs, mail[e.pid].tag, e.pid)
      \/ \E S, st : /\ Mark(e) = SetStatus(msgs, S, st)
                    /\ st \in Status \ {"absent", "pending", "dispatching"}
  <2> HIDE DEF e
  <2> QED BY <1>2 DEF Mark, Bounces, MarkBounced, MarkUnsubscribed, MarkReplied, Status
<1> QED BY <1>1, <1>3, MarkSentFresh, SetStatusFresh

(* cancel_pending_steps_for_lead only touches pending rows. *)
LEMMA CancelFresh ==
  ASSUME TypeInv, NEW h \in Processes, NEW m \in MsgIds, Fresh(msgs[m])
  PROVE  Fresh(Cancel(h)[m])
<1>1. \/ Cancel(h) = msgs
      \/ \E S : Cancel(h) = SetStatus(msgs, S, "cancelled")
  BY DEF Cancel, CancelPending
<1>2. "cancelled" \in Status \ {"absent", "pending", "dispatching"}
  BY DEF Status
<1> QED BY <1>1, <1>2, TypeInvFacts, SetStatusFresh

(* The INSERT of a next step takes an id that no row has. *)
LEMMA InsertFresh ==
  ASSUME NEW t \in Rows, NEW l, NEW s, NEW i, NEW r, HasRoom(t) \/ Occupied(t, l, s, i),
         NEW m \in MsgIds, Fresh(t[m])
  PROVE  Fresh(InsertNextStep(t, l, s, i, r)[m])
<1>1. CASE Occupied(t, l, s, i)
  BY <1>1 DEF InsertNextStep
<1>2. CASE ~ Occupied(t, l, s, i)
  <2> DEFINE new == CHOOSE x \in MsgIds : t[x].status = "absent"
  <2>1. new \in MsgIds /\ t[new].status = "absent"
    BY <1>2 DEF HasRoom
  <2>2. InsertNextStep(t, l, s, i, r) = [t EXCEPT ![new] = NewRow(l, s, i, r, "later")]
    BY <1>2 DEF InsertNextStep
  <2> HIDE DEF new
  <2> QED BY <2>1, <2>2 DEF Rows, Fresh
<1> QED BY <1>1, <1>2
-----------------------------------------------------------------------------
(* A step that changes no tick. *)
LEMMA ClaimOtherStep ==
  ASSUME TypeInv, ClaimInv, UNCHANGED tick,
         \A t \in Ticks : \A m \in Held(t) : Fresh(msgs[m]) => Fresh(msgs'[m])
  PROVE  ClaimInv'
BY DEF ClaimInv, ClaimExclusive, Held

(* A step of tick t that takes no row. *)
LEMMA ClaimTickStep ==
  ASSUME TypeInv, ClaimInv, NEW t \in Ticks, NEW r, tick' = [tick EXCEPT ![t] = r],
         Shape(r), HeldBy(r) \subseteq Held(t),
         \A m \in HeldBy(r) : Fresh(msgs'[m]),
         \A u \in Ticks \ {t} : \A m \in Held(u) : Fresh(msgs'[m])
  PROVE  ClaimInv'
<1>1. \A u \in Ticks : tick'[u] = IF u = t THEN r ELSE tick[u]
  BY DEF TypeInv, TypeOK, TickTypeOK
<1>2. \A u \in Ticks : Held(u)' = IF u = t THEN HeldBy(r) ELSE Held(u)
  BY <1>1 DEF Held, HeldBy
<1> QED BY <1>1, <1>2 DEF ClaimInv, ClaimExclusive

(* A tick that stops gives its rows up to nobody. *)
LEMMA ClaimStop ==
  ASSUME TypeInv, ClaimInv, NEW t \in Ticks, Stop(t),
         \A u \in Ticks \ {t} : \A m \in Held(u) : Fresh(msgs'[m])
  PROVE  ClaimInv'
<1>1. Shape(idleTick) /\ HeldBy(idleTick) = {}
  BY DEF Shape, HeldBy, idleTick
<1> QED BY <1>1, ClaimTickStep DEF Stop

(* A tick holds message ids. *)
LEMMA HeldRows ==
  ASSUME TypeInv, NEW t \in Ticks
  PROVE  Held(t) \subseteq MsgIds
BY TypeInvFacts DEF Held, TickState

-----------------------------------------------------------------------------
(* The tick's actions. *)
LEMMA ClaimQueuePhase ==
  ASSUME TypeInv, ClaimInv, NEW t \in Ticks, TickSweep(t) \/ TickSelect(t) \/ TickClaim(t)
  PROVE  ClaimInv'
<1>1. msgs \in Rows /\ tick[t] \in TickState
  BY TypeInvFacts
<1>2. Held(t) = {} /\ tick[t].built = {}
  BY DEF TickSweep, TickSelect, TickClaim, Held, ClaimInv, Shape
<1>3. \A u \in Ticks : \A m \in Held(u) : Fresh(msgs'[m])
  BY <1>1, HeldRows, QueueFresh DEF ClaimInv, TickSweep, TickSelect, TickClaim
<1>4. CASE Stop(t)
  BY <1>3, <1>4, ClaimStop
<1>5. CASE TickSweep(t)
  <2> DEFINE r == [tick[t] EXCEPT !.pc = "select"]
  <2>1. Shape(r) /\ HeldBy(r) = {} /\ tick' = [tick EXCEPT ![t] = r]
    BY <1>1, <1>2, <1>5 DEF TickSweep, Shape, HeldBy, TickState
  <2> HIDE DEF r
  <2> QED BY <1>3, <2>1, ClaimTickStep
<1>6. ASSUME TickSelect(t), NEW S, tick' = [tick EXCEPT ![t].pc = "claim", ![t].batch = S]
      PROVE  ClaimInv'
  <2> DEFINE r == [tick[t] EXCEPT !.pc = "claim", !.batch = S]
  <2>1. Shape(r) /\ HeldBy(r) = {} /\ tick' = [tick EXCEPT ![t] = r]
    BY <1>1, <1>2, <1>6 DEF Shape, HeldBy, TickState
  <2> HIDE DEF r
  <2> QED BY <1>3, <2>1, ClaimTickStep
<1>7. ASSUME TickClaim(t), ~ Stop(t)
      PROVE  ClaimInv'
  <2> DEFINE won == Claimable(msgs, tick[t].batch)
             supp == {s[1] : s \in suppressions}
             r == [tick[t] EXCEPT !.pc = "fetch", !.batch = won, !.supp0 = supp]
  <2>1. /\ msgs' = ClaimBatch(msgs, tick[t].batch)
        /\ tick' = [tick EXCEPT ![t] = r]
    BY <1>7 DEF TickClaim
  <2>2. Shape(r) /\ HeldBy(r) = won
    BY <1>1, <1>2 DEF Shape, HeldBy, TickState
  <2>3. won \subseteq MsgIds /\ \A m \in won : msgs[m].status = "pending" /\ Fresh(msgs'[m])
    <3>1. tick[t].batch \subseteq MsgIds
      BY <1>1 DEF TickState
    <3>2. won \subseteq MsgIds /\ \A m \in won : m \in tick[t].batch /\ msgs[m].status = "pending"
      BY <3>1 DEF Claimable
    <3>3. \A m \in won : msgs[m] \in Row
                         /\ msgs'[m] = [msgs[m] EXCEPT !.status = "dispatching", !.stale = FALSE]
      BY <1>1, <2>1, <3>2 DEF ClaimBatch, Rows
    <3>4. \A m \in won : msgs'[m].status = "dispatching" /\ msgs'[m].stale = FALSE
      BY <3>3 DEF Row
    <3> HIDE DEF won
    <3> QED BY <3>2, <3>4 DEF Fresh
  <2>4. \A u \in Ticks : won \cap Held(u) = {}
    BY <2>3 DEF ClaimInv, Fresh
  <2> HIDE DEF r, won
  <2>5. \A u \in Ticks : tick'[u] = IF u = t THEN r ELSE tick[u]
    BY <2>1 DEF TypeInv, TypeOK, TickTypeOK
  <2>6. \A u \in Ticks : Held(u)' = IF u = t THEN won ELSE Held(u)
    BY <2>2, <2>5 DEF Held, HeldBy
  <2> QED BY <1>3, <2>2, <2>3, <2>4, <2>5, <2>6 DEF ClaimInv, ClaimExclusive
<1> QED BY <1>4, <1>5, <1>6, <1>7 DEF TickSelect

(* The batch reads and the recheck change no claim. *)
LEMMA ClaimFetchPhase ==
  ASSUME TypeInv, ClaimInv, NEW t \in Ticks, TickFetch(t) \/ TickRecheck(t)
  PROVE  ClaimInv'
<1>1. tick[t] \in TickState /\ msgs' = msgs
  BY TypeInvFacts DEF TickFetch, TickRecheck, tables
<1>2. tick \in [Ticks -> TickState]
  BY DEF TypeInv, TypeOK, TickTypeOK
<1> DEFINE r == tick'[t]
<1>3. /\ r.pc \in {"recheck", "build"} /\ r.batch = tick[t].batch /\ r.built = tick[t].built
      /\ tick' = [tick EXCEPT ![t] = r]
  <2>1. CASE TickFetch(t)
    <3>1. PICK L, R : tick' = [tick EXCEPT ![t].pc = "recheck", ![t].lost = L, ![t].ready = R]
      BY <2>1 DEF TickFetch
    <3> QED BY <1>1, <1>2, <3>1 DEF TickState
  <2>2. CASE TickRecheck(t)
    <3>1. PICK S : tick' = [tick EXCEPT ![t].pc = "build", ![t].blocked = S]
      BY <2>2 DEF TickRecheck
    <3> QED BY <1>1, <1>2, <3>1 DEF TickState
  <2> QED BY <2>1, <2>2
<1>4. tick[t].pc \in {"fetch", "recheck"}
  BY DEF TickFetch, TickRecheck
<1> HIDE DEF r
<1>5. Shape(r) /\ HeldBy(r) = Held(t)
  BY <1>3, <1>4 DEF Shape, HeldBy, Held, ClaimInv
<1> QED BY <1>1, <1>3, <1>5, ClaimTickStep DEF ClaimInv

(* Row m leaves the batch; it stays with the tick or is given up. *)
LEMMA ClaimBuilt ==
  ASSUME TypeInv, ClaimInv, NEW t \in Ticks, NEW m \in tick[t].batch, NEW built, NEW tag,
         Built(t, m, built, tag), tick[t].pc = "build",
         built \subseteq tick[t].built \cup {m},
         \A x \in (tick[t].batch \ {m}) \cup built : Fresh(msgs'[x]),
         \A u \in Ticks \ {t} : \A x \in Held(u) : Fresh(msgs'[x])
  PROVE  ClaimInv'
<1> DEFINE rest == tick[t].batch \ {m}
           pc == IF rest = {} THEN "posted" ELSE "build"
           wire == IF rest = {} THEN built ELSE {}
           r == [tick[t] EXCEPT !.batch = rest, !.built = built, !.tag = tag, !.pc = pc, !.wire = wire]
<1>1. CASE rest = {} /\ built = {}
  BY <1>1, ClaimStop DEF Built
<1>2. CASE ~ (rest = {} /\ built = {})
  <2>1. tick' = [tick EXCEPT ![t] = r]
    BY <1>2 DEF Built
  <2>2. pc \in {"posted", "build"}
    OBVIOUS
  <2> HIDE DEF pc, wire
  <2>3. r.pc = pc /\ r.batch = rest /\ r.built = built
    BY TypeInvFacts DEF TickState
  <2> HIDE DEF r
  <2>4. tick[t].batch \cap tick[t].built = {}
    BY DEF ClaimInv, Shape
  <2>5. Shape(r)
    BY <2>2, <2>3, <2>4 DEF Shape
  <2>6. HeldBy(r) = rest \cup built
    BY <2>2, <2>3 DEF HeldBy
  <2>7. HeldBy(r) \subseteq Held(t)
    BY <2>6 DEF Held
  <2> QED BY <2>1, <2>5, <2>6, <2>7, ClaimTickStep
<1> QED BY <1>1, <1>2

(* The build loop keeps or releases rows of its own tick only. *)
LEMMA ClaimBuildPhase ==
  ASSUME TypeInv, ClaimInv, NEW t \in Ticks, TickBuild(t)
  PROVE  ClaimInv'
<1>1. PICK m \in tick[t].batch : (\E st : TickRelease(t, m, st)) \/ TickAppend(t, m)
  BY DEF TickBuild, TickPostpone
<1>2. tick[t].pc = "build" /\ Held(t) = tick[t].batch \cup tick[t].built
  BY DEF TickBuild, Held
<1>3. tick[t].batch \cap tick[t].built = {}
  BY DEF ClaimInv, Shape
<1>4. msgs \in Rows /\ m \in MsgIds
  BY <1>1, TypeInvFacts DEF TickState
<1>5. \A x \in MsgIds \ {m} : Fresh(msgs[x]) => Fresh(msgs'[x])
  BY <1>1, <1>4 DEF TickRelease, TickAppend, ReleaseClaim, Rows
<1>6. \A u \in Ticks \ {t} : \A x \in Held(u) : x # m /\ Fresh(msgs'[x])
  BY <1>2, <1>5, HeldRows DEF ClaimInv, ClaimExclusive
<1>7. CASE \E st : TickRelease(t, m, st)
  <2>1. \A x \in (tick[t].batch \ {m}) \cup tick[t].built : Fresh(msgs'[x])
    BY <1>2, <1>3, <1>5, HeldRows DEF ClaimInv
  <2> QED BY <1>2, <1>6, <1>7, <2>1, ClaimBuilt DEF TickRelease
<1>8. CASE TickAppend(t, m)
  <2>1. \A x \in (tick[t].batch \ {m}) \cup (tick[t].built \cup {m}) : Fresh(msgs'[x])
    BY <1>2, <1>8 DEF ClaimInv, TickAppend
  <2> QED BY <1>2, <1>6, <1>8, <2>1, ClaimBuilt DEF TickAppend
<1> QED BY <1>1, <1>7, <1>8

(* After the POST a tick keeps its rows until it stops. *)
LEMMA ClaimPostPhase ==
  ASSUME TypeInv, ClaimInv, NEW t \in Ticks,
         \/ ProviderAccept(t) \/ TickResponse(t) \/ TickMarkFailed(t)
         \/ ProviderReject(t) \/ TickHttpError(t) \/ TickTransportError(t)
  PROVE  ClaimInv'
<1>1. tick[t] \in TickState /\ tick[t].pc \in {"posted", "errors"}
  BY TypeInvFacts DEF ProviderAccept, TickResponse, TickMarkFailed, ProviderReject,
     TickHttpError, TickTransportError
<1>2. \A u \in Ticks : \A m \in Held(u) : Fresh(msgs'[m])
  <2>1. \/ msgs' = msgs
        \/ \E S : msgs' = SetStatus(msgs, S, "bounced")
    BY DEF ProviderAccept, TickResponse, TickMarkFailed, ProviderReject,
       TickHttpError, TickTransportError, MarkSendFailed, tables
  <2>2. "bounced" \in Status \ {"absent", "pending", "dispatching"}
    BY DEF Status
  <2> QED BY <2>1, <2>2, TypeInvFacts, HeldRows, SetStatusFresh DEF ClaimInv
<1>3. CASE Stop(t)
  BY <1>2, <1>3, ClaimStop
<1>4. CASE ~ Stop(t)
  <2>1. tick \in [Ticks -> TickState]
    BY DEF TypeInv, TypeOK, TickTypeOK
  <2> DEFINE r == tick'[t]
  <2>2. /\ r.pc \in {"posted", "errors"} /\ r.batch = tick[t].batch /\ r.built = tick[t].built
        /\ tick' = [tick EXCEPT ![t] = r]
    <3>1. CASE ProviderAccept(t) \/ ProviderReject(t)
      <4>1. PICK b : \/ tick' = [tick EXCEPT ![t].wire = @ \ {b}]
                     \/ tick' = [tick EXCEPT ![t].wire = @ \ {b}, ![t].errors = @ \cup {b}]
        BY <3>1 DEF ProviderAccept, ProviderReject
      <4> QED BY <1>1, <2>1, <4>1 DEF TickState
    <3>2. CASE TickHttpError(t) \/ TickTransportError(t)
      BY <1>1, <2>1, <3>2 DEF TickHttpError, TickTransportError, TickState
    <3>3. CASE TickResponse(t)
      <4>1. PICK matched : tick' = [tick EXCEPT ![t].pc = "errors", ![t].errors = matched]
        BY <1>4, <3>3 DEF TickResponse
      <4> QED BY <1>1, <2>1, <4>1 DEF TickState
    <3>4. CASE TickMarkFailed(t)
      <4>1. PICK b : tick' = [tick EXCEPT ![t].errors = @ \ {b}]
        BY <1>4, <3>4 DEF TickMarkFailed
      <4> QED BY <1>1, <2>1, <4>1 DEF TickState
    <3> QED BY <3>1, <3>2, <3>3, <3>4
  <2> HIDE DEF r
  <2>3. Shape(r) /\ HeldBy(r) = Held(t)
    BY <1>1, <2>2 DEF Shape, HeldBy, Held, ClaimInv
  <2> QED BY <1>2, <2>2, <2>3, ClaimTickStep
<1> QED BY <1>3, <1>4

(* Every step of a dispatch tick. *)
LEMMA ClaimDispatch ==
  ASSUME TypeInv, ClaimInv, NEW t \in Ticks, Dispatch(t)
  PROVE  ClaimInv'
<1>1. CASE TickStop(t)
  BY <1>1, ClaimStop DEF TickStop, ClaimInv
<1> QED BY <1>1, ClaimQueuePhase, ClaimFetchPhase, ClaimBuildPhase, ClaimPostPhase
        DEF Dispatch, TickStep, TickFault
-----------------------------------------------------------------------------
(* Time and the webhooks. *)
LEMMA ClaimElapse ==
  ASSUME TypeInv, ClaimInv, NEW m \in MsgIds, Elapse(m)
  PROVE  ClaimInv'
<1>1. UNCHANGED tick /\ msgs \in Rows
  BY TypeInvFacts DEF Elapse
<1>2. ASSUME NEW t \in Ticks, NEW x \in Held(t), Fresh(msgs[x])
      PROVE  Fresh(msgs'[x])
  BY <1>1, <1>2, HeldRows DEF Elapse, BecomeDue, BecomeStale, Fresh, Rows
<1> QED BY <1>1, <1>2, ClaimOtherStep

(* A handler leaves the rows that ticks hold out of the queue. *)
LEMMA ClaimWebhook ==
  ASSUME TypeInv, ClaimInv, NEW h \in Processes, Webhook(h)
  PROVE  ClaimInv'
<1>1. UNCHANGED tick
  BY DEF Webhook
<1>2. ASSUME NEW m \in MsgIds, Fresh(msgs[m])
      PROVE  Fresh(msgs'[m])
  <2>1. CASE HandleMark(h)
    BY <1>2, <2>1, MarkFresh DEF HandleMark
  <2>2. CASE HandleCancel(h)
    BY <1>2, <2>2, CancelFresh DEF HandleCancel
  <2>3. CASE HandleAdvance(h)
    <3> DEFINE row == msgs[handler[h].row]
               inReply == IF row.step + 1 \in Threaded THEN handler[h].rowPid ELSE NULL
    <3>1. \/ msgs' = msgs
          \/ /\ HasRoom(msgs) \/ Occupied(msgs, row.lead, row.seq, row.step + 1)
             /\ msgs' = InsertNextStep(msgs, row.lead, row.seq, row.step + 1, inReply)
      BY <2>3 DEF HandleAdvance
    <3> HIDE DEF row, inReply
    <3> QED BY <1>2, <3>1, TypeInvFacts, InsertFresh
  <2>4. CASE msgs' = msgs
    BY <1>2, <2>4
  <2> QED BY <2>1, <2>2, <2>3, <2>4 DEF Webhook, HandlerStep, HandleLookup, HandleCount,
             HandleSuppress, HandleStamp, HandlerCrash
<1> QED BY <1>1, <1>2, HeldRows, ClaimOtherStep

(* No tick holds a row at first. *)
LEMMA ClaimInvInit == Init => ClaimInv
BY DEF Init, TickInit, ClaimInv, ClaimExclusive, Held, Shape, idleTick

(* The claim invariant is inductive, relative to the types. *)
LEMMA ClaimInvNext == TypeInv /\ ClaimInv /\ [Next]_vars => ClaimInv'
<1> SUFFICES ASSUME TypeInv, ClaimInv, [Next]_vars PROVE ClaimInv'
  OBVIOUS
<1>1. CASE UNCHANGED <<tick, msgs>>
  BY <1>1, ClaimOtherStep
<1>2. CASE Ingress \/ Sweep \/ (\E e \in Event : Grace(e)) \/ UNCHANGED vars
  <2>1. UNCHANGED <<tick, msgs>>
    BY <1>2 DEF Ingress, ProviderEvent, DeliverFails, Deliver, Sweep, SweepSelect, SweepNext,
                Grace, GraceEnds, vars, tables
  <2> QED BY <1>1, <2>1
<1> QED BY <1>2, ClaimDispatch, ClaimElapse, ClaimWebhook DEF Next

(* No double dispatch by overlap: two ticks never act on the same row, so  *)
(* a row is in at most one POST, whatever crashes, is swept or is repeated. *)
THEOREM ClaimIsExclusive == Spec => []ClaimExclusive
<1>1. Init => TypeInv /\ ClaimInv
  BY TypeInvInit, ClaimInvInit
<1>2. TypeInv /\ ClaimInv /\ [Next]_vars => TypeInv' /\ ClaimInv'
  BY TypeInvNext, ClaimInvNext
<1>3. ClaimInv => ClaimExclusive
  BY DEF ClaimInv
<1> QED BY <1>1, <1>2, <1>3, PTL DEF Spec
=============================================================================
