--------------------------- MODULE CampaignProofs ---------------------------
(***************************************************************************)
(* Proofs about the operator's data, for any campaigns, seeds, addresses,  *)
(* files and bounds.  The invariant has four parts: the tables (what the   *)
(* key of a lead says of its address, that a message is of the lead its    *)
(* text was made of, and what the generation has read), the erasure (its   *)
(* control, and what each deletion that is done has left), the             *)
(* unsubscription (the lead and the address that its look-ups have found)  *)
(* and the demo leads.  Each is inductive given those before it.           *)
(***************************************************************************)
EXTENDS Campaigns, TLAPS

(* A key that is made of a website and an address; as long as no file has  *)
(* brought another address under it, every row of the key has this one.    *)
Sites == UNION {{file.rows[i].site : i \in DOMAIN file.rows} : file \in Files}

Fits(key, email) == email \in Emails /\ \E site \in Sites : key = Joined(site, email)

Names(key, email) == key \notin misnamed => Fits(key, email)

(* A key can be read in one way: no website ends where another goes on.    *)
(* (A site "a_b" with the address "c" has the key of "a" with "b_c".)      *)
Unambiguous ==
  \A site, other \in Sites : \A email, address \in Emails :
    Joined(site, email) = Joined(other, address) => email = address

(* The rows of an upload have the address that is in their key. *)
LEMMA ImportedRows ==
  ASSUME NEW file \in Files, NEW mapped \in BOOLEAN, NEW k \in DOMAIN Imported(file, mapped)
  PROVE  /\ Imported(file, mapped)[k] \in [email : Emails \cup {NULL}]
         /\ k \notin Misnamed(file, mapped) => Fits(k, Imported(file, mapped)[k].email)
<1> DEFINE keys == KeysOf(file)
           i == CHOOSE i \in Lasts(file) : keys[i] = k
           row == LastRow(file, k)
<1>1. i \in Lasts(file)
  BY DEF Imported
<1>2. i \in DOMAIN file.rows /\ row = file.rows[i]
  BY <1>1 DEF Lasts, KeysOf, LastRow
<1> HIDE DEF i
<1>3. row.email \in Emails \cup {NULL} /\ row.mail \in Emails \cup {NULL} /\ row.site \in Sites
  BY <1>2, CampaignsAssumption DEF Sites
<1>4. Imported(file, mapped)[k] = [email |-> Address(file, row, mapped)]
  BY DEF Imported
<1> HIDE DEF row, keys
<1>5. Address(file, row, mapped) \in Emails \cup {NULL}
  BY <1>3 DEF Address
<1>6. Imported(file, mapped)[k] \in [email : Emails \cup {NULL}]
  BY <1>4, <1>5
<1>7. k \notin Misnamed(file, mapped) => Fits(k, Imported(file, mapped)[k].email)
  <2>1. SUFFICES ASSUME k \notin Misnamed(file, mapped) PROVE Fits(k, Imported(file, mapped)[k].email)
    OBVIOUS
  <2>2. /\ Imported(file, mapped)[k].email # NULL
        /\ k = Joined(row.site, Imported(file, mapped)[k].email)
    BY <2>1 DEF Misnamed, row
  <2> QED BY <1>3, <1>6, <2>2 DEF Fits
<1> QED BY <1>6, <1>7

(* What is not misnamed any more does not become so again. *)
LEMMA NamesStay == [Next]_vars => \A key, email : Names(key, email) => Names(key, email)'
<1> SUFFICES ASSUME [Next]_vars PROVE misnamed \subseteq misnamed'
  BY DEF Names
<1>1. \/ misnamed' = misnamed
      \/ \E file \in Files, mapped \in BOOLEAN : misnamed' = misnamed \cup Misnamed(file, mapped)
  BY DEF Next, LeadStep, CampaignStep, EraseStep, UnsubStep, vars, tables, rowVars, Upload, FetchChunk,
         WriteBack, ClearLeads, DemoStart, DemoMessages, DemoLeads, CreateCampaign, GenerateCampaign, SetStatus,
         GenerateLeads, GenerateInsert, GenerateUpdate, GenerateFails, EraseStart, EraseAudit, EraseMessages,
         EraseCampaigns, EraseLeads, Deleting, EraseNext, EraseFails, UnsubStart, UnsubMessage, UnsubLead,
         UnsubAdd, UnsubFails
<1> QED BY <1>1
-----------------------------------------------------------------------------
(* The leads and what workers hold of them: addresses are addresses, and   *)
(* what a key says is so.                                                  *)
RowOK(k, row) == row \in [email : Emails \cup {NULL}] /\ Names(k, row.email)

LeadInv ==
  /\ \A k \in DOMAIN leads : RowOK(k, leads[k])
  /\ DOMAIN held = Workers
  /\ \A w \in Workers : \A k \in DOMAIN held[w] : RowOK(k, held[w][k])

(* A seed's key need not name an address, and no worker is at work. *)
LEMMA LeadInvInit == Init => LeadInv
<1> SUFFICES ASSUME Init PROVE LeadInv
  OBVIOUS
<1>1. DOMAIN leads = Seeds /\ \A k \in Seeds : leads[k] \in [email : Emails \cup {NULL}]
  BY CampaignsAssumption DEF Init
<1>2. misnamed = Seeds /\ held = [w \in Workers |-> NoRows]
  BY DEF Init
<1> QED BY <1>1, <1>2 DEF LeadInv, RowOK, Names, NoRows

(* An upload brings leads whose keys name their addresses, or are known    *)
(* not to; a worker brings back what was there, and gives an address only  *)
(* to a lead that had none: its key names none.                            *)
LEMMA LeadInvNext == LeadInv /\ [Next]_vars => LeadInv'
<1> SUFFICES ASSUME LeadInv, [Next]_vars PROVE LeadInv'
  OBVIOUS
<1> DEFINE Row(k, row) == row \in [email : Emails \cup {NULL}] /\ (k \notin misnamed => Fits(k, row.email))
           New(k, row) == row \in [email : Emails \cup {NULL}] /\ (k \notin misnamed' => Fits(k, row.email))
<1>a. /\ \A k \in DOMAIN leads : Row(k, leads[k])
      /\ DOMAIN held = Workers /\ \A w \in Workers : \A k \in DOMAIN held[w] : Row(k, held[w][k])
  BY DEF LeadInv, RowOK, Names
<1>0. \A k, row : Row(k, row) => New(k, row)
  <2>1. \A key, email : Names(key, email) => Names(key, email)'
    BY NamesStay
  <2>2. \A key, email : (key \notin misnamed => Fits(key, email)) => (key \notin misnamed' => Fits(key, email))
    BY <2>1 DEF Names, Fits
  <2> QED BY <2>2
<1>b. SUFFICES /\ \A k \in DOMAIN leads' : New(k, leads'[k])
               /\ DOMAIN held' = Workers
               /\ \A w \in Workers : \A k \in DOMAIN held'[w] : New(k, held'[w][k])
  BY DEF LeadInv, RowOK, Names, Fits
<1> DEFINE Goal == /\ \A k \in DOMAIN leads' : New(k, leads'[k])
                   /\ DOMAIN held' = Workers
                   /\ \A w \in Workers : \A k \in DOMAIN held'[w] : New(k, held'[w][k])
<1>1. ASSUME NEW file \in Files, NEW mapped \in BOOLEAN, Upload(file, mapped)
      PROVE  Goal
  <2> DEFINE rows == Imported(file, mapped)
  <2>1. /\ leads' = [k \in DOMAIN leads \cup DOMAIN rows |-> IF k \in DOMAIN rows THEN rows[k] ELSE leads[k]]
        /\ misnamed' = misnamed \cup Misnamed(file, mapped) /\ held' = held
    BY <1>1 DEF Upload
  <2>2. \A k \in DOMAIN rows : New(k, rows[k])
    BY <2>1, ImportedRows
  <2> HIDE DEF rows, Row, New
  <2>3. \A k \in DOMAIN leads' : New(k, leads'[k])
    BY <1>0, <1>a, <2>1, <2>2
  <2> QED BY <1>0, <1>a, <2>1, <2>3
<1>2. ASSUME NEW w \in Workers, NEW chunk, FetchChunk(w, chunk)
      PROVE  Goal
  <2>1. /\ leads' = leads
        /\ held' = [held EXCEPT ![w] = [k \in chunk \cap DOMAIN leads |-> leads[k]]]
    BY <1>2 DEF FetchChunk
  <2> HIDE DEF Row, New
  <2>2. \A x \in Workers : \A k \in DOMAIN held'[x] :
          \/ k \in DOMAIN leads /\ held'[x][k] = leads[k]
          \/ k \in DOMAIN held[x] /\ held'[x][k] = held[x][k]
    BY <1>a, <2>1
  <2>3. DOMAIN held' = Workers
    BY <1>a, <2>1
  <2> QED BY <1>0, <1>a, <2>1, <2>2, <2>3
<1>3. ASSUME NEW w \in Workers, NEW done \in SUBSET DOMAIN held[w], WriteBack(w, done)
      PROVE  Goal
  <2>1. PICK found \in [done \cap Unaddressed(held[w]) -> Published \cup {NULL}] :
          leads' = [k \in DOMAIN leads \cup done |->
                     IF k \in DOMAIN found THEN [email |-> found[k]]
                     ELSE IF k \in done THEN held[w][k] ELSE leads[k]]
    BY <1>3 DEF WriteBack
  <2>2. held' = [held EXCEPT ![w] = NoRows]
    BY <1>3 DEF WriteBack
  <2>3. ASSUME NEW k \in DOMAIN leads' PROVE New(k, leads'[k])
    <3>1. CASE k \in DOMAIN found
      <4>1. k \in DOMAIN held[w] /\ held[w][k].email = NULL /\ Row(k, held[w][k])
        BY <1>a, <2>1, <3>1 DEF Unaddressed
      <4>2. k \in misnamed
        BY <4>1, CampaignsAssumption DEF Fits
      <4>3. leads'[k] = [email |-> found[k]] /\ found[k] \in Emails \cup {NULL}
        BY <2>1, <3>1, CampaignsAssumption
      <4>4. Row(k, leads'[k])
        BY <4>2, <4>3
      <4> HIDE DEF Row, New
      <4> QED BY <1>0, <4>4
    <3>2. CASE k \notin DOMAIN found
      <4> HIDE DEF Row, New
      <4>1. (k \in done /\ leads'[k] = held[w][k]) \/ (k \in DOMAIN leads /\ leads'[k] = leads[k])
        BY <2>1, <3>2
      <4>2. Row(k, leads'[k])
        BY <1>a, <4>1
      <4> QED BY <1>0, <4>2
    <3> QED BY <3>1, <3>2
  <2> HIDE DEF Row, New
  <2>4. DOMAIN held' = Workers /\ \A x \in Workers : \A k \in DOMAIN held'[x] :
          k \in DOMAIN held[x] /\ held'[x][k] = held[x][k]
    BY <1>a, <2>2 DEF NoRows
  <2> QED BY <1>0, <1>a, <2>3, <2>4
<1>4. ASSUME NEW keys, DeleteLeads(keys), held' = held
      PROVE  Goal
  <2> HIDE DEF Row, New
  <2>1. leads' = [k \in DOMAIN leads \ keys |-> leads[k]]
    BY <1>4 DEF DeleteLeads
  <2> QED BY <1>0, <1>4, <1>a, <2>1
<1>5. ASSUME UNCHANGED <<leads, held>>
      PROVE  Goal
  <2> HIDE DEF Row, New
  <2> QED BY <1>0, <1>5, <1>a
<1> HIDE DEF Goal
<1>6. Goal
  BY <1>1, <1>2, <1>3, <1>4, <1>5
     DEF Next, LeadStep, CampaignStep, EraseStep, UnsubStep, vars, tables, rowVars, ClearLeads, DemoStart,
         DemoMessages, DemoLeads, CreateCampaign, GenerateCampaign, SetStatus, GenerateLeads,
         GenerateInsert, GenerateUpdate, GenerateFails, EraseStart, EraseAudit, EraseMessages,
         EraseCampaigns, EraseLeads, Deleting, EraseNext, EraseFails, UnsubStart, UnsubMessage, UnsubLead,
         UnsubAdd, UnsubFails
<1> QED BY <1>6 DEF Goal
-----------------------------------------------------------------------------
(* The campaigns and the generation of their messages. *)
GenInv ==
  /\ campaigns \in [CampaignIds -> Status]
  /\ DOMAIN gen = {"pc", "campaign", "rows"}
  /\ gen.pc \in {"idle", "leads", "insert", "update"}
  /\ batches \in 0..MaxBatches
  /\ gen.pc \in {"leads", "insert"} => batches < MaxBatches
  /\ \A row \in gen.rows : Names(row.key, row.to)

(* A message is of a lead, or of none any more; its text was made of the   *)
(* lead that its id has.                                                   *)
MessageOK(m) ==
  /\ DOMAIN m = {"id", "campaign", "lead", "to"}
  /\ m.id.batch \in 1..batches
  /\ m.lead \in {NULL, m.id.key} /\ m.lead \in DOMAIN leads \cup {NULL}
  /\ m.campaign \in Existing
  /\ Names(m.id.key, m.to)

MessageInv == \A m \in messages : MessageOK(m)

TablesInv == LeadInv /\ GenInv /\ MessageInv

(* No campaign and no message is there at first. *)
LEMMA TablesInvInit == Init => TablesInv
<1> SUFFICES ASSUME Init PROVE GenInv /\ MessageInv
  BY LeadInvInit DEF TablesInv
<1> QED BY CampaignsAssumption DEF Init, GenInv, MessageInv, Reading, Status

(* A generation reads the addresses that its keys name, and inserts once   *)
(* within the bound.                                                       *)
LEMMA GenInvNext == TablesInv /\ [Next]_vars => GenInv'
<1> SUFFICES ASSUME TablesInv, [Next]_vars PROVE GenInv'
  OBVIOUS
<1> USE CampaignsAssumption
<1>1. GenInv /\ LeadInv /\ \A key, email : Names(key, email) => Names(key, email)'
  BY NamesStay DEF TablesInv
<1>2. ASSUME NEW c \in CampaignIds, CreateCampaign(c) \/ (\E status \in Settings : SetStatus(c, status))
      PROVE  GenInv'
  BY <1>1, <1>2 DEF GenInv, CreateCampaign, SetStatus, Status
<1>3. ASSUME NEW c \in CampaignIds, GenerateCampaign(c)
      PROVE  GenInv'
  BY <1>1, <1>3 DEF GenInv, GenerateCampaign, tables
<1>4. CASE GenerateLeads
  <2> DEFINE reached == {k \in DOMAIN leads : leads[k].email # NULL}
             rows == {[key |-> k, to |-> leads[k].email] : k \in reached}
  <2>1. gen' = Reading \/ gen' = [gen EXCEPT !.pc = "insert", !.rows = rows]
    BY <1>4 DEF GenerateLeads
  <2>2. \A row \in rows : Names(row.key, row.to)
    BY <1>1 DEF LeadInv, RowOK
  <2> HIDE DEF rows
  <2> QED BY <1>1, <1>4, <2>1, <2>2 DEF GenInv, GenerateLeads, Reading, tables
<1>5. CASE GenerateInsert
  <2>1. gen.pc = "insert" /\ campaigns' = campaigns
    BY <1>5 DEF GenerateInsert
  <2>2. \/ gen' = Reading /\ batches' = batches
        \/ gen' = [gen EXCEPT !.pc = "update", !.rows = {}] /\ batches' = batches + 1
    BY <1>5 DEF GenerateInsert, Insert
  <2>3. batches' \in 0..MaxBatches
    BY <1>1, <2>1, <2>2 DEF GenInv
  <2>4. DOMAIN gen' = {"pc", "campaign", "rows"} /\ gen'.pc \in {"idle", "update"} /\ gen'.rows = {}
    <3>1. CASE gen' = Reading
      BY <3>1 DEF Reading
    <3>2. CASE gen' = [gen EXCEPT !.pc = "update", !.rows = {}]
      <4>1. DOMAIN gen = {"pc", "campaign", "rows"}
        BY <1>1 DEF GenInv
      <4> QED BY <3>2, <4>1
    <3> QED BY <2>2, <3>1, <3>2
  <2> QED BY <1>1, <2>1, <2>3, <2>4 DEF GenInv
<1>6. CASE GenerateUpdate
  BY <1>1, <1>6 DEF GenInv, GenerateUpdate, Reading, Existing, Status
<1>7. CASE GenerateFails
  BY <1>1, <1>7 DEF GenInv, GenerateFails, Reading, tables
<1>8. CASE EraseCampaigns
  BY <1>1, <1>8 DEF GenInv, EraseCampaigns, Deleting, Status
<1>9. CASE UNCHANGED <<campaigns, gen, batches>>
  BY <1>1, <1>9 DEF GenInv
<1> QED BY <1>2, <1>3, <1>4, <1>5, <1>6, <1>7, <1>8, <1>9
        DEF Next, LeadStep, CampaignStep, EraseStep, UnsubStep, vars, tables, rowVars, Upload, FetchChunk, WriteBack,
            ClearLeads, DemoStart, DemoMessages, DemoLeads, EraseStart, EraseAudit, EraseMessages,
            EraseLeads, Deleting, EraseNext, EraseFails, UnsubStart, UnsubMessage, UnsubLead,
            UnsubAdd, UnsubFails

(* An insert checks its foreign keys, a deleted lead leaves its messages   *)
(* without one, and the campaigns go together with the messages.           *)
LEMMA MessageInvNext == TablesInv /\ [Next]_vars => MessageInv'
<1> SUFFICES ASSUME TablesInv, [Next]_vars PROVE MessageInv'
  OBVIOUS
<1>1. GenInv /\ MessageInv /\ \A key, email : Names(key, email) => Names(key, email)'
  BY NamesStay DEF TablesInv
<1>2. ASSUME messages' \subseteq messages, DOMAIN leads \subseteq DOMAIN leads',
             Existing \subseteq Existing', batches' = batches
      PROVE  MessageInv'
  BY <1>1, <1>2 DEF MessageInv, MessageOK
<1>3. ASSUME NEW file, NEW mapped, Upload(file, mapped)
      PROVE  MessageInv'
  <2>1. DOMAIN leads \subseteq DOMAIN leads'
    BY <1>3 DEF Upload
  <2> QED BY <1>2, <1>3, <2>1 DEF Upload, Existing
<1>4. ASSUME NEW w, NEW done, WriteBack(w, done)
      PROVE  MessageInv'
  <2>1. DOMAIN leads \subseteq DOMAIN leads'
    BY <1>4 DEF WriteBack
  <2> QED BY <1>2, <1>4, <2>1 DEF WriteBack, Existing
<1>5. ASSUME NEW keys, DeleteLeads(keys), UNCHANGED <<campaigns, batches>>
      PROVE  MessageInv'
  <2> SUFFICES ASSUME NEW n \in messages' PROVE MessageOK(n)'
    BY DEF MessageInv
  <2>1. PICK m \in messages : n = IF m.lead \in keys THEN [m EXCEPT !.lead = NULL] ELSE m
    BY <1>5 DEF DeleteLeads, Detached
  <2>2. MessageOK(m)
    BY <1>1 DEF MessageInv
  <2>3. /\ n.id = m.id /\ n.campaign = m.campaign /\ n.to = m.to
        /\ n.lead = IF m.lead \in keys THEN NULL ELSE m.lead
        /\ DOMAIN n = {"id", "campaign", "lead", "to"}
    BY <2>1, <2>2 DEF MessageOK
  <2>4. DOMAIN leads' = DOMAIN leads \ keys /\ Existing' = Existing
    BY <1>5 DEF DeleteLeads, Existing
  <2> QED BY <1>1, <1>5, <2>2, <2>3, <2>4 DEF MessageOK
<1>6. ASSUME NEW c, CreateCampaign(c) \/ (\E status \in Settings : SetStatus(c, status))
      PROVE  MessageInv'
  <2>1. Existing \subseteq Existing'
    BY <1>1, <1>6, CampaignsAssumption DEF GenInv, CreateCampaign, SetStatus, Existing
  <2> QED BY <1>2, <1>6, <2>1 DEF CreateCampaign, SetStatus
<1>7. CASE GenerateUpdate
  <2>1. Existing \subseteq Existing'
    BY <1>1, <1>7 DEF GenInv, GenerateUpdate, Existing
  <2> QED BY <1>2, <1>7, <2>1 DEF GenerateUpdate
<1>8. CASE GenerateInsert
  <2>1. leads' = leads /\ Existing' = Existing
    BY <1>8 DEF GenerateInsert, Existing
  <2>2. CASE UNCHANGED <<messages, batches>>
    BY <1>2, <2>1, <2>2
  <2>3. CASE ~ UNCHANGED <<messages, batches>>
    <3> DEFINE new == {[id |-> [batch |-> batches + 1, key |-> row.key], campaign |-> gen.campaign,
                        lead |-> row.key, to |-> row.to] : row \in gen.rows}
    <3>1. /\ gen.campaign \in Existing /\ {row.key : row \in gen.rows} \subseteq DOMAIN leads
          /\ messages' = messages \cup new /\ batches' = batches + 1
      BY <1>8, <2>3 DEF GenerateInsert, Insert
    <3>2. batches \in Nat
      BY <1>1, CampaignsAssumption DEF GenInv
    <3>3. ASSUME NEW m \in new PROVE MessageOK(m)'
      <4>1. PICK row \in gen.rows :
              m = [id |-> [batch |-> batches + 1, key |-> row.key], campaign |-> gen.campaign,
                   lead |-> row.key, to |-> row.to]
        BY <3>3
      <4>2. row.key \in DOMAIN leads /\ Names(row.key, row.to)
        BY <1>1, <3>1 DEF GenInv
      <4>3. /\ m.id = [batch |-> batches + 1, key |-> row.key] /\ m.campaign = gen.campaign
            /\ m.lead = row.key /\ m.to = row.to /\ m.id.batch = batches + 1 /\ m.id.key = row.key
        BY <4>1
      <4>4. batches' \in Nat /\ batches + 1 \in 1..batches'
        BY <3>1, <3>2
      <4> QED BY <1>1, <2>1, <3>1, <4>1, <4>2, <4>3, <4>4 DEF MessageOK
    <3> HIDE DEF new
    <3>4. ASSUME NEW m \in messages PROVE MessageOK(m)'
      BY <1>1, <2>1, <3>1, <3>2 DEF MessageInv, MessageOK
    <3> QED BY <3>1, <3>3, <3>4 DEF MessageInv
  <2> QED BY <2>2, <2>3
<1>9. CASE EraseMessages \/ EraseCampaigns
  BY <1>9 DEF EraseMessages, EraseCampaigns, MessageInv
<1>10. CASE DemoMessages
  BY <1>2, <1>10 DEF DemoMessages, Existing
<1>11. CASE UNCHANGED <<leads, campaigns, messages, batches>>
  BY <1>2, <1>11 DEF Existing
<1>12. ClearLeads \/ DemoLeads \/ EraseLeads => MessageInv'
  BY <1>5 DEF ClearLeads, DemoLeads, EraseLeads, Deleting
<1> QED BY <1>3, <1>4, <1>6, <1>7, <1>8, <1>9, <1>10, <1>11, <1>12
        DEF Next, LeadStep, CampaignStep, EraseStep, UnsubStep, vars, tables, rowVars, FetchChunk, DemoStart,
            GenerateCampaign, GenerateLeads, GenerateFails, EraseStart, EraseAudit, EraseNext,
            EraseFails, UnsubStart, UnsubMessage, UnsubLead, UnsubAdd, UnsubFails
-----------------------------------------------------------------------------
(* The control of an erasure: nothing is removed before the audit row.     *)
EraseControl ==
  /\ DOMAIN erasure = {"n", "pc", "called", "removed", "leads", "returned", "campaigns", "messages"}
  /\ erasure.pc \in {"idle", "audit", "messages", "campaigns", "leads", "deleted", "aborted", "failed"}
  /\ purges \in 0..MaxPurges /\ audits \subseteq 1..purges
  /\ erasure.n \in 0..purges /\ (erasure.pc # "idle" => erasure.n # 0)
  /\ erasure.pc \in {"idle", "audit", "aborted"} => ~ erasure.removed
  /\ \/ erasure.removed \/ erasure.pc \in {"messages", "campaigns", "leads", "deleted"}
     \/ erasure.pc = "audit" /\ erasure.called
     => erasure.n \in audits

(* The deletion of a table is done. *)
MessagesGone == (erasure.pc = "messages" /\ erasure.called) \/ erasure.pc \in {"campaigns", "leads", "deleted"}
CampaignsGone == (erasure.pc = "campaigns" /\ erasure.called) \/ erasure.pc \in {"leads", "deleted"}
LeadsGone == (erasure.pc = "leads" /\ erasure.called) \/ erasure.pc = "deleted"

EraseData ==
  /\ \A id \in erasure.messages : id.batch \in 1..batches
  /\ \A c \in erasure.campaigns : c \in CampaignIds /\ campaigns[c] # "absent"
  /\ MessagesGone => \A m \in messages : m.id \notin erasure.messages
  /\ CampaignsGone => erasure.campaigns \cap Existing = {}
  /\ LeadsGone => erasure.leads \cap DOMAIN leads \subseteq erasure.returned

EraseInv == EraseControl /\ EraseData

(* No erasure has begun. *)
LEMMA EraseInvInit == Init => EraseInv
<1> SUFFICES ASSUME Init PROVE EraseControl /\ EraseData
  BY DEF EraseInv
<1>1. erasure = [n |-> 0, pc |-> "idle", called |-> FALSE, removed |-> FALSE,
                 leads |-> {}, returned |-> {}, campaigns |-> {}, messages |-> {}]
  BY DEF Init
<1>2. EraseData
  BY <1>1 DEF EraseData, MessagesGone, CampaignsGone, LeadsGone
<1>3. DOMAIN erasure = {"n", "pc", "called", "removed", "leads", "returned", "campaigns", "messages"}
  BY <1>1
<1>4. erasure.n = 0 /\ erasure.pc = "idle" /\ erasure.removed = FALSE
  BY <1>1
<1> QED BY <1>2, <1>3, <1>4, CampaignsAssumption DEF Init, EraseControl

(* The steps of an erasure, for its record. *)
LEMMA StepsOf ==
  /\ Steps[1] = "audit" /\ Steps[2] = "messages" /\ Steps[3] = "campaigns" /\ Steps[4] = "leads"
  /\ Steps[5] = "deleted" /\ DOMAIN Steps = 1..5
BY DEF Steps

(* What a step makes of the record of an erasure.  Leads that are uploaded *)
(* meanwhile are no longer its leads, those that a worker brings back are  *)
(* returned.                                                               *)
Written ==
  /\ DOMAIN erasure' = DOMAIN erasure
  /\ <<erasure'.n, erasure'.pc, erasure'.called, erasure'.removed, erasure'.campaigns, erasure'.messages>>
     = <<erasure.n, erasure.pc, erasure.called, erasure.removed, erasure.campaigns, erasure.messages>>
  /\ erasure'.leads \subseteq erasure.leads
  /\ erasure.returned \subseteq erasure'.returned
  /\ erasure'.leads \cap DOMAIN leads' \subseteq DOMAIN leads \cup erasure'.returned
  /\ audits' = audits /\ (purges' = purges \/ Purge)

Started ==
  /\ EraseStart
  /\ DOMAIN erasure' = DOMAIN erasure
  /\ erasure'.n = purges + 1 /\ erasure'.pc = "audit" /\ erasure'.called = FALSE /\ erasure'.removed = FALSE
  /\ erasure'.campaigns = Existing /\ erasure'.messages = {m.id : m \in messages}

KeptData ==
  <<erasure'.leads, erasure'.returned, erasure'.campaigns, erasure'.messages>>
  = <<erasure.leads, erasure.returned, erasure.campaigns, erasure.messages>>

Goes(pc, called, removed) ==
  /\ DOMAIN erasure' = DOMAIN erasure /\ KeptData /\ erasure'.n = erasure.n
  /\ erasure'.pc = pc /\ erasure'.called = called /\ erasure'.removed = removed

ErasureMoves ==
  \/ Written
  \/ Started
  \/ EraseAudit /\ Goes(erasure.pc, TRUE, erasure.removed)
  \/ (EraseMessages \/ EraseCampaigns \/ EraseLeads) /\ Goes(erasure.pc, TRUE, TRUE)
  \/ /\ EraseNext
     /\ \/ erasure.pc = "audit" /\ Goes("messages", FALSE, erasure.removed)
        \/ erasure.pc = "messages" /\ Goes("campaigns", FALSE, erasure.removed)
        \/ erasure.pc = "campaigns" /\ Goes("leads", FALSE, erasure.removed)
        \/ erasure.pc = "leads" /\ Goes("deleted", FALSE, erasure.removed)
  \/ EraseFails /\ Goes(AfterFailure, erasure.called, erasure.removed)

(* Every step makes one of these moves. *)
LEMMA ErasureStep ==
  ASSUME DOMAIN erasure = {"n", "pc", "called", "removed", "leads", "returned", "campaigns", "messages"}, [Next]_vars
  PROVE  ErasureMoves
<1>1. ASSUME NEW file, NEW mapped, Upload(file, mapped) PROVE Written
  <2> DEFINE rows == Imported(file, mapped)
  <2>1. /\ erasure' = [erasure EXCEPT !.leads = @ \ DOMAIN rows]
        /\ DOMAIN leads' = DOMAIN leads \cup DOMAIN rows
        /\ audits' = audits /\ purges' = purges
    BY <1>1 DEF Upload
  <2> HIDE DEF rows
  <2> QED BY <2>1 DEF Written
<1>2. ASSUME NEW w, NEW done, WriteBack(w, done) PROVE Written
  <2>1. /\ DOMAIN leads' = DOMAIN leads \cup done
        /\ erasure' = [erasure EXCEPT !.returned = @ \cup (done \ DOMAIN leads)]
        /\ audits' = audits /\ purges' = purges
    BY <1>2 DEF WriteBack
  <2> QED BY <2>1 DEF Written
<1>3. CASE /\ UNCHANGED <<erasure, audits>> /\ (purges' = purges \/ Purge)
           /\ DOMAIN leads' \subseteq DOMAIN leads
  BY <1>3 DEF Written, ErasureMoves
<1>9. ASSUME NEW keys, DeleteLeads(keys) PROVE DOMAIN leads' \subseteq DOMAIN leads
  BY <1>9 DEF DeleteLeads
<1>4. EraseStart => Started
  BY DEF EraseStart, Started
<1>5. EraseAudit => Goes(erasure.pc, TRUE, erasure.removed)
  BY DEF EraseAudit, Goes, KeptData
<1>6. ASSUME NEW table, Deleting(table) PROVE Goes(erasure.pc, TRUE, TRUE)
  BY <1>6 DEF Deleting, Goes, KeptData
<1>7. ASSUME EraseNext
      PROVE  \/ erasure.pc = "audit" /\ Goes("messages", FALSE, erasure.removed)
             \/ erasure.pc = "messages" /\ Goes("campaigns", FALSE, erasure.removed)
             \/ erasure.pc = "campaigns" /\ Goes("leads", FALSE, erasure.removed)
             \/ erasure.pc = "leads" /\ Goes("deleted", FALSE, erasure.removed)
  <2>1. PICK i \in 1..4 : erasure.pc = Steps[i] /\ erasure' = [erasure EXCEPT !.pc = Steps[i + 1], !.called = FALSE]
    BY <1>7 DEF EraseNext
  <2>2. Goes(Steps[i + 1], FALSE, erasure.removed)
    BY <2>1 DEF Goes, KeptData
  <2>3. i = 1 \/ i = 2 \/ i = 3 \/ i = 4
    BY <2>1
  <2> HIDE DEF Steps
  <2>4. \/ erasure.pc = "audit" /\ Steps[i + 1] = "messages"
        \/ erasure.pc = "messages" /\ Steps[i + 1] = "campaigns"
        \/ erasure.pc = "campaigns" /\ Steps[i + 1] = "leads"
        \/ erasure.pc = "leads" /\ Steps[i + 1] = "deleted"
    BY <2>1, <2>3, StepsOf
  <2> QED BY <2>2, <2>4
<1>8. EraseFails => Goes(AfterFailure, erasure.called, erasure.removed)
  BY DEF EraseFails, Goes, KeptData
<1> QED BY <1>1, <1>2, <1>3, <1>4, <1>5, <1>6, <1>7, <1>8, <1>9
        DEF ErasureMoves, Next, LeadStep, CampaignStep, EraseStep, UnsubStep, vars, tables, rowVars,
            FetchChunk, ClearLeads, DemoStart, DemoMessages, DemoLeads, CreateCampaign, GenerateCampaign, SetStatus, GenerateLeads,
            GenerateInsert, GenerateUpdate, GenerateFails, EraseMessages,
            EraseCampaigns, EraseLeads, UnsubStart, UnsubMessage, UnsubLead,
            UnsubAdd, UnsubFails
-----------------------------------------------------------------------------
(* The audit row is written before anything is removed. *)
LEMMA EraseControlNext == EraseControl /\ [Next]_vars => EraseControl'
<1> SUFFICES ASSUME EraseControl, [Next]_vars PROVE EraseControl'
  OBVIOUS
<1> DEFINE pcs == {"idle", "audit", "messages", "campaigns", "leads", "deleted", "aborted", "failed"}
           past == {"messages", "campaigns", "leads", "deleted"}
<1>0. MaxPurges \in Nat
  BY CampaignsAssumption
<1>1. /\ DOMAIN erasure = {"n", "pc", "called", "removed", "leads", "returned", "campaigns", "messages"}
      /\ erasure.pc \in pcs /\ purges \in 0..MaxPurges /\ audits \subseteq 1..purges
      /\ erasure.n \in 0..purges /\ (erasure.pc # "idle" => erasure.n # 0)
      /\ erasure.pc \in {"idle", "audit", "aborted"} => ~ erasure.removed
      /\ erasure.removed \/ erasure.pc \in past \/ (erasure.pc = "audit" /\ erasure.called)
           => erasure.n \in audits
  BY DEF EraseControl
<1>2. ErasureMoves
  BY <1>1, ErasureStep
<1>3. ASSUME Written \/ EraseAudit \/ EraseMessages \/ EraseCampaigns \/ EraseLeads \/ EraseNext \/ EraseFails
      PROVE  purges' \in 0..MaxPurges /\ purges' >= purges
  <2>1. purges' = purges \/ Purge
    BY <1>3 DEF Written, EraseAudit, EraseMessages, EraseCampaigns, EraseLeads, Deleting, EraseNext, EraseFails
  <2> QED BY <1>0, <1>1, <2>1 DEF Purge
<1>4. CASE Written
  BY <1>0, <1>1, <1>3, <1>4 DEF Written, EraseControl
<1>5. CASE Started
  <2>1. purges < MaxPurges /\ purges' = purges + 1 /\ audits' = audits
    BY <1>5 DEF Started, EraseStart, Purge
  <2> QED BY <1>0, <1>1, <1>5, <2>1 DEF Started, EraseControl
<1>6. ASSUME EraseAudit, Goes(erasure.pc, TRUE, erasure.removed) PROVE EraseControl'
  <2>1. erasure.pc = "audit" /\ audits' = audits \cup {erasure.n} /\ purges' = purges
    BY <1>6 DEF EraseAudit
  <2>2. erasure.n \in 1..purges
    BY <1>0, <1>1, <2>1
  <2>3. audits' \subseteq 1..purges' /\ erasure.n \in audits'
    BY <1>1, <2>1, <2>2
  <2>4. /\ DOMAIN erasure' = DOMAIN erasure /\ erasure'.n = erasure.n /\ erasure'.pc = "audit"
        /\ erasure'.removed = erasure.removed
    BY <1>6, <2>1 DEF Goes
  <2> QED BY <1>1, <2>1, <2>2, <2>3, <2>4 DEF EraseControl
<1>7. ASSUME EraseMessages \/ EraseCampaigns \/ EraseLeads, Goes(erasure.pc, TRUE, TRUE) PROVE EraseControl'
  <2>1. erasure.pc \in {"messages", "campaigns", "leads"} /\ audits' = audits /\ purges' = purges
    BY <1>7 DEF EraseMessages, EraseCampaigns, EraseLeads, Deleting
  <2> QED BY <1>0, <1>1, <1>7, <2>1 DEF Goes, EraseControl
<1>8. ASSUME EraseNext, NEW next \in {"messages", "campaigns", "leads", "deleted"},
             erasure.pc \in {"messages", "campaigns", "leads"} \/ erasure.pc = "audit",
             Goes(next, FALSE, erasure.removed)
      PROVE  EraseControl'
  <2>1. erasure.called /\ audits' = audits /\ purges' = purges
    BY <1>8 DEF EraseNext
  <2> QED BY <1>0, <1>1, <1>8, <2>1 DEF Goes, EraseControl
<1>9. ASSUME EraseFails, Goes(AfterFailure, erasure.called, erasure.removed) PROVE EraseControl'
  <2>1. erasure.pc \in {"audit", "messages", "campaigns", "leads"} /\ audits' = audits /\ purges' = purges
    BY <1>9 DEF EraseFails
  <2> QED BY <1>0, <1>1, <1>9, <2>1 DEF Goes, EraseControl, AfterFailure
<1> QED BY <1>2, <1>4, <1>5, <1>6, <1>7, <1>8, <1>9 DEF ErasureMoves

(* A message that is new is of a generation that is new, and a campaign    *)
(* that was deleted is not there again.                                    *)
LEMMA TablesAge ==
  ASSUME TablesInv, [Next]_vars
  PROVE  /\ batches \in Nat /\ batches' \in {batches, batches + 1}
         /\ \A m \in messages' : \/ \E n \in messages : n.id = m.id
                                 \/ batches' = batches + 1 /\ m.id.batch = batches + 1
         /\ \A c \in CampaignIds :
              /\ campaigns[c] = "deleted" => campaigns'[c] = "deleted"
              /\ campaigns[c] # "absent" => campaigns'[c] # "absent"
<1>1. batches \in Nat /\ campaigns \in [CampaignIds -> Status]
  BY CampaignsAssumption DEF TablesInv, GenInv
<1>2. batches' \in {batches, batches + 1}
        /\ \A m \in messages' : \/ \E n \in messages : n.id = m.id
                                \/ batches' = batches + 1 /\ m.id.batch = batches + 1
  <2>1. CASE messages' \subseteq messages /\ batches' = batches
    BY <2>1
  <2>2. ASSUME NEW keys, messages' = Detached(keys), batches' = batches
        PROVE  \A m \in messages' : \E n \in messages : n.id = m.id
    <3> SUFFICES ASSUME NEW m \in messages' PROVE \E n \in messages : n.id = m.id
      OBVIOUS
    <3>1. PICK n \in messages : m = IF n.lead \in keys THEN [n EXCEPT !.lead = NULL] ELSE n
      BY <2>2 DEF Detached
    <3>2. DOMAIN n = {"id", "campaign", "lead", "to"}
      BY DEF TablesInv, MessageInv, MessageOK
    <3> QED BY <3>1, <3>2
  <2>3. CASE GenerateInsert
    BY <2>3 DEF GenerateInsert, Insert
  <2> QED BY <2>1, <2>2, <2>3
        DEF Next, LeadStep, CampaignStep, EraseStep, UnsubStep, vars, tables, rowVars, Upload, FetchChunk, WriteBack,
            ClearLeads, DemoStart, DemoMessages, DemoLeads, DeleteLeads, CreateCampaign, GenerateCampaign, SetStatus,
            GenerateLeads, GenerateUpdate, GenerateFails, EraseStart, EraseAudit, EraseMessages, Deleting,
            EraseCampaigns, EraseLeads, EraseNext, EraseFails, UnsubStart, UnsubMessage, UnsubLead,
            UnsubAdd, UnsubFails
<1>3. ASSUME NEW c \in CampaignIds
      PROVE  /\ campaigns[c] = "deleted" => campaigns'[c] = "deleted"
             /\ campaigns[c] # "absent" => campaigns'[c] # "absent"
  <2>1. ASSUME NEW d \in CampaignIds, CreateCampaign(d) \/ (\E status \in Settings : SetStatus(d, status))
        PROVE  /\ campaigns[c] = "deleted" => campaigns'[c] = "deleted"
               /\ campaigns[c] # "absent" => campaigns'[c] # "absent"
    BY <1>1, <2>1, CampaignsAssumption DEF CreateCampaign, SetStatus, Existing
  <2>2. CASE GenerateUpdate
    BY <1>1, <2>2 DEF GenerateUpdate, Existing
  <2>3. CASE EraseCampaigns
    BY <2>3 DEF EraseCampaigns, Existing
  <2>4. CASE campaigns' = campaigns
    BY <2>4
  <2> QED BY <2>1, <2>2, <2>3, <2>4
        DEF Next, LeadStep, CampaignStep, EraseStep, UnsubStep, vars, tables, rowVars, Upload, FetchChunk, WriteBack,
            ClearLeads, DemoStart, DemoMessages, DemoLeads, GenerateCampaign, GenerateInsert,
            GenerateLeads, GenerateFails, EraseStart, EraseAudit, EraseMessages, Deleting,
            EraseLeads, EraseNext, EraseFails, UnsubStart, UnsubMessage, UnsubLead,
            UnsubAdd, UnsubFails
<1> QED BY <1>1, <1>2, <1>3

(* What a deletion has removed does not come back: ids and campaigns are   *)
(* not used again, and a lead that is written again is a new one.          *)
LEMMA EraseDataNext == TablesInv /\ EraseInv /\ [Next]_vars => EraseData'
<1> SUFFICES ASSUME TablesInv, EraseInv, [Next]_vars PROVE EraseData'
  OBVIOUS
<1>1. ErasureMoves /\ EraseData /\ MessageInv
  BY ErasureStep DEF EraseInv, EraseControl, TablesInv
<1>2. ASSUME erasure'.messages = erasure.messages, erasure'.campaigns = erasure.campaigns
      PROVE  /\ \A id \in erasure'.messages : id.batch \in 1..batches'
             /\ \A c \in erasure'.campaigns : c \in CampaignIds /\ campaigns'[c] # "absent"
             /\ MessagesGone => \A m \in messages' : m.id \notin erasure'.messages
             /\ CampaignsGone => erasure'.campaigns \cap Existing' = {}
  <2>1. batches \in Nat /\ batches' \in {batches, batches + 1}
    BY TablesAge
  <2>2. \A id \in erasure'.messages : id.batch \in 1..batches' /\ id.batch # batches + 1
    BY <1>1, <1>2, <2>1 DEF EraseData
  <2>3. MessagesGone => \A m \in messages' : m.id \notin erasure'.messages
    BY <1>1, <1>2, <2>2, TablesAge DEF EraseData
  <2>4. \A c \in erasure'.campaigns : c \in CampaignIds /\ campaigns'[c] # "absent"
    BY <1>1, <1>2, TablesAge DEF EraseData
  <2>5. CampaignsGone => erasure'.campaigns \cap Existing' = {}
    BY <1>1, <1>2, TablesAge DEF EraseData, Existing
  <2> QED BY <2>2, <2>3, <2>4, <2>5
<1>3. CASE Written
  <2>1. /\ MessagesGone' = MessagesGone /\ CampaignsGone' = CampaignsGone /\ LeadsGone' = LeadsGone
        /\ erasure'.messages = erasure.messages /\ erasure'.campaigns = erasure.campaigns
    BY <1>3 DEF Written, MessagesGone, CampaignsGone, LeadsGone
  <2>2. LeadsGone => erasure'.leads \cap DOMAIN leads' \subseteq erasure'.returned
    BY <1>1, <1>3 DEF Written, EraseData
  <2> QED BY <1>2, <2>1, <2>2 DEF EraseData
<1>4. CASE Started
  <2>1. ~ MessagesGone' /\ ~ CampaignsGone' /\ ~ LeadsGone'
    BY <1>4 DEF Started, MessagesGone, CampaignsGone, LeadsGone
  <2>2. \A m \in messages : m.id.batch \in 1..batches
    BY <1>1 DEF MessageInv, MessageOK
  <2>3. batches' = batches /\ campaigns' = campaigns
    BY <1>4 DEF Started, EraseStart, tables
  <2> QED BY <1>4, <2>1, <2>2, <2>3 DEF Started, Existing, EraseData
<1>5. ASSUME NEW pc, NEW called, NEW removed, Goes(pc, called, removed),
             MessagesGone' => MessagesGone \/ messages' = {},
             CampaignsGone' => CampaignsGone \/ Existing' = {},
             LeadsGone' => (LeadsGone /\ leads' = leads) \/ DOMAIN leads' = {}
      PROVE  EraseData'
  <2>1. /\ erasure'.messages = erasure.messages /\ erasure'.campaigns = erasure.campaigns
        /\ erasure'.leads = erasure.leads /\ erasure'.returned = erasure.returned
    BY <1>5 DEF Goes, KeptData
  <2> QED BY <1>1, <1>2, <1>5, <2>1 DEF EraseData
<1>6. ASSUME EraseAudit, Goes(erasure.pc, TRUE, erasure.removed) PROVE EraseData'
  <2>1. ~ MessagesGone' /\ ~ CampaignsGone' /\ ~ LeadsGone'
    BY <1>6 DEF EraseAudit, Goes, MessagesGone, CampaignsGone, LeadsGone
  <2> QED BY <1>5, <1>6, <2>1
<1>7. ASSUME EraseMessages, Goes(erasure.pc, TRUE, TRUE) PROVE EraseData'
  <2>1. messages' = {} /\ ~ CampaignsGone' /\ ~ LeadsGone'
    BY <1>7 DEF EraseMessages, Deleting, Goes, CampaignsGone, LeadsGone
  <2> QED BY <1>5, <1>7, <2>1
<1>8. ASSUME EraseCampaigns, Goes(erasure.pc, TRUE, TRUE) PROVE EraseData'
  <2>1. messages' = {} /\ ~ LeadsGone'
    BY <1>8 DEF EraseCampaigns, Deleting, Goes, LeadsGone
  <2>2. Existing' = {}
    <3>1. \A c \in CampaignIds : campaigns'[c] \in {"absent", "deleted"}
      BY <1>8 DEF EraseCampaigns, Existing
    <3> QED BY <3>1 DEF Existing
  <2> QED BY <1>5, <1>8, <2>1, <2>2
<1>9. ASSUME EraseLeads, Goes(erasure.pc, TRUE, TRUE) PROVE EraseData'
  <2>1. erasure.pc = "leads" /\ MessagesGone /\ CampaignsGone
    BY <1>9 DEF EraseLeads, Deleting, MessagesGone, CampaignsGone
  <2>2. DOMAIN leads' = {}
    BY <1>9 DEF EraseLeads, DeleteLeads
  <2> QED BY <1>5, <1>9, <2>1, <2>2
<1>10. ASSUME EraseNext, NEW next, Goes(next, FALSE, erasure.removed),
              \/ erasure.pc = "audit" /\ next = "messages"
              \/ erasure.pc = "messages" /\ next = "campaigns"
              \/ erasure.pc = "campaigns" /\ next = "leads"
              \/ erasure.pc = "leads" /\ next = "deleted"
       PROVE  EraseData'
  <2>1. erasure.called /\ leads' = leads
    BY <1>10 DEF EraseNext, tables
  <2>2. (MessagesGone' => MessagesGone) /\ (CampaignsGone' => CampaignsGone) /\ (LeadsGone' => LeadsGone)
    BY <1>10, <2>1 DEF Goes, MessagesGone, CampaignsGone, LeadsGone
  <2> QED BY <1>5, <1>10, <2>1, <2>2
<1>11. ASSUME EraseFails, Goes(AfterFailure, erasure.called, erasure.removed) PROVE EraseData'
  <2>1. ~ MessagesGone' /\ ~ CampaignsGone' /\ ~ LeadsGone'
    BY <1>11 DEF Goes, AfterFailure, MessagesGone, CampaignsGone, LeadsGone
  <2> QED BY <1>5, <1>11, <2>1
<1> QED BY <1>1, <1>3, <1>4, <1>6, <1>7, <1>8, <1>9, <1>10, <1>11 DEF ErasureMoves

(* Both parts of the invariant of an erasure. *)
LEMMA EraseInvNext == TablesInv /\ EraseInv /\ [Next]_vars => EraseInv'
BY EraseControlNext, EraseDataNext DEF EraseInv
-----------------------------------------------------------------------------
(* An unsubscription: the lead that it looks up is the one that the text   *)
(* was made of, and so is the address that it finds there, if the key      *)
(* names the address.                                                      *)
UnsubInv ==
  /\ DOMAIN unsub = {"pc", "id", "to", "lead", "found"}
  /\ unsub.pc \in {"idle", "message", "lead", "add", "success", "refused"}
  /\ unsub.pc # "idle" => Names(unsub.id.key, unsub.to)
  /\ unsub.pc = "lead" => unsub.lead = unsub.id.key
  /\ unsub.pc \in {"message", "lead"} => unsub.found = NULL
  /\ unsub.pc = "add" => unsub.found \in Emails
  /\ unsub.pc = "success" => unsub.found \in suppressed \cup {NULL}
  /\ unsub.pc \in {"add", "success"} =>
       unsub.found = NULL \/ Names(unsub.id.key, unsub.found)
  /\ suppressed \subseteq Emails

(* Nobody has followed a link. *)
LEMMA UnsubInvInit == Init => UnsubInv
<1> SUFFICES ASSUME Init PROVE UnsubInv
  OBVIOUS
<1>1. unsub = [pc |-> "idle", id |-> NULL, to |-> NULL, lead |-> NULL, found |-> NULL] /\ suppressed = {}
  BY DEF Init, Nobody
<1> QED BY <1>1 DEF UnsubInv

(* What the link leads to is what the table of the leads has. *)
LEMMA UnsubInvNext == TablesInv /\ UnsubInv /\ [Next]_vars => UnsubInv'
<1> SUFFICES ASSUME TablesInv, UnsubInv, [Next]_vars PROVE UnsubInv'
  OBVIOUS
<1>0. /\ DOMAIN unsub = {"pc", "id", "to", "lead", "found"}
      /\ \A key, email : Names(key, email) => Names(key, email)'
  BY NamesStay DEF UnsubInv
<1>1. CASE UnsubStart
  <2>1. PICK m \in messages : unsub' = [Nobody EXCEPT !.pc = "message", !.id = m.id, !.to = m.to]
    BY <1>1 DEF UnsubStart
  <2>2. /\ DOMAIN unsub' = {"pc", "id", "to", "lead", "found"} /\ unsub'.pc = "message"
        /\ unsub'.id = m.id /\ unsub'.to = m.to /\ unsub'.found = NULL
    BY <2>1 DEF Nobody
  <2>3. Names(m.id.key, m.to)
    BY DEF TablesInv, MessageInv, MessageOK
  <2>4. suppressed' = suppressed /\ suppressed \subseteq Emails
    BY <1>1 DEF UnsubStart, tables, UnsubInv
  <2> QED BY <1>0, <2>2, <2>3, <2>4 DEF UnsubInv
<1>2. CASE UnsubMessage
  <2> DEFINE rows == {m \in messages : m.id = unsub.id /\ m.lead # NULL}
             lead == (CHOOSE m \in rows : TRUE).lead
  <2>1. /\ unsub.pc = "message" /\ suppressed' = suppressed
        /\ unsub' = IF rows = {} THEN [unsub EXCEPT !.pc = "success"]
                    ELSE [unsub EXCEPT !.pc = "lead", !.lead = lead]
    BY <1>2 DEF UnsubMessage, tables
  <2>2. rows # {} => lead = unsub.id.key
    <3> SUFFICES ASSUME rows # {} PROVE lead = unsub.id.key
      OBVIOUS
    <3>1. PICK m \in rows : m = (CHOOSE n \in rows : TRUE)
      OBVIOUS
    <3> QED BY <3>1 DEF TablesInv, MessageInv, MessageOK
  <2> HIDE DEF rows, lead
  <2>3. /\ DOMAIN unsub' = DOMAIN unsub /\ unsub'.id = unsub.id /\ unsub'.to = unsub.to
        /\ unsub'.found = unsub.found
    <3>1. CASE rows = {}
      BY <1>0, <2>1, <3>1
    <3>2. CASE rows # {}
      BY <1>0, <2>1, <3>2
    <3> QED BY <3>1, <3>2
  <2>4. unsub'.pc = "success" \/ (unsub'.pc = "lead" /\ unsub'.lead = unsub.id.key)
    BY <1>0, <2>1, <2>2
  <2> QED BY <1>0, <2>1, <2>3, <2>4 DEF UnsubInv
<1>3. CASE UnsubLead
  <2> DEFINE email == IF unsub.lead \in DOMAIN leads THEN leads[unsub.lead].email ELSE NULL
  <2>1. /\ unsub.pc = "lead" /\ suppressed' = suppressed
        /\ unsub' = IF email = NULL THEN [unsub EXCEPT !.pc = "success"]
                    ELSE [unsub EXCEPT !.pc = "add", !.found = email]
    BY <1>3 DEF UnsubLead, tables
  <2>2. email # NULL => email \in Emails /\ Names(unsub.id.key, email)
    BY <2>1 DEF UnsubInv, TablesInv, LeadInv, RowOK
  <2> HIDE DEF email
  <2>3. DOMAIN unsub' = DOMAIN unsub /\ unsub'.id = unsub.id /\ unsub'.to = unsub.to
    <3>1. CASE email = NULL
      BY <1>0, <2>1, <3>1
    <3>2. CASE email # NULL
      BY <1>0, <2>1, <3>2
    <3> QED BY <3>1, <3>2
  <2>4. \/ unsub'.pc = "success" /\ unsub'.found = unsub.found
        \/ unsub'.pc = "add" /\ unsub'.found = email /\ email # NULL
    BY <1>0, <2>1
  <2> QED BY <1>0, <2>1, <2>2, <2>3, <2>4 DEF UnsubInv
<1>4. CASE UnsubAdd
  <2>1. /\ unsub.pc = "add" /\ suppressed' = suppressed \cup {unsub.found}
        /\ unsub' = [unsub EXCEPT !.pc = "success"]
    BY <1>4 DEF UnsubAdd
  <2>2. /\ DOMAIN unsub' = DOMAIN unsub /\ unsub'.id = unsub.id /\ unsub'.to = unsub.to
        /\ unsub'.found = unsub.found /\ unsub'.pc = "success"
    BY <1>0, <2>1
  <2> QED BY <1>0, <2>1, <2>2 DEF UnsubInv
<1>5. CASE UnsubFails
  <2>1. /\ unsub.pc \in {"message", "lead", "add"} /\ suppressed' = suppressed
        /\ unsub' = [unsub EXCEPT !.pc = Outcome]
    BY <1>5 DEF UnsubFails, tables
  <2>2. /\ DOMAIN unsub' = DOMAIN unsub /\ unsub'.id = unsub.id /\ unsub'.to = unsub.to
        /\ unsub'.found = unsub.found /\ unsub'.pc = Outcome
    BY <1>0, <2>1
  <2> QED BY <1>0, <2>1, <2>2 DEF UnsubInv, Outcome
<1>6. CASE UNCHANGED <<unsub, suppressed>>
  BY <1>0, <1>6 DEF UnsubInv
<1> QED BY <1>1, <1>2, <1>3, <1>4, <1>5, <1>6
        DEF Next, LeadStep, CampaignStep, EraseStep, UnsubStep, vars, tables, rowVars, Upload, FetchChunk, WriteBack,
            ClearLeads, DemoStart, DemoMessages, DemoLeads, CreateCampaign, GenerateCampaign, SetStatus,
            GenerateLeads, GenerateInsert, GenerateUpdate, GenerateFails, EraseStart, EraseAudit, EraseMessages,
            EraseCampaigns, EraseLeads, Deleting, EraseNext, EraseFails

(* The demo leads that are being deleted are demo leads. *)
DemoInv ==
  /\ DOMAIN demo = {"pc", "keys"} /\ demo.pc \in {"idle", "messages", "leads"}
  /\ demo.keys \subseteq Seeds

(* No demo lead is being deleted. *)
LEMMA DemoInvInit == Init => DemoInv
BY DEF Init, DemoInv

(* Only the leads of the seed are. *)
LEMMA DemoInvNext == DemoInv /\ [Next]_vars => DemoInv'
<1> SUFFICES ASSUME DemoInv, [Next]_vars PROVE DemoInv'
  OBVIOUS
<1>1. CASE DemoStart
  BY <1>1 DEF DemoStart, DemoInv
<1>2. CASE DemoMessages
  BY <1>2 DEF DemoMessages, DemoInv
<1>3. CASE DemoLeads
  BY <1>3 DEF DemoLeads, DemoInv
<1>4. CASE UNCHANGED demo
  BY <1>4 DEF DemoInv
<1> QED BY <1>1, <1>2, <1>3, <1>4
        DEF Next, LeadStep, CampaignStep, EraseStep, UnsubStep, vars, tables, rowVars, Upload, FetchChunk, WriteBack,
            ClearLeads, CreateCampaign, GenerateCampaign, SetStatus,
            GenerateLeads, GenerateInsert, GenerateUpdate, GenerateFails, EraseStart, EraseAudit, EraseMessages,
            EraseCampaigns, EraseLeads, Deleting, EraseNext, EraseFails, UnsubStart, UnsubMessage, UnsubLead,
            UnsubAdd, UnsubFails
-----------------------------------------------------------------------------
CampaignsInv == TablesInv /\ EraseInv /\ UnsubInv /\ DemoInv

(* All parts hold together in every state. *)
LEMMA CampaignsInvariant == Spec => []CampaignsInv
<1>1. Init => CampaignsInv
  BY TablesInvInit, EraseInvInit, UnsubInvInit, DemoInvInit DEF CampaignsInv
<1>2. CampaignsInv /\ [Next]_vars => CampaignsInv'
  BY LeadInvNext, GenInvNext, MessageInvNext, EraseInvNext, UnsubInvNext, DemoInvNext
     DEF CampaignsInv, TablesInv
<1> QED BY <1>1, <1>2, PTL DEF Spec

(* Of every state: the statuses are statuses, the progress of each request *)
(* is one of its steps, and a generated message is of a campaign that      *)
(* exists and of a lead that does, or of none (the foreign keys and their  *)
(* ON DELETE clauses).                                                     *)
THEOREM CampaignTypes == Spec => []TypeOK
<1>1. CampaignsInv => TypeOK
  <2> SUFFICES ASSUME CampaignsInv PROVE TypeOK
    OBVIOUS
  <2>1. /\ \A k \in DOMAIN leads : leads[k].email \in Emails \cup {NULL}
        /\ \A w \in Workers : \A k \in DOMAIN held[w] : held[w][k].email \in Emails \cup {NULL}
    BY DEF CampaignsInv, TablesInv, LeadInv, RowOK
  <2>2. /\ campaigns \in [CampaignIds -> Status] /\ batches \in 0..MaxBatches
        /\ gen.pc \in {"idle", "leads", "insert", "update"}
    BY DEF CampaignsInv, TablesInv, GenInv
  <2>3. \A m \in messages : m.campaign \in Existing /\ m.lead \in DOMAIN leads \cup {NULL}
    BY DEF CampaignsInv, TablesInv, MessageInv, MessageOK
  <2>4. /\ suppressed \subseteq Emails
        /\ unsub.pc \in {"idle", "message", "lead", "add", "success", "refused"}
    BY DEF CampaignsInv, UnsubInv
  <2>5. /\ purges \in 0..MaxPurges /\ erasure.n \in 0..purges /\ audits \subseteq 1..purges
        /\ erasure.pc \in {"idle", "audit", "messages", "campaigns", "leads", "deleted", "aborted", "failed"}
    BY DEF CampaignsInv, EraseInv, EraseControl
  <2>6. {"audit", "messages", "campaigns", "leads", "deleted"} \subseteq Range(Steps)
    <3> HIDE DEF Steps
    <3> QED BY StepsOf DEF Range
  <2>7. demo.pc \in {"idle", "messages", "leads"} /\ demo.keys \subseteq Seeds
    BY DEF CampaignsInv, DemoInv
  <2> HIDE DEF Steps
  <2> QED BY <2>1, <2>2, <2>3, <2>4, <2>5, <2>6, <2>7 DEF TypeOK
<1> QED BY <1>1, CampaignsInvariant, PTL

(* A text goes to the address that it was made for, whatever was uploaded, *)
(* fetched, deleted, uploaded again and written back since it was made,    *)
(* if every file that brought its lead made the key of the website and the *)
(* stored address, and keys can be read in one way.                        *)
THEOREM LettersFindAddressee == Unambiguous /\ Spec => []LettersKeepAddressee
<1> SUFFICES ASSUME Unambiguous PROVE Spec => []LettersKeepAddressee
  OBVIOUS
<1>1. CampaignsInv => LettersKeepAddressee
  <2> SUFFICES ASSUME CampaignsInv, NEW m \in messages, m.lead # NULL, m.lead \notin misnamed
               PROVE  leads[m.lead].email = m.to
    BY DEF LettersKeepAddressee
  <2>1. MessageOK(m) /\ LeadInv
    BY DEF CampaignsInv, TablesInv, MessageInv
  <2>2. m.lead = m.id.key /\ Names(m.id.key, m.to) /\ m.lead \in DOMAIN leads
    BY <2>1 DEF MessageOK
  <2>3. Fits(m.lead, m.to) /\ Fits(m.lead, leads[m.lead].email)
    BY <2>1, <2>2 DEF LeadInv, RowOK, Names
  <2> QED BY <2>3 DEF Fits, Unambiguous
<1> QED BY <1>1, CampaignsInvariant, PTL

(* What delete_operator_account answers is so, with uploads, write-backs,  *)
(* generations and other deletions between any two of its statements, and  *)
(* a failure of any of them.                                               *)
THEOREM ErasuresAnswerTrue == Spec => []ErasureAnswersTrue
<1>1. CampaignsInv => ErasureAnswersTrue
  <2> SUFFICES ASSUME CampaignsInv PROVE ErasureAnswersTrue
    OBVIOUS
  <2>1. EraseControl /\ EraseData
    BY DEF CampaignsInv, EraseInv
  <2>2. \A m \in messages : m.campaign \in Existing
    BY DEF CampaignsInv, TablesInv, MessageInv, MessageOK
  <2>3. erasure.pc = "deleted" => MessagesGone /\ CampaignsGone /\ LeadsGone
    BY DEF MessagesGone, CampaignsGone, LeadsGone
  <2>4. erasure.pc = "deleted" =>
          /\ erasure.leads \cap DOMAIN leads \subseteq erasure.returned /\ erasure.campaigns \cap Existing = {}
          /\ \A m \in messages : m.id \notin erasure.messages
    BY <2>1, <2>3 DEF EraseData
  <2>5. erasure.pc = "deleted" => \A m \in messages : m.campaign \notin erasure.campaigns
    BY <2>2, <2>4
  <2>6. (erasure.pc = "aborted" => ~ erasure.removed) /\ (erasure.removed => erasure.n \in audits)
    BY <2>1 DEF EraseControl
  <2> QED BY <2>4, <2>5, <2>6 DEF ErasureAnswersTrue
<1> QED BY <1>1, CampaignsInvariant, PTL

(* Whoever is told that they are unsubscribed is, unless the link leads to *)
(* no address, or a file has brought another address under the lead's key: *)
(* whatever becomes of the message, the lead and the campaign between two  *)
(* look-ups.  Keys can be read in one way.                                 *)
THEOREM UnsubscribesReach == Unambiguous /\ Spec => []UnsubscribeReaches
<1> SUFFICES ASSUME Unambiguous PROVE Spec => []UnsubscribeReaches
  OBVIOUS
<1>1. CampaignsInv => UnsubscribeReaches
  <2> SUFFICES ASSUME CampaignsInv, unsub.pc = "success", unsub.found # NULL,
                      unsub.id.key \notin misnamed
               PROVE  unsub.to \in suppressed
    BY DEF UnsubscribeReaches
  <2>1. /\ Names(unsub.id.key, unsub.to) /\ Names(unsub.id.key, unsub.found)
        /\ unsub.found \in suppressed
    BY DEF CampaignsInv, UnsubInv
  <2>2. Fits(unsub.id.key, unsub.to) /\ Fits(unsub.id.key, unsub.found)
    BY <2>1 DEF Names
  <2>3. unsub.to = unsub.found
    BY <2>2 DEF Fits, Unambiguous
  <2> QED BY <2>1, <2>3
<1> QED BY <1>1, CampaignsInvariant, PTL
=============================================================================
