------------------------------- MODULE Campaigns -------------------------------
(***************************************************************************)
(* The operator's data: leads that are uploaded and deleted, campaigns,    *)
(* the messages generated from the leads, the unsubscribe links that these *)
(* messages carry, and the erasure of the account.  The handlers of the    *)
(* campaigns, and the workers of jobs, call the database on the event      *)
(* loop, which does nothing else meanwhile; an upload, a deletion of demo  *)
(* leads, and every statement of an erasure or of an unsubscription run in *)
(* threads.                                                                *)
(***************************************************************************)
EXTENDS CsvImport, FiniteSets

CONSTANTS
  CampaignIds,   \* numbers, handed out in order
  Settings,      \* the statuses that an operator asks for: "active", "paused"
  Seeds,         \* the keys of the demo leads
  Emails,        \* addresses
  Workers,       \* the workers of jobs
  Chunks,        \* the sets of keys that a worker may ask for
  Published,     \* the addresses that the websites and a search show
  MaxBatches,    \* the bound on the generations of messages
  MaxPurges,     \* the bound on the deletions: of all leads, the demo leads, the account
  FaultKinds     \* the statements that may fail: one of them, once

ASSUME CampaignsAssumption ==
  /\ CampaignIds \subseteq Nat /\ {MaxBatches, MaxPurges} \subseteq Nat /\ NULL \notin Emails
  /\ Published \subseteq Emails /\ Settings \subseteq {"active", "paused"}
  /\ \A file \in Files :
       /\ \A i \in DOMAIN file.rows : {file.rows[i].email, file.rows[i].mail} \subseteq Emails \cup {NULL}
       /\ Range(KeysOf(file)) \cap Seeds = {}   \* exports leave out the demo leads

VARIABLES
  leads,         \* leads table: a function on the keys that are there
  held,          \* the rows that each worker has fetched
  misnamed,      \* the keys that do not name the address of every lead they had
  campaigns,     \* campaigns.status
  messages,      \* campaign_messages
  suppressed,    \* the addresses of suppressions, channel 'all'
  gen,           \* generate_campaign_messages
  batches,       \* the generations so far
  erasure,       \* delete_operator_account
  audits,        \* account_deletions: the erasures that have a row
  purges,        \* the deletions so far
  demo,          \* SupabaseHelper.delete_demo_leads
  unsub,         \* _suppress_from_unsubscribe_token
  faults

vars == <<leads, held, misnamed, campaigns, messages, suppressed, gen, batches, erasure, audits, purges,
          demo, unsub, faults>>

rowVars == <<held, misnamed>>

tables == <<leads, campaigns, messages, suppressed, held, misnamed>>

Status == {"absent", "draft", "active", "paused", "deleted"}

Existing == {c \in CampaignIds : campaigns[c] \notin {"absent", "deleted"}}

(* id stands for the message's id and its tracking_id; to is the address   *)
(* of the lead whose data the text was made of.                            *)
Referring(keys) == {m \in messages : m.lead \in keys}

Fails(kind) == kind \in FaultKinds /\ faults = {} /\ faults' = {kind}

Purge == purges < MaxPurges /\ purges' = purges + 1

(* ON DELETE SET NULL: what becomes of the messages of deleted leads.      *)
(* Mutant: a lead_unique_key without a foreign key.                        *)
Dangling(keys) == messages

Detached(keys) == {IF m.lead \in keys THEN [m EXCEPT !.lead = NULL] ELSE m : m \in messages}

DeleteLeads(keys) ==
  /\ leads' = [k \in DOMAIN leads \ keys |-> leads[k]]
  /\ messages' = Detached(keys)
-----------------------------------------------------------------------------
(* Leads.  An upsert overwrites the columns that it brings; one of the     *)
(* columns is always the address.  erasure.leads are the leads that have   *)
(* not been uploaded since the erasure began.                              *)
Upload(file, mapped) ==
  LET rows == Imported(file, mapped)
  IN  /\ Accepted(file)
      /\ leads' = [k \in DOMAIN leads \cup DOMAIN rows |->
                    IF k \in DOMAIN rows THEN rows[k] ELSE leads[k]]
      /\ misnamed' = misnamed \cup Misnamed(file, mapped)
      /\ erasure' = [erasure EXCEPT !.leads = @ \ DOMAIN rows]
      /\ UNCHANGED <<held, campaigns, messages, suppressed, gen, batches, audits, purges, demo, unsub, faults>>

NoRows == [k \in {} |-> NULL]

(* A worker fetches rows, and writes back some of them minutes later, as   *)
(* they were but for what it has found: an audit or a hunt of a lead       *)
(* without an address takes one from its website or searches for one.  An  *)
(* upsert inserts what has been deleted meanwhile.                         *)
FetchChunk(w, chunk) ==
  /\ gen.pc = "idle" /\ held[w] = NoRows /\ chunk \cap DOMAIN leads # {}
  /\ held' = [held EXCEPT ![w] = [k \in chunk \cap DOMAIN leads |-> leads[k]]]
  /\ UNCHANGED <<leads, misnamed, campaigns, messages, suppressed, gen, batches, erasure, audits, purges, demo, unsub, faults>>

(* Mutant: what is found replaces an address. *)
AnyRow(rows) == DOMAIN rows

Unaddressed(rows) == {k \in DOMAIN rows : rows[k].email = NULL}

WriteBack(w, done) ==
  /\ gen.pc = "idle" /\ held[w] # NoRows
  /\ \E found \in [done \cap Unaddressed(held[w]) -> Published \cup {NULL}] :
       leads' = [k \in DOMAIN leads \cup done |->
                  IF k \in DOMAIN found THEN [email |-> found[k]]
                  ELSE IF k \in done THEN held[w][k] ELSE leads[k]]
  /\ held' = [held EXCEPT ![w] = NoRows]
  /\ erasure' = [erasure EXCEPT !.returned = @ \cup (done \ DOMAIN leads)]
  /\ UNCHANGED <<misnamed, campaigns, messages, suppressed, gen, batches, audits, purges, demo, unsub, faults>>

ClearLeads ==
  /\ gen.pc = "idle" /\ DOMAIN leads # {} /\ Purge
  /\ DeleteLeads(DOMAIN leads)
  /\ UNCHANGED <<rowVars, campaigns, suppressed, gen, batches, erasure, audits, demo, unsub, faults>>

(* The demo leads: their keys are read, then their messages go, then they. *)
DemoStart ==
  /\ demo.pc = "idle" /\ DOMAIN leads \cap Seeds # {} /\ Purge
  /\ demo' = [pc |-> "messages", keys |-> DOMAIN leads \cap Seeds]
  /\ UNCHANGED <<tables, gen, batches, erasure, audits, unsub, faults>>

DemoMessages ==
  /\ demo.pc = "messages"
  /\ messages' = messages \ Referring(demo.keys)
  /\ demo' = [demo EXCEPT !.pc = "leads"]
  /\ UNCHANGED <<rowVars, leads, campaigns, suppressed, gen, batches, erasure, audits, purges, unsub, faults>>

DemoLeads ==
  /\ demo.pc = "leads"
  /\ DeleteLeads(Seeds)
  /\ demo' = [pc |-> "idle", keys |-> {}]
  /\ UNCHANGED <<rowVars, campaigns, suppressed, gen, batches, erasure, audits, purges, unsub, faults>>
-----------------------------------------------------------------------------
(* Campaigns. *)
CreateCampaign(c) ==
  /\ gen.pc = "idle" /\ campaigns[c] = "absent"
  /\ \A d \in CampaignIds : d < c => campaigns[d] # "absent"
  /\ campaigns' = [campaigns EXCEPT ![c] = "draft"]
  /\ UNCHANGED <<rowVars, leads, messages, suppressed, gen, batches, erasure, audits, purges, demo, unsub, faults>>

(* start_campaign, pause_campaign. *)
SetStatus(c, status) ==
  /\ gen.pc = "idle" /\ c \in Existing
  /\ campaigns' = [campaigns EXCEPT ![c] = status]
  /\ UNCHANGED <<rowVars, leads, messages, suppressed, gen, batches, erasure, audits, purges, demo, unsub, faults>>

Reading == [pc |-> "idle", campaign |-> NULL, rows |-> {}]

(* Generating: the campaign, the leads of its channel, one insert for all  *)
(* of them, the campaign again.  The segment is left out.                  *)
GenerateCampaign(c) ==
  /\ gen.pc = "idle" /\ batches < MaxBatches /\ c \in Existing
  /\ gen' = [gen EXCEPT !.pc = "leads", !.campaign = c]
  /\ UNCHANGED <<tables, batches, erasure, audits, purges, demo, unsub, faults>>

GenerateLeads ==
  /\ gen.pc = "leads"
  /\ LET reached == {k \in DOMAIN leads : leads[k].email # NULL}
     IN  gen' = IF reached = {} THEN Reading
                ELSE [gen EXCEPT !.pc = "insert",
                                 !.rows = {[key |-> k, to |-> leads[k].email] : k \in reached}]
  /\ UNCHANGED <<tables, batches, erasure, audits, purges, demo, unsub, faults>>

(* The insert is of all the rows or, if a foreign key is gone, of none.    *)
(* Mutant: no foreign keys.                                                *)
InsertAnyway ==
  /\ messages' = messages \cup
       {[id |-> [batch |-> batches + 1, key |-> row.key], campaign |-> gen.campaign,
         lead |-> row.key, to |-> row.to] : row \in gen.rows}
  /\ batches' = batches + 1
  /\ gen' = [gen EXCEPT !.pc = "update", !.rows = {}]

Insert ==
  IF gen.campaign \in Existing /\ {row.key : row \in gen.rows} \subseteq DOMAIN leads
  THEN /\ messages' = messages \cup
            {[id |-> [batch |-> batches + 1, key |-> row.key], campaign |-> gen.campaign,
              lead |-> row.key, to |-> row.to] : row \in gen.rows}
       /\ batches' = batches + 1
       /\ gen' = [gen EXCEPT !.pc = "update", !.rows = {}]
  ELSE gen' = Reading /\ UNCHANGED <<messages, batches>>

GenerateInsert ==
  /\ gen.pc = "insert" /\ Insert
  /\ UNCHANGED <<rowVars, leads, campaigns, suppressed, erasure, audits, purges, demo, unsub, faults>>

GenerateUpdate ==
  /\ gen.pc = "update"
  /\ campaigns' = IF gen.campaign \in Existing THEN [campaigns EXCEPT ![gen.campaign] = "draft"]
                  ELSE campaigns
  /\ gen' = Reading
  /\ UNCHANGED <<rowVars, leads, messages, suppressed, batches, erasure, audits, purges, demo, unsub, faults>>

GenerateFails ==
  /\ gen.pc # "idle" /\ Fails("generate")
  /\ gen' = Reading
  /\ UNCHANGED <<tables, batches, erasure, audits, purges, demo, unsub>>
-----------------------------------------------------------------------------
(* The erasure: an audit row, then the deletions, each called by a thread  *)
(* and followed up when the loop is free.  What was there when it began,   *)
(* and has not been written since, is what it is about.                    *)
Steps == <<"audit", "messages", "campaigns", "leads", "deleted">>

EraseStart ==
  /\ gen.pc = "idle" /\ erasure.pc \in {"idle", "aborted", "failed"} /\ Purge
  /\ erasure' = [n |-> purges + 1, pc |-> "audit", called |-> FALSE, removed |-> FALSE,
                 leads |-> DOMAIN leads, returned |-> {}, campaigns |-> Existing,
                 messages |-> {m.id : m \in messages}]
  /\ UNCHANGED <<tables, gen, batches, audits, demo, unsub, faults>>

EraseAudit ==
  /\ erasure.pc = "audit" /\ ~erasure.called
  /\ audits' = audits \cup {erasure.n}
  /\ erasure' = [erasure EXCEPT !.called = TRUE]
  /\ UNCHANGED <<tables, gen, batches, purges, demo, unsub, faults>>

Deleting(table) ==
  /\ erasure.pc = table /\ ~erasure.called
  /\ erasure' = [erasure EXCEPT !.called = TRUE, !.removed = TRUE]
  /\ UNCHANGED <<rowVars, suppressed, gen, batches, audits, purges, demo, unsub, faults>>

EraseMessages == Deleting("messages") /\ messages' = {} /\ UNCHANGED <<leads, campaigns>>

(* ON DELETE CASCADE. *)
EraseCampaigns ==
  /\ Deleting("campaigns")
  /\ campaigns' = [c \in CampaignIds |-> IF c \in Existing THEN "deleted" ELSE campaigns[c]]
  /\ messages' = {}
  /\ UNCHANGED leads

EraseLeads == Deleting("leads") /\ DeleteLeads(DOMAIN leads) /\ UNCHANGED campaigns

EraseNext ==
  /\ gen.pc = "idle" /\ erasure.called
  /\ \E i \in 1..4 :
       /\ erasure.pc = Steps[i]
       /\ erasure' = [erasure EXCEPT !.pc = Steps[i + 1], !.called = FALSE]
  /\ UNCHANGED <<tables, gen, batches, audits, purges, demo, unsub, faults>>

(* A statement fails, or its answer is lost.  Nothing is removed when the  *)
(* audit row cannot be written; a deletion that fails ends the request.    *)
AfterFailure == IF erasure.pc = "audit" THEN "aborted" ELSE "failed"

EraseFails ==
  /\ gen.pc = "idle" /\ erasure.pc \in {"audit", "messages", "campaigns", "leads"}
  /\ Fails("erase")
  /\ erasure' = [erasure EXCEPT !.pc = AfterFailure]
  /\ UNCHANGED <<tables, gen, batches, audits, purges, demo, unsub>>
-----------------------------------------------------------------------------
(* The unsubscription, of one recipient whose mail carried a link (those   *)
(* of others add to the suppressions only).  The token stays valid when    *)
(* its message is gone.  found is the address that the look-ups lead to.   *)
Nobody == [pc |-> "idle", id |-> NULL, to |-> NULL, lead |-> NULL, found |-> NULL]

UnsubStart ==
  /\ gen.pc = "idle" /\ unsub.pc = "idle"
  /\ \E m \in messages : unsub' = [Nobody EXCEPT !.pc = "message", !.id = m.id, !.to = m.to]
  /\ UNCHANGED <<tables, gen, batches, erasure, audits, purges, demo, faults>>

UnsubMessage ==
  /\ gen.pc = "idle" /\ unsub.pc = "message"
  /\ LET rows == {m \in messages : m.id = unsub.id /\ m.lead # NULL}
     IN  unsub' = IF rows = {} THEN [unsub EXCEPT !.pc = "success"]
                  ELSE [unsub EXCEPT !.pc = "lead", !.lead = (CHOOSE m \in rows : TRUE).lead]
  /\ UNCHANGED <<tables, gen, batches, erasure, audits, purges, demo, faults>>

UnsubLead ==
  /\ gen.pc = "idle" /\ unsub.pc = "lead"
  /\ LET email == IF unsub.lead \in DOMAIN leads THEN leads[unsub.lead].email ELSE NULL
     IN  unsub' = IF email = NULL THEN [unsub EXCEPT !.pc = "success"]
                  ELSE [unsub EXCEPT !.pc = "add", !.found = email]
  /\ UNCHANGED <<tables, gen, batches, erasure, audits, purges, demo, faults>>

UnsubAdd ==
  /\ gen.pc = "idle" /\ unsub.pc = "add"
  /\ suppressed' = suppressed \cup {unsub.found}
  /\ unsub' = [unsub EXCEPT !.pc = "success"]
  /\ UNCHANGED <<rowVars, leads, campaigns, messages, gen, batches, erasure, audits, purges, demo, faults>>

(* The look-up of the lead may fail unnoticed; another failure refuses the *)
(* link.  Mutant: no failure is noticed.                                   *)
OutcomeKind == "success"

Outcome == IF unsub.pc = "lead" THEN "success" ELSE "refused"

UnsubFails ==
  /\ gen.pc = "idle" /\ unsub.pc \in {"message", "lead", "add"} /\ Fails("unsub")
  /\ unsub' = [unsub EXCEPT !.pc = Outcome]
  /\ UNCHANGED <<tables, gen, batches, erasure, audits, purges, demo>>
-----------------------------------------------------------------------------
Init ==
  /\ leads \in [Seeds -> [email : Published]] /\ misnamed = Seeds
  /\ held = [w \in Workers |-> NoRows]
  /\ campaigns = [c \in CampaignIds |-> "absent"]
  /\ messages = {} /\ suppressed = {} /\ gen = Reading /\ batches = 0
  /\ erasure = [n |-> 0, pc |-> "idle", called |-> FALSE, removed |-> FALSE,
                leads |-> {}, returned |-> {}, campaigns |-> {}, messages |-> {}]
  /\ audits = {} /\ purges = 0 /\ demo = [pc |-> "idle", keys |-> {}] /\ unsub = Nobody /\ faults = {}

LeadStep ==
  \/ \E file \in Files, mapped \in BOOLEAN : Upload(file, mapped)
  \/ \E w \in Workers, chunk \in Chunks : FetchChunk(w, chunk)
  \/ \E w \in Workers : \E done \in SUBSET DOMAIN held[w] : WriteBack(w, done)
  \/ ClearLeads \/ DemoStart \/ DemoMessages \/ DemoLeads

CampaignStep ==
  \/ \E c \in CampaignIds : CreateCampaign(c) \/ GenerateCampaign(c)
  \/ \E c \in CampaignIds, status \in Settings : SetStatus(c, status)
  \/ GenerateLeads \/ GenerateInsert \/ GenerateUpdate \/ GenerateFails

EraseStep ==
  EraseStart \/ EraseAudit \/ EraseMessages \/ EraseCampaigns \/ EraseLeads \/ EraseNext \/ EraseFails

UnsubStep == UnsubStart \/ UnsubMessage \/ UnsubLead \/ UnsubAdd \/ UnsubFails

Next == LeadStep \/ CampaignStep \/ EraseStep \/ UnsubStep

Spec == Init /\ [][Next]_vars
-----------------------------------------------------------------------------
(* A generated message of the table is of a campaign that exists and of a  *)
(* lead that does, or of none.                                             *)
TypeOK ==
  /\ \A k \in DOMAIN leads : leads[k].email \in Emails \cup {NULL}
  /\ \A w \in Workers : \A k \in DOMAIN held[w] : held[w][k].email \in Emails \cup {NULL}
  /\ campaigns \in [CampaignIds -> Status]
  /\ \A m \in messages : m.campaign \in Existing /\ m.lead \in DOMAIN leads \cup {NULL}
  /\ suppressed \subseteq Emails
  /\ gen.pc \in {"idle", "leads", "insert", "update"} /\ batches \in 0..MaxBatches
  /\ purges \in 0..MaxPurges /\ erasure.n \in 0..purges /\ erasure.pc \in {"idle", "aborted", "failed"} \cup Range(Steps)
  /\ audits \subseteq 1..purges
  /\ demo.pc \in {"idle", "messages", "leads"} /\ demo.keys \subseteq Seeds
  /\ unsub.pc \in {"idle", "message", "lead", "add", "success", "refused"}

(* A text is sent to the address that it was made for, whatever is        *)
(* uploaded, fetched, deleted and written back late in between, if its     *)
(* lead's key has named the address in every file that brought it: the     *)
(* file had no keys of its own, a website and an address in each row, and  *)
(* no second address that came first.                                      *)
LettersKeepAddressee ==
  \A m \in messages :
    m.lead # NULL /\ m.lead \notin misnamed => leads[m.lead].email = m.to

(* What delete_operator_account answers is so: "deleted" means that        *)
(* nothing is left of what was there, nor of the campaigns' messages that  *)
(* were generated meanwhile, but for leads that a worker has written back; *)
(* "no rows removed" that none was; and what was removed has its audit     *)
(* row, if only a part was removed as well.                                *)
ErasureAnswersTrue ==
  /\ erasure.pc = "deleted" =>
       /\ erasure.leads \cap DOMAIN leads \subseteq erasure.returned
       /\ erasure.campaigns \cap Existing = {}
       /\ \A m \in messages : m.id \notin erasure.messages /\ m.campaign \notin erasure.campaigns
  /\ erasure.pc = "aborted" => ~erasure.removed
  /\ erasure.removed => erasure.n \in audits

(* "Hard-deletes every row": no lead that was there is there again, unless *)
(* it has been uploaded again.                                             *)
NoLeadReturns == erasure.pc = "deleted" => erasure.leads \cap DOMAIN leads = {}

(* Whoever is told that they are unsubscribed will not be mailed again,    *)
(* unless the link leads to no address, or to a lead whose key has not     *)
(* named the address in every file that brought it.                        *)
UnsubscribeReaches ==
  unsub.pc = "success" =>
    unsub.to \in suppressed \/ unsub.found = NULL \/ unsub.id.key \in misnamed

(* Mail goes to the address that its text was made for: also when another  *)
(* file has put another address under the key, an edited export say.       *)
LettersKeepTheirLead ==
  \A m \in messages : m.lead # NULL => leads[m.lead].email \in {m.to, NULL}

(* "True on a clean unsubscribe, False on any verification or dereference  *)
(* failure."                                                               *)
UnsubscribedIsSuppressed ==
  unsub.pc = "success" /\ faults = {"unsub"} => unsub.found # NULL

(* Every row tied to the operator's account: nothing that is left when the *)
(* erasure ends was made of what it has removed.                           *)
NoTextIsLeft == erasure.pc = "deleted" => \A m \in messages : m.id.key \notin erasure.leads
=============================================================================
