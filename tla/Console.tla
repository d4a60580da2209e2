-------------------------------- MODULE Console --------------------------------
(***************************************************************************)
(* The console over the leads table: who reads it (LeadPages, StatsCache)  *)
(* and who writes it meanwhile: an upload, a discovery, the workers of     *)
(* jobs, the deletions.  Handlers of the event loop run without            *)
(* interruption between two awaits; the upload is a thread of its own, and *)
(* the account's deletion, the export and the build of /stats call the     *)
(* database from threads.                                                  *)
(***************************************************************************)
EXTENDS LeadPages, StatsCache

VARIABLES
  upload,   \* process_csv_background
  reader    \* the reader looked at: they leave each other's state alone,
            \* and that of the writers, so one at a time is enough

vars == <<created, held, now, export, board, poll, more, cache, stats, upload, reader>>

(* The upload writes its rows, if the upsert is accepted, and invalidates. *)
UploadWrites ==
  /\ upload = "idle"
  /\ \E batch \in Batches : UpsertLeads(batch)
  /\ upload' = "written"
  /\ Misses("upload")
  /\ UNCHANGED pageVars

UploadInvalidates ==
  /\ upload = "written"
  /\ upload' = "idle"
  /\ Invalidate
  /\ UNCHANGED <<tableVars, pageVars>>

(* Of a discovery and of a worker only the end of the job invalidates.  A  *)
(* worker adds leads to the table when it writes back deleted ones.        *)
DiscoveryWrites ==
  /\ \E batch \in Batches : ~(batch \subseteq Listed) /\ UpsertLeads(batch)
  /\ Misses("discovery")
  /\ UNCHANGED <<pageVars, upload>>

WorkerFetches(w) == FetchChunk(w) /\ UNCHANGED <<pageVars, statsVars, upload>>

WorkerWrites(w) ==
  /\ \E done \in SUBSET Fetched(w) :
       /\ WriteBack(w, done)
       /\ Leave(MovedBy(w, done), MovedBy(w, done))
       /\ IF done \subseteq Listed THEN UNCHANGED statsVars ELSE Misses("worker")
  /\ UNCHANGED upload

JobEnds == Invalidate /\ UNCHANGED <<tableVars, pageVars, upload>>

(* clear_leads invalidates before anything else of the loop runs, but the  *)
(* thread of a build may have read the rows; delete_operator_account does  *)
(* not invalidate.                                                         *)
ClearLeads ==
  /\ DeleteLeads /\ Leave(Keys, {})
  /\ cache' = [payload |-> Unread, fresh |-> FALSE]
  /\ stats' = [r \in Requests |-> [stats[r] EXCEPT !.payload = Lost(Missed(@, "clear"))]]
  /\ UNCHANGED upload

EraseLeads == DeleteLeads /\ Leave(Keys, {}) /\ Misses("erase") /\ UNCHANGED upload

Write ==
  \/ UploadWrites \/ UploadInvalidates \/ DiscoveryWrites \/ JobEnds \/ ClearLeads \/ EraseLeads
  \/ \E w \in Workers : WorkerFetches(w) \/ WorkerWrites(w)
  \/ Clock /\ UNCHANGED <<pageVars, statsVars, upload>>

ReadPages ==
  /\ (reader = "export" /\ ExportStep) \/ (reader = "dashboard" /\ BoardStep)
  /\ UNCHANGED <<statsVars, upload>>

ReadStats(r) ==
  /\ reader = "stats" /\ StatsStep(r)
  /\ UNCHANGED <<tableVars, pageVars, upload>>

Next ==
  /\ \/ Write \/ ReadPages
     \/ \E r \in Requests : ReadStats(r)
     \/ /\ reader = "stats" /\ (Expire \/ \E r \in Requests : GetStats(r))
        /\ UNCHANGED <<tableVars, pageVars, upload>>
  /\ UNCHANGED reader

Init ==
  /\ TableInit /\ PagesInit /\ StatsInit /\ upload = "idle"
  /\ reader \in {"export", "dashboard", "stats"}

Spec == Init /\ [][Next]_vars

(* Fairness.  A build is one database call with a timeout; an asyncio.Lock *)
(* is handed over in the order of its waiters.                             *)
Fairness ==
  \A r \in Requests :
    /\ WF_vars(ReadStats(r) /\ UNCHANGED reader)
    /\ SF_vars(ReadStats(r) /\ Acquire(r) /\ UNCHANGED reader)

FairSpec == Spec /\ Fairness
-----------------------------------------------------------------------------
TypeOK ==
  /\ created \in [Keys -> 0..MaxTime] /\ now \in 1..MaxTime
  /\ held \in [Workers -> [Keys -> 0..MaxTime]]
  /\ PagesTypeOK /\ StatsTypeOK
  /\ upload \in {"idle", "written"} /\ reader \in {"export", "dashboard", "stats"}

(* A payload that is served counts the leads of the table, unless a writer *)
(* that does not invalidate has been at work, an upload is about to, or an *)
(* invalidation came while the payload was being built.                    *)
StaleHasCause ==
  cache.fresh /\ cache.payload.rows # Listed =>
    \/ cache.payload.missed \cap {"discovery", "worker", "erase"} # {}
    \/ cache.payload.lost
    \/ upload = "written"

(* "The cached value never lies for longer than one batch of writes": once *)
(* an upload has invalidated, no payload that lacks its rows is served.    *)
UploadsSeen == cache.fresh /\ "upload" \in cache.payload.missed => upload = "written"
=============================================================================
