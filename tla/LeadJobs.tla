-------------------------------- MODULE LeadJobs --------------------------------
(***************************************************************************)
(* The task orchestrators: jobs that audit, enrich and hunt leads, run by  *)
(* detached asyncio tasks ("workers") of one process.  A worker yields at  *)
(* the gather over its chunk and at the sleep between chunks; between two  *)
(* yields nothing else of the process runs, the database being called      *)
(* synchronously.  A launch yields while a thread reads or inserts the     *)
(* job, holding _job_lock.  The endpoints share one orchestrator, "app";   *)
(* every /execute of a plan makes one of its own, with a lock, a queue of  *)
(* discoveries and auditors that nothing else reaches.                     *)
(***************************************************************************)
EXTENDS Naturals, Sequences, FiniteSets, Functions

CONSTANTS
  Leads,                 \* unique keys
  Jobs, Workers,         \* job ids, detached tasks: numbers, handed out in order
  Known,                 \* the leads that exist at first
  NoWebsite,             \* leads that have no website
  Requests,              \* what is asked of run_massive_pipeline, for each orchestrator
  Discoverable,          \* what Google Maps lists: sets of leads
  ChunkSize,             \* 50 in the code
  MaxRetries,            \* 3 in the code
  MaxFailedBatches,      \* 5 in the code
  Purges,                \* the purges an operator may ask for, one at most
  FaultKinds,            \* "upsert", "db", "crash"
  NULL

Tasks == {"audit", "enrich", "hunt"}

Orchestrators == {"app", "execute"}

Row == [audit : {"pending", "completed", "failed"},
        enrich : {"pending", "completed", "no_content"},
        retry : Nat]

ASSUME JobsAssumption ==
  /\ Jobs \subseteq Nat /\ Workers \subseteq Nat
  /\ IsFiniteSet(Leads) /\ Known \subseteq Leads
  /\ Requests \in [Orchestrators -> SUBSET [ids : Seq(Leads), tasks : SUBSET Tasks]]
  /\ Discoverable \subseteq SUBSET Leads
  /\ ChunkSize \in Nat \ {0} /\ MaxRetries \in Nat \ {0} /\ MaxFailedBatches \in Nat \ {0}
  /\ Purges \subseteq {"clear", "erase"}
  /\ NULL \notin Jobs \cup Workers /\ NULL \notin Row /\ NULL # "completed"

VARIABLES
  leads,      \* leads table
  jobs,       \* orchestration_jobs.status
  auditors,   \* _active_auditors of "app"
  launch,     \* the holders of _job_lock
  worker,     \* the detached tasks
  purge,      \* the purges begun, and the step the erasure has reached
  faults      \* the kinds of fault that have happened: one fault at most

vars == <<leads, jobs, auditors, launch, worker, purge, faults>>

NewRow == [audit |-> "pending", enrich |-> "pending", retry |-> 0]

JobStatus == {"absent", "starting", "running", "completed", "stopped", "failed", "deleted"}

(* pos is the processed_count, which only a list of leads looks at again;  *)
(* chunk[l] is the row of l as it was fetched, NULL if l is not in the     *)
(* chunk; cancelled is the stop_requested of the worker's own auditor;     *)
(* tried counts the times the worker has worked on a lead of its list.     *)
WorkerState ==
  [pc : {"free", "spawned", "gather", "sleep", "waiting", "searching", "ended"},
   by : Orchestrators, job : Jobs \cup {NULL},
   req : [ids : Seq(Leads), tasks : SUBSET Tasks],
   pos : Nat, failures : Nat,
   chunk : [Leads -> Row \cup {NULL}],
   cancelled : BOOLEAN, result : {NULL, "completed", "failed", "stopped"},
   tried : [Leads -> Nat]]

Nothing == [l \in Leads |-> NULL]
NoRequest == [ids |-> <<>>, tasks |-> {}]

Present == {l \in Leads : leads[l] # NULL}
Chunk(w) == {l \in Leads : worker[w].chunk[l] # NULL}
Working == {"spawned", "gather", "sleep", "waiting", "searching"}
On(j) == {w \in Workers : worker[w].job = j /\ worker[w].pc \in Working}
Attended(j) == On(j) # {} \/ \E o \in Orchestrators : launch[o].job = j

Fault(kind) == kind \in FaultKinds /\ faults = {} /\ faults' = faults \cup {kind}

(* PostgREST's update of a deleted row matches nothing. *)
SetJob(j, status) == IF jobs[j] = "deleted" THEN jobs ELSE [jobs EXCEPT ![j] = status]
-----------------------------------------------------------------------------
(* Launching.  A request without ids joins any job that is running, with a *)
(* second worker; every other request inserts a job of its own.  One       *)
(* /execute launches at a time.                                            *)
Spawn(o, w, j, req, pc) ==
  /\ worker[w].pc = "free" /\ \A v \in Workers : v < w => worker[v].pc # "free"
  /\ worker' = [worker EXCEPT ![w].pc = pc, ![w].by = o, ![w].job = j, ![w].req = req]

Unlocked == [pc |-> "idle", req |-> NoRequest, job |-> NULL]

Launches == {o \in Orchestrators : launch[o].pc # "idle"}

(* The bound on launches: a slot for each that has begun. *)
Room ==
  /\ Cardinality({w \in Workers : worker[w].pc = "free"}) > Cardinality(Launches)
  /\ Cardinality({j \in Jobs : jobs[j] = "absent"}) > Cardinality(Launches)

FindRunningJob(o, req) ==
  /\ launch[o].pc = "idle" /\ req.ids = <<>> /\ Room
  /\ LET running == {j \in Jobs : jobs[j] = "running"}
     IN  \/ /\ running = {}
            /\ launch' = [launch EXCEPT ![o] = [pc |-> "insert", req |-> req, job |-> NULL]]
         \/ \E j \in running :
              launch' = [launch EXCEPT ![o] = [pc |-> "spawn", req |-> req, job |-> j]]
  /\ UNCHANGED <<jobs, worker>>

NewJob(j) == jobs[j] = "absent" /\ \A i \in Jobs : i < j => jobs[i] # "absent"

InsertJob(o, req, j) ==
  /\ \/ launch[o].pc = "idle" /\ req.ids # <<>> /\ Room
     \/ launch[o].pc = "insert" /\ launch[o].req = req
  /\ NewJob(j)
  /\ jobs' = [jobs EXCEPT ![j] = "running"]
  /\ launch' = [launch EXCEPT ![o] = [pc |-> "spawn", req |-> req, job |-> j]]
  /\ UNCHANGED worker

SpawnWorker(o, w) ==
  /\ launch[o].pc = "spawn"
  /\ Spawn(o, w, launch[o].job, launch[o].req, "spawned")
  /\ launch' = [launch EXCEPT ![o] = Unlocked]
  /\ UNCHANGED jobs

RunDiscoveryJob(o, w, j) ==
  /\ Discoverable # {} /\ Room /\ NewJob(j)
  /\ jobs' = [jobs EXCEPT ![j] = "starting"]
  /\ Spawn(o, w, j, NoRequest, "waiting")
  /\ UNCHANGED launch

Launch(o) ==
  /\ \/ \E r \in Requests[o] : FindRunningJob(o, r) \/ \E j \in Jobs : InsertJob(o, r, j)
     \/ \E w \in Workers : SpawnWorker(o, w) \/ \E j \in Jobs : RunDiscoveryJob(o, w, j)
  /\ UNCHANGED <<leads, auditors, purge, faults>>
-----------------------------------------------------------------------------
(* _process_in_chunks. *)

(* Mutants: the status predicate that does not look at the tasks; a slice  *)
(* that starts one too early; a finally that leaves the auditor; a loop    *)
(* that does not look for a stop; an audit status that the table does not  *)
(* know; a discovery that says nothing when it finds nothing.              *)
SelectedBroadly(row, tasks) ==
  row.retry < MaxRetries /\ (row.audit # "completed" \/ row.enrich # "completed")

(* Does a requested task still have to run on the lead?  'hunt' has no     *)
(* status of its own: alone, it looks at those of the other two.           *)
Selected(row, tasks) ==
  /\ row.retry < MaxRetries
  /\ IF tasks \cap {"audit", "enrich"} # {}
     THEN \/ "audit" \in tasks /\ row.audit = "pending"
          \/ "enrich" \in tasks /\ row.enrich = "pending"
     ELSE row.audit # "completed" \/ row.enrich # "completed"

(* The leads a fetch may return: of an explicit list the next slice, else  *)
(* a chunk of those selected.  The filters of the request are not looked at. *)
SliceTooEarly(ids, pos) ==
  {ids[i] : i \in {i \in DOMAIN ids : pos <= i /\ i <= pos + ChunkSize}}

Slice(ids, pos) ==
  {ids[i] : i \in {i \in DOMAIN ids : pos < i /\ i <= pos + ChunkSize}}

Fetchable(req, pos) ==
  IF req.ids # <<>>
  THEN {Slice(req.ids, pos) \cap Present}
  ELSE LET all == {l \in Present : Selected(leads[l], req.tasks)}
       IN  {S \in SUBSET all : \/ S = all /\ Cardinality(S) <= ChunkSize
                               \/ Cardinality(S) = ChunkSize}

LeaveRegistered(w, result) ==
  /\ worker' = [worker EXCEPT ![w].pc = "ended", ![w].result = result, ![w].chunk = Nothing,
                              ![w].pos = 0, ![w].failures = 0, ![w].cancelled = FALSE]
  /\ UNCHANGED auditors

Registered(w, auditor) ==
  IF worker[w].by = "app" THEN [auditors EXCEPT ![worker[w].job] = auditor] ELSE auditors

(* The body of the try ends and its finally removes the job's auditor; it  *)
(* then closes the browser and invalidates /stats (module Console).        *)
Leave(w, result) ==
  /\ worker' = [worker EXCEPT ![w].pc = "ended", ![w].result = result, ![w].chunk = Nothing,
                              ![w].pos = 0, ![w].failures = 0, ![w].cancelled = FALSE]
  /\ auditors' = Registered(w, NULL)

(* From the top of the loop to the next gather, or out of it.  The worker  *)
(* that starts has written 'running' before, so it passes the check.       *)
Fetch(w, C) ==
  worker' = [worker EXCEPT
    ![w].pc = "gather",
    ![w].chunk = [l \in Leads |-> IF l \in C THEN leads[l] ELSE NULL]]

Loop(w, C) ==
  IF C = {}
  THEN Leave(w, "completed") /\ jobs' = SetJob(worker[w].job, "completed")
  ELSE /\ Fetch(w, C)
       /\ auditors' = IF worker[w].pc = "spawned" THEN Registered(w, w) ELSE auditors
       /\ jobs' = IF worker[w].pc = "spawned" THEN SetJob(worker[w].job, "running") ELSE jobs

StartWorker(w) ==
  /\ worker[w].pc = "spawned"
  /\ \E C \in Fetchable(worker[w].req, worker[w].pos) : Loop(w, C)
  /\ UNCHANGED <<leads, faults>>

NextChunkUnchecked(w) ==
  /\ worker[w].pc = "sleep"
  /\ \E C \in Fetchable(worker[w].req, worker[w].pos) : Loop(w, C)
  /\ UNCHANGED <<leads, faults>>

NextChunk(w) ==
  /\ worker[w].pc = "sleep"
  /\ IF jobs[worker[w].job] \in {"stopped", "failed"}
     THEN Leave(w, "stopped") /\ UNCHANGED jobs
     ELSE \E C \in Fetchable(worker[w].req, worker[w].pos) : Loop(w, C)
  /\ UNCHANGED <<leads, faults>>

(* The auditor's own checks for a stop. *)
Cancelled(w) == IF worker[w].cancelled THEN {"cancelled"} ELSE {}

(* audit_single_lead fails before any check when there is no website. *)
AuditOutcomes(w, l) ==
  IF l \in NoWebsite THEN {"failed"} ELSE {"ok", "failed"} \cup Cancelled(w)

(* hunt_single_lead may fail, but its failure is ignored. *)
HuntOutcomes(w) == {"ok"} \cup Cancelled(w)

(* _process_single_lead: how it may end for one lead.  An enrichment never *)
(* fails and has no check.                                                 *)
Outcomes(w, l) ==
  LET tasks == worker[w].req.tasks
      audit == IF "audit" \in tasks THEN AuditOutcomes(w, l) ELSE {"ok"}
  IN  audit \cup (IF "ok" \in audit /\ "hunt" \in tasks THEN HuntOutcomes(w) ELSE {})

(* The row it returns: a copy of the row fetched, with what was done. *)
EnrichOutcomes(row, l, tasks) ==
  IF "enrich" \in tasks /\ l \notin NoWebsite THEN {"completed", "no_content"} ELSE {row.enrich}

Processed(row, l, tasks, outcome) ==
  IF outcome = "ok"
  THEN {[audit |-> IF "audit" \in tasks THEN "completed" ELSE row.audit,
         enrich |-> e, retry |-> 0] : e \in EnrichOutcomes(row, l, tasks)}
  ELSE {[audit |-> IF row.retry + 1 >= MaxRetries THEN "failed" ELSE row.audit,
         enrich |-> row.enrich, retry |-> row.retry + 1]}

(* The rows of the upsert, NULL for a lead that it leaves alone. *)
Rows(w, outcome) ==
  LET after(l) == Processed(worker[w].chunk[l], l, worker[w].req.tasks, outcome[l])
      written == {l \in Chunk(w) : outcome[l] # "cancelled"}
  IN  {rows \in [Leads -> (UNION {after(l) : l \in written}) \cup {NULL}] :
         \A l \in Leads : IF l \in written THEN rows[l] \in after(l) ELSE rows[l] = NULL}

(* It writes whole rows, inserting those that were deleted meanwhile. *)
Upserted(rows) == [l \in Leads |-> IF rows[l] = NULL THEN leads[l] ELSE rows[l]]

(* The gather has returned for all the leads of the chunk.  A failed       *)
(* upsert returns None, which nobody looks at.                             *)
WriteChunk(w, outcome, fails) ==
  IF "upsert" \in fails THEN UNCHANGED leads
  ELSE \E rows \in Rows(w, outcome) : leads' = Upserted(rows)

Failures(w, outcome) ==
  IF \E l \in Chunk(w) : outcome[l] = "ok" THEN 0 ELSE worker[w].failures + 1

(* A failed update of the job raises, and so may the write of 'failed'. *)
GiveUp(w, fails) ==
  /\ Leave(w, "failed")
  /\ jobs' = SetJob(worker[w].job, "failed") \/ ("db" \in fails /\ UNCHANGED jobs)

(* Only a list of leads is counted by its rows. *)
Sleep(w, failures) ==
  LET listed == worker[w].req.ids # <<>>
  IN  /\ worker' = [worker EXCEPT
           ![w].pc = "sleep", ![w].chunk = Nothing, ![w].failures = failures,
           ![w].pos = IF listed THEN @ + Cardinality(Chunk(w)) ELSE @,
           ![w].tried = [l \in Leads |-> IF listed /\ l \in Chunk(w) THEN @[l] + 1 ELSE @[l]]]
      /\ UNCHANGED <<jobs, auditors>>

FinishChunk(w) ==
  /\ worker[w].pc = "gather"
  /\ \E outcome \in [Chunk(w) -> {"ok", "failed", "cancelled"}],
        fails \in SUBSET (FaultKinds \cap {"upsert", "db"}) :
       /\ \A l \in Chunk(w) : outcome[l] \in Outcomes(w, l)
       /\ fails # {} => faults = {} /\ Cardinality(fails) = 1
       /\ faults' = faults \cup fails
       /\ WriteChunk(w, outcome, fails)
       /\ IF Failures(w, outcome) >= MaxFailedBatches \/ "db" \in fails
          THEN GiveUp(w, fails)
          ELSE Sleep(w, Failures(w, outcome))

(* A PostgREST call before the gather raises; so may the write of 'failed'. *)
WorkerFails(w) ==
  /\ worker[w].pc \in {"spawned", "sleep"}
  /\ Fault("db")
  /\ Leave(w, "failed")
  /\ jobs' \in {jobs, SetJob(worker[w].job, "failed")}
              \cup (IF worker[w].pc = "spawned" THEN {SetJob(worker[w].job, "running")} ELSE {})
  /\ UNCHANGED leads

(* _discovery_sem, of which every /execute has one of its own. *)
Turn(w) ==
  /\ worker[w].pc = "waiting"
  /\ worker[w].by = "app" => \A v \in Workers : worker[v].by = "app" => worker[v].pc # "searching"

(* _process_discovery: its upsert makes 'Pending' again a lead that was    *)
(* audited.  Nothing looks at a stop.                                      *)
StartDiscovery(w) ==
  /\ Turn(w)
  /\ worker' = [worker EXCEPT ![w].pc = "searching"]
  /\ jobs' = SetJob(worker[w].job, "running")
  /\ UNCHANGED <<leads, auditors, faults>>

(* find_leads: a result that cannot be read is left out, and an error ends *)
(* the search with what there is so far; neither is told.                  *)
FindLeads == UNION {SUBSET listed : listed \in Discoverable}

Discovered(found) ==
  [l \in Leads |-> IF l \notin found THEN leads[l]
                   ELSE IF leads[l] = NULL THEN NewRow
                   ELSE [leads[l] EXCEPT !.audit = "pending"]]

FinishDiscoverySilently(w) ==
  /\ worker[w].pc = "searching"
  /\ \E found \in FindLeads :
       /\ leads' = Discovered(found)
       /\ jobs' = IF found = {} THEN jobs ELSE SetJob(worker[w].job, "completed")
  /\ worker' = [worker EXCEPT ![w].pc = "ended"]
  /\ UNCHANGED <<auditors, faults>>

FinishDiscovery(w) ==
  /\ worker[w].pc = "searching"
  /\ \/ /\ \E found \in FindLeads : leads' = Discovered(found)
        /\ jobs' = SetJob(worker[w].job, "completed")
     \/ jobs' = SetJob(worker[w].job, "failed") /\ UNCHANGED leads
  /\ worker' = [worker EXCEPT ![w].pc = "ended"]
  /\ UNCHANGED <<auditors, faults>>

(* A PostgREST call of the discovery fails: an upsert that fails is not    *)
(* noticed, an update of the job that fails may be followed by 'failed'.   *)
DiscoveryFails(w) ==
  /\ Turn(w) \/ worker[w].pc = "searching"
  /\ \/ /\ worker[w].pc = "searching" /\ Fault("upsert")
        /\ jobs' = SetJob(worker[w].job, "completed")
        /\ UNCHANGED leads
     \/ /\ Fault("db")
        /\ jobs' \in {jobs, SetJob(worker[w].job, "failed")}
        /\ leads' \in {leads} \cup (IF worker[w].pc = "waiting" THEN {}
                                   ELSE {Discovered(found) : found \in FindLeads})
  /\ worker' = [worker EXCEPT ![w].pc = "ended"]
  /\ UNCHANGED auditors

WorkerStep(w) ==
  /\ \/ StartWorker(w) \/ NextChunk(w) \/ FinishChunk(w)
     \/ StartDiscovery(w) \/ FinishDiscovery(w)
  /\ UNCHANGED <<launch, purge>>
-----------------------------------------------------------------------------
(* The operator. *)

(* stop_job: the row, then the auditor that is registered for the job. *)
StopJob(j) ==
  /\ jobs[j] \notin {"absent", "deleted"}
  /\ jobs' = [jobs EXCEPT ![j] = "stopped"]
  /\ worker' = IF auditors[j] = NULL THEN worker
               ELSE [worker EXCEPT ![auditors[j]].cancelled = TRUE]

(* /audit/stop: the rows that are running; its auditor is not a worker's. *)
StopAll ==
  /\ \E j \in Jobs : jobs[j] = "running"
  /\ jobs' = [j \in Jobs |-> IF jobs[j] = "running" THEN "stopped" ELSE jobs[j]]
  /\ UNCHANGED worker

Stop == (StopAll \/ \E j \in Jobs : StopJob(j)) /\ UNCHANGED <<leads, auditors, launch, purge, faults>>

WithoutJobs == [j \in Jobs |-> IF jobs[j] = "absent" THEN "absent" ELSE "deleted"]

(* /leads/clear deletes the leads and the jobs without a yield;            *)
(* /operator/account deletes the jobs and then the leads, from threads.    *)
ClearLeads ==
  /\ "clear" \in Purges /\ purge = {}
  /\ leads' = Nothing /\ jobs' = WithoutJobs /\ purge' = purge \cup {"clear"}

EraseJobs ==
  /\ "erase" \in Purges /\ purge = {}
  /\ jobs' = WithoutJobs /\ purge' = purge \cup {"jobs_erased"}
  /\ UNCHANGED leads

EraseLeads ==
  /\ "jobs_erased" \in purge /\ "erase" \notin purge
  /\ leads' = Nothing /\ purge' = purge \cup {"erase"}
  /\ UNCHANGED jobs

Purge == (ClearLeads \/ EraseJobs \/ EraseLeads) /\ UNCHANGED <<auditors, launch, worker, faults>>

(* The process dies with its tasks.  The next one fails the jobs that were *)
(* not written for ten minutes; a younger one stays 'running'.             *)
Restart ==
  /\ Fault("crash")
  /\ \E old \in SUBSET {j \in Jobs : jobs[j] \in {"starting", "running"}} :
       jobs' = [j \in Jobs |-> IF j \in old THEN "failed" ELSE jobs[j]]
  /\ auditors' = [j \in Jobs |-> NULL]
  /\ launch' = [o \in Orchestrators |-> Unlocked]
  /\ worker' = [w \in Workers |->
       IF worker[w].pc = "free" THEN worker[w]
       ELSE [worker[w] EXCEPT !.pc = "ended", !.chunk = Nothing]]
  /\ UNCHANGED <<leads, purge>>

(* check_orphans_and_zombies.py, once a day: a job that has been 'running' *)
(* for four hours without a write.  A worker writes its job more often.    *)
HealZombies ==
  /\ \E zombies \in SUBSET {j \in Jobs : jobs[j] = "running" /\ ~Attended(j)} \ {{}} :
       jobs' = [j \in Jobs |-> IF j \in zombies THEN "failed" ELSE jobs[j]]
  /\ UNCHANGED <<leads, auditors, launch, worker, purge, faults>>
-----------------------------------------------------------------------------
Init ==
  /\ leads = [l \in Leads |-> IF l \in Known THEN NewRow ELSE NULL]
  /\ jobs = [j \in Jobs |-> "absent"]
  /\ auditors = [j \in Jobs |-> NULL]
  /\ launch = [o \in Orchestrators |-> Unlocked]
  /\ worker = [w \in Workers |->
       [pc |-> "free", by |-> "app", job |-> NULL, req |-> NoRequest, pos |-> 0, failures |-> 0,
        chunk |-> Nothing, cancelled |-> FALSE, result |-> NULL,
        tried |-> [l \in Leads |-> 0]]]
  /\ purge = {} /\ faults = {}

Next ==
  \/ \E o \in Orchestrators : Launch(o)
  \/ \E w \in Workers : WorkerStep(w)
  \/ \E w \in Workers : (WorkerFails(w) \/ DiscoveryFails(w)) /\ UNCHANGED <<launch, purge>>
  \/ Stop
  \/ Purge
  \/ Restart
  \/ HealZombies

Spec == Init /\ [][Next]_vars

(* Fairness.  The event loop runs every task that is ready, and every wait *)
(* of a worker is bounded: each fetch of a page and each call of Gemini by *)
(* a timeout, the sleep by 120 s.  The sweep of zombies runs every day.    *)
(* Nothing is assumed of the operator.                                     *)
Fairness ==
  /\ \A w \in Workers : WF_vars(WorkerStep(w))
  /\ \A o \in Orchestrators : WF_vars(launch[o].pc # "idle" /\ Launch(o))
  /\ WF_vars(HealZombies)

FairSpec == Spec /\ Fairness
-----------------------------------------------------------------------------
(* Every variable has its type. *)
JobsTypeOK ==
  /\ leads \in [Leads -> Row \cup {NULL}]
  /\ jobs \in [Jobs -> JobStatus]
  /\ auditors \in [Jobs -> Workers \cup {NULL}]
  /\ launch \in [Orchestrators -> [pc : {"idle", "insert", "spawn"}, job : Jobs \cup {NULL},
                                   req : [ids : Seq(Leads), tasks : SUBSET Tasks]]]
  /\ worker \in [Workers -> WorkerState]
  /\ purge \subseteq {"clear", "jobs_erased", "erase"}
  /\ faults \subseteq FaultKinds

(* stop_job never reaches for an auditor that is not at work: the one it   *)
(* finds belongs to a worker of that job inside its try block.             *)
AuditorsAreLive ==
  \A j \in Jobs : auditors[j] # NULL =>
    worker[auditors[j]].job = j /\ worker[auditors[j]].pc \in {"gather", "sleep"}

(* However workers share, stop and finish a job, it is not left 'running'  *)
(* or 'starting' with nobody at work on it, unless the process was killed  *)
(* or the database refused the last write.                                 *)
NoOrphanedJob ==
  \A j \in Jobs : jobs[j] \in {"starting", "running"} /\ faults \cap {"crash", "db"} = {} => Attended(j)

(* A job over a list of leads that ran to its end has worked exactly once  *)
(* on each of them, as long as none of them was deleted.                   *)
ListedLeads(w) == {worker[w].req.ids[i] : i \in DOMAIN worker[w].req.ids}

ListedLeadsTriedOnce ==
  \A w \in Workers :
    worker[w].result = "completed" /\ ListedLeads(w) # {} /\ ListedLeads(w) \subseteq Known /\ purge = {}
    => \A l \in ListedLeads(w) : worker[w].tried[l] = 1

(* A stop is undone only by a worker that had not started, by a discovery, *)
(* or by the failure of the worker that was at work.                       *)
StopIsUndoneBy ==
  [][\A j \in Jobs : jobs[j] = "stopped" /\ jobs'[j] \notin {"stopped", "deleted"} =>
       \/ jobs'[j] = "failed"
       \/ \E w \in On(j) : worker[w].pc \in {"spawned", "waiting", "searching"}]_vars

(* A sweep that hunts only, or enriches only where a lead has no website,  *)
(* selects its leads by a status that its work does not change; the stale  *)
(* rows it writes can keep the sweep of another job going as well.         *)
EndlessSweep(w) ==
  /\ worker[w].pc \in {"spawned", "gather", "sleep"} /\ worker[w].req.ids = <<>>
  /\ LET tasks == worker[w].req.tasks
     IN  \/ tasks \cap {"audit", "enrich"} = {}
         \/ "audit" \notin tasks /\ NoWebsite # {}

(* Every other job comes to an end: it completes, fails or is stopped,     *)
(* though workers share it and undo each other's rows, and, by the sweep   *)
(* of zombies, though the process was killed or the database refused the   *)
(* last write; only a discovery that had not started stays behind then.    *)
JobsEnd ==
  \A j \in Jobs :
    jobs[j] \in {"starting", "running"} ~>
      \/ jobs[j] \notin {"starting", "running"}
      \/ jobs[j] = "starting" /\ faults \cap {"crash", "db"} # {}
      \/ \E w \in Workers : EndlessSweep(w)

(* A stop, unless it is undone, ends every worker of the job, and even one *)
(* whose sweep would not end.                                              *)
StopEndsWorkers == \A j \in Jobs : jobs[j] = "stopped" ~> jobs[j] # "stopped" \/ On(j) = {}

(* stop_job "propagates the stop into the active auditor": afterwards no   *)
(* worker of the job is in mid-flight with an auditor that was not told.   *)
StopReachesWorkers ==
  [][\A j \in Jobs : StopJob(j) =>
       \A w \in On(j) : worker[w].pc = "gather" => worker'[w].cancelled]_vars

(* "Serialise discovery so only one Chromium runs at a time". *)
OneDiscovery == Cardinality({w \in Workers : worker[w].pc = "searching"}) <= 1
=============================================================================
