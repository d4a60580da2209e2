------------------------------- MODULE JobProofs -------------------------------
(***************************************************************************)
(* What the jobs promise for every number of leads, jobs, workers and      *)
(* requests: the auditor that stop_job finds is at work, no job is left    *)
(* 'running' with nobody at work on it, a stop is undone only by those who *)
(* had not begun, and a job over a list works once on each of its leads.   *)
(*                                                                         *)
(* One lemma for each action says how it moves its worker (Moves); one     *)
(* more, that such a move preserves the invariant.                         *)
(***************************************************************************)
EXTENDS LeadJobs, TLAPS, FiniteSetTheorems

(* A worker and a launch that have begun know their job. *)
WorkersNamed == \A w \in Workers : worker[w].pc # "free" => worker[w].job \in Jobs

LaunchesNamed ==
  \A o \in Orchestrators :
    IF launch[o].pc = "spawn" THEN launch[o].job \in Jobs ELSE launch[o].job = NULL

(* Only the endpoints' orchestrator keeps its auditors. *)
AppAuditors == \A j \in Jobs : auditors[j] # NULL => worker[auditors[j]].by = "app"

JobsInv ==
  /\ JobsTypeOK /\ WorkersNamed /\ LaunchesNamed
  /\ AppAuditors /\ AuditorsAreLive /\ NoOrphanedJob

AtWork == {"gather", "sleep"}

(* The worker w goes on, or ends and does not leave its job 'running'.     *)
GoesOn(w) ==
  /\ worker'[w].pc \in Working
  /\ worker[w].pc \in AtWork => worker'[w].pc \in AtWork
  /\ \/ auditors' = auditors
     \/ worker'[w].pc = "gather" /\ auditors' = Registered(w, w)

Ends(w) ==
  /\ worker'[w].pc = "ended"
  /\ jobs'[worker[w].job] \in {"starting", "running"} => faults' \cap {"crash", "db"} # {}
  /\ \/ auditors' = Registered(w, NULL)
     \/ worker[w].pc \in {"waiting", "searching"} /\ auditors' = auditors

Moves(w) ==
  /\ worker[w].pc \in Working
  /\ worker'[w] \in WorkerState /\ worker' = [worker EXCEPT ![w] = worker'[w]]
  /\ worker'[w].job = worker[w].job /\ worker'[w].by = worker[w].by
  /\ jobs' = jobs \/ \E st \in {"running", "completed", "failed"} : jobs' = SetJob(worker[w].job, st)
  /\ faults \subseteq faults'
  /\ GoesOn(w) \/ Ends(w)

(* A write of the status of a job changes that job, or no job at all when  *)
(* its row is deleted.                                                     *)
LEMMA SetJobIs ==
  ASSUME jobs \in [Jobs -> JobStatus], NEW j \in Jobs, NEW st \in {"running", "completed", "failed"}
  PROVE  /\ SetJob(j, st) \in [Jobs -> JobStatus]
         /\ SetJob(j, st)[j] \in {st, "deleted"}
         /\ \A i \in Jobs \ {j} : SetJob(j, st)[i] = jobs[i]
BY DEF SetJob, JobStatus

(* A move preserves the invariant. *)
LEMMA MovePreserves ==
  ASSUME JobsInv, NEW w \in Workers, Moves(w), UNCHANGED <<launch, purge>>,
         leads' \in [Leads -> Row \cup {NULL}], faults' \subseteq FaultKinds
  PROVE  JobsInv'
<1> DEFINE job == worker[w].job
<1>1. /\ worker \in [Workers -> WorkerState] /\ jobs \in [Jobs -> JobStatus]
      /\ auditors \in [Jobs -> Workers \cup {NULL}] /\ launch' = launch
  BY DEF JobsInv, JobsTypeOK
<1>2. job \in Jobs
  BY DEF Moves, Working, JobsInv, WorkersNamed
<1>3. /\ worker' \in [Workers -> WorkerState]
      /\ \A v \in Workers \ {w} : worker'[v] = worker[v]
      /\ worker'[w].job = job /\ worker'[w].by = worker[w].by /\ worker[w].pc \in Working
  BY <1>1 DEF Moves
<1>4. /\ jobs' \in [Jobs -> JobStatus]
      /\ \A i \in Jobs \ {job} : jobs'[i] = jobs[i]
  BY <1>1, <1>2, SetJobIs DEF Moves
<1>5. /\ auditors' \in [Jobs -> Workers \cup {NULL}]
      /\ \/ auditors' = auditors
         \/ /\ worker[w].by = "app" /\ auditors' = [auditors EXCEPT ![job] = w]
            /\ GoesOn(w) /\ worker'[w].pc = "gather"
         \/ /\ worker[w].by = "app" /\ auditors' = [auditors EXCEPT ![job] = NULL]
            /\ Ends(w)
  BY <1>1, <1>2 DEF Moves, GoesOn, Ends, Registered
<1> HIDE DEF job
<1>6. JobsTypeOK'
  BY <1>3, <1>4, <1>5 DEF JobsInv, JobsTypeOK
<1>7. WorkersNamed' /\ LaunchesNamed'
  BY <1>1, <1>2, <1>3 DEF JobsInv, WorkersNamed, LaunchesNamed
<1>8. ASSUME NEW j \in Jobs, auditors'[j] # NULL
      PROVE  LET v == auditors'[j] IN worker'[v].by = "app" /\ worker'[v].job = j /\ worker'[v].pc \in AtWork
  <2>1. CASE auditors'[j] # w
    <3>1. auditors'[j] = auditors[j]
      BY <1>1, <1>2, <1>5, <1>8, <2>1
    <3> QED BY <1>1, <1>3, <1>8, <2>1, <3>1 DEF JobsInv, AppAuditors, AuditorsAreLive, AtWork
  <2>2. CASE auditors'[j] = w /\ auditors[j] = w
    <3>1. worker[w].by = "app" /\ job = j /\ worker[w].pc \in AtWork
      BY <1>8, <2>2 DEF JobsInv, AppAuditors, AuditorsAreLive, AtWork, job
    <3>2. GoesOn(w)
      BY <1>1, <1>2, <1>5, <1>8, <2>2, <3>1 DEF Moves, Ends, Registered, job, AtWork
    <3> QED BY <1>3, <2>2, <3>1, <3>2 DEF GoesOn
  <2>3. CASE auditors'[j] = w /\ auditors[j] # w
    BY <1>1, <1>2, <1>3, <1>5, <1>8, <2>3 DEF AtWork
  <2> QED BY <2>1, <2>2, <2>3
<1>9. AppAuditors' /\ AuditorsAreLive'
  BY <1>8 DEF AppAuditors, AuditorsAreLive, AtWork
<1>10. NoOrphanedJob'
  <2> SUFFICES ASSUME NEW j \in Jobs, jobs'[j] \in {"starting", "running"}, faults' \cap {"crash", "db"} = {}
               PROVE  Attended(j)'
    BY DEF NoOrphanedJob
  <2>1. CASE GoesOn(w) /\ j = job
    BY <1>3, <2>1 DEF GoesOn, Attended, On
  <2>2. CASE Ends(w) /\ j = job
    BY <2>2 DEF Ends, job
  <2>3. CASE j # job
    <3>1. Attended(j)
      BY <1>4, <2>3 DEF Moves, JobsInv, NoOrphanedJob
    <3>2. \A v \in Workers : v \in On(j) => v \in On(j)'
      BY <1>1, <1>3, <2>3 DEF On, job
    <3> QED BY <1>1, <3>1, <3>2 DEF Attended, On
  <2> QED BY <2>1, <2>2, <2>3 DEF Moves
<1> QED BY <1>6, <1>7, <1>9, <1>10 DEF JobsInv
-----------------------------------------------------------------------------
(* What the steps of a worker do to it. *)
LEMMA WorkerFacts ==
  ASSUME JobsInv, NEW w \in Workers, worker[w].pc \in Working
  PROVE  /\ worker \in [Workers -> WorkerState] /\ worker[w] \in WorkerState
         /\ worker[w].job \in Jobs
         /\ jobs \in [Jobs -> JobStatus]
         /\ auditors \in [Jobs -> Workers \cup {NULL}]
         /\ leads \in [Leads -> Row \cup {NULL}] /\ faults \subseteq FaultKinds
BY DEF JobsInv, JobsTypeOK, WorkersNamed, Working

(* A worker that leaves its loop ends its job, unless a statement failed   *)
(* or the process crashed.                                                 *)
LEMMA Leaves ==
  ASSUME JobsInv, NEW w \in Workers, worker[w].pc \in Working,
         NEW result \in {"completed", "failed", "stopped"}, Leave(w, result),
         jobs' = jobs \/ \E st \in {"running", "completed", "failed"} : jobs' = SetJob(worker[w].job, st),
         jobs'[worker[w].job] \in {"starting", "running"} => faults' \cap {"crash", "db"} # {},
         faults \subseteq faults'
  PROVE  Moves(w)
<1> DEFINE me == [worker[w] EXCEPT !.pc = "ended", !.result = result, !.chunk = Nothing,
                                   !.pos = 0, !.failures = 0, !.cancelled = FALSE]
<1>1. worker' = [worker EXCEPT ![w] = me] /\ worker'[w] = me
  BY WorkerFacts DEF Leave
<1>2. Nothing \in [Leads -> Row \cup {NULL}]
  BY DEF Nothing
<1>3. me \in WorkerState /\ me.job = worker[w].job /\ me.by = worker[w].by /\ me.pc = "ended"
  <2>1. worker[w] \in WorkerState
    BY WorkerFacts
  <2> HIDE DEF Nothing
  <2> QED BY <1>2, <2>1 DEF WorkerState
<1> HIDE DEF me
<1>4. Ends(w)
  BY <1>1, <1>3 DEF Ends, Leave
<1> QED BY <1>1, <1>3, <1>4 DEF Moves

(* A worker that fetches a chunk goes on with it, or ends. *)
LEMMA Fetches ==
  ASSUME JobsInv, NEW w \in Workers, worker[w].pc \in {"spawned", "sleep"}, NEW C, Loop(w, C),
         faults' = faults
  PROVE  Moves(w)
<1>1. worker[w].pc \in Working
  BY DEF Working
<1>2. CASE C = {}
  <2>1. jobs'[worker[w].job] \notin {"starting", "running"}
    BY <1>1, <1>2, WorkerFacts, SetJobIs DEF Loop
  <2>2. Leave(w, "completed") /\ jobs' = SetJob(worker[w].job, "completed")
    BY <1>2 DEF Loop
  <2> QED BY <1>1, <2>1, <2>2, Leaves
<1>3. CASE C # {}
  <2> DEFINE chunk == [l \in Leads |-> IF l \in C THEN leads[l] ELSE NULL]
             me == [worker[w] EXCEPT !.pc = "gather", !.chunk = chunk]
  <2>1. chunk \in [Leads -> Row \cup {NULL}]
    BY <1>1, WorkerFacts
  <2>2. worker' = [worker EXCEPT ![w] = me] /\ worker'[w] = me
    BY <1>1, <1>3, WorkerFacts DEF Loop, Fetch
  <2> HIDE DEF chunk
  <2>3. me \in WorkerState /\ me.job = worker[w].job /\ me.by = worker[w].by /\ me.pc = "gather"
    <3>1. worker[w] \in WorkerState
      BY <1>1, WorkerFacts
    <3> QED BY <2>1, <3>1 DEF WorkerState
  <2> HIDE DEF me
  <2>4. GoesOn(w)
    BY <1>3, <2>2, <2>3 DEF GoesOn, Working, AtWork, Loop
  <2>5. jobs' = jobs \/ jobs' = SetJob(worker[w].job, "running")
    BY <1>3 DEF Loop
  <2> QED BY <1>1, <2>2, <2>3, <2>4, <2>5 DEF Moves
<1> QED BY <1>2, <1>3

(* The first fetch of a worker is a move, *)
LEMMA StartMoves ==
  ASSUME JobsInv, NEW w \in Workers, StartWorker(w)
  PROVE  Moves(w)
BY Fetches DEF StartWorker

(* and so is every later one, and the end that a stop brings. *)
LEMMA NextChunkMoves ==
  ASSUME JobsInv, NEW w \in Workers, NextChunk(w)
  PROVE  Moves(w)
<1>1. CASE jobs[worker[w].job] \in {"stopped", "failed"}
  BY <1>1, Leaves DEF NextChunk, Working
<1>2. CASE jobs[worker[w].job] \notin {"stopped", "failed"}
  BY <1>2, Fetches DEF NextChunk
<1> QED BY <1>1, <1>2
-----------------------------------------------------------------------------
(* The rows that a worker writes back are rows. *)
LEMMA ProcessedRows ==
  ASSUME NEW row \in Row, NEW l, NEW tasks, NEW outcome, NEW r \in Processed(row, l, tasks, outcome)
  PROVE  r \in Row
<1>1. EnrichOutcomes(row, l, tasks) \subseteq {"pending", "completed", "no_content"}
  BY DEF EnrichOutcomes, Row
<1>2. CASE outcome = "ok"
  BY <1>1, <1>2 DEF Processed, Row
<1>3. CASE outcome # "ok"
  BY <1>3, JobsAssumption DEF Processed, Row
<1> QED BY <1>2, <1>3

(* What a chunk writes keeps the leads a table. *)
LEMMA WrittenRows ==
  ASSUME JobsInv, NEW w \in Workers, worker[w].pc \in Working,
         NEW outcome, NEW rows \in Rows(w, outcome)
  PROVE  Upserted(rows) \in [Leads -> Row \cup {NULL}]
<1> DEFINE after(l) == Processed(worker[w].chunk[l], l, worker[w].req.tasks, outcome[l])
           written == {l \in Chunk(w) : outcome[l] # "cancelled"}
<1>1. \A l \in written : worker[w].chunk[l] \in Row
  BY WorkerFacts DEF Chunk, WorkerState
<1>2. \A l \in written : after(l) \subseteq Row
  BY <1>1, ProcessedRows
<1>3. \A l \in Leads : IF l \in written THEN rows[l] \in after(l) ELSE rows[l] = NULL
  BY DEF Rows
<1>4. \A l \in Leads : rows[l] \in Row \cup {NULL}
  BY <1>2, <1>3
<1> QED BY <1>4, WorkerFacts DEF Upserted

(* A chunk is finite. *)
LEMMA ChunkSizes ==
  ASSUME NEW w \in Workers
  PROVE  Cardinality(Chunk(w)) \in Nat
<1>1. Chunk(w) \subseteq Leads
  BY DEF Chunk
<1>2. IsFiniteSet(Chunk(w))
  BY <1>1, JobsAssumption, FS_Subset
<1> QED BY <1>2, FS_CardinalityType

(* The end of a chunk is a move: more chunks, the end of the job, or a     *)
(* failed upsert.                                                          *)
LEMMA FinishMoves ==
  ASSUME JobsInv, NEW w \in Workers, FinishChunk(w)
  PROVE  Moves(w) /\ leads' \in [Leads -> Row \cup {NULL}] /\ faults' \subseteq FaultKinds
<1>1. worker[w].pc = "gather" /\ worker[w].pc \in Working
  BY DEF FinishChunk, Working
<1>2. PICK outcome \in [Chunk(w) -> {"ok", "failed", "cancelled"}],
           fails \in SUBSET (FaultKinds \cap {"upsert", "db"}) :
        /\ faults' = faults \cup fails
        /\ WriteChunk(w, outcome, fails)
        /\ IF Failures(w, outcome) >= MaxFailedBatches \/ "db" \in fails
           THEN GiveUp(w, fails)
           ELSE Sleep(w, Failures(w, outcome))
  BY DEF FinishChunk
<1>3. leads' \in [Leads -> Row \cup {NULL}]
  <2>1. CASE "upsert" \in fails
    BY <1>1, <1>2, <2>1, WorkerFacts DEF WriteChunk
  <2>2. CASE "upsert" \notin fails
    <3>1. PICK rows \in Rows(w, outcome) : leads' = Upserted(rows)
      BY <1>2, <2>2 DEF WriteChunk
    <3> QED BY <1>1, <3>1, WrittenRows
  <2> QED BY <2>1, <2>2
<1>4. faults' \subseteq FaultKinds /\ faults \subseteq faults'
  BY <1>1, <1>2, WorkerFacts
<1>5. CASE GiveUp(w, fails)
  <2>1. jobs' = SetJob(worker[w].job, "failed") \/ ("db" \in faults' /\ jobs' = jobs)
    BY <1>2, <1>5 DEF GiveUp
  <2>2. jobs'[worker[w].job] \in {"starting", "running"} => faults' \cap {"crash", "db"} # {}
    BY <1>1, <2>1, WorkerFacts, SetJobIs
  <2> QED BY <1>1, <1>3, <1>4, <1>5, <2>1, <2>2, Leaves DEF GiveUp
<1>6. CASE Sleep(w, Failures(w, outcome))
  <2> DEFINE listed == worker[w].req.ids # <<>>
             failures == Failures(w, outcome)
             pos == IF listed THEN worker[w].pos + Cardinality(Chunk(w)) ELSE worker[w].pos
             tried == [l \in Leads |-> IF listed /\ l \in Chunk(w)
                                       THEN worker[w].tried[l] + 1 ELSE worker[w].tried[l]]
             me == [worker[w] EXCEPT !.pc = "sleep", !.chunk = Nothing, !.failures = failures,
                                     !.pos = pos, !.tried = tried]
  <2>1. worker' = [worker EXCEPT ![w] = me] /\ worker'[w] = me
    BY <1>1, <1>6, WorkerFacts DEF Sleep
  <2>2. failures \in Nat /\ pos \in Nat /\ tried \in [Leads -> Nat]
    BY <1>1, WorkerFacts, ChunkSizes DEF WorkerState, Failures
  <2>3. Nothing \in [Leads -> Row \cup {NULL}]
    BY DEF Nothing
  <2> HIDE DEF failures, pos, tried
  <2>4. me \in WorkerState /\ me.job = worker[w].job /\ me.by = worker[w].by /\ me.pc = "sleep"
    <3>1. worker[w] \in WorkerState
      BY <1>1, WorkerFacts
    <3> HIDE DEF Nothing
    <3> QED BY <2>2, <2>3, <3>1 DEF WorkerState
  <2> HIDE DEF me
  <2>5. GoesOn(w)
    BY <1>6, <2>1, <2>4 DEF GoesOn, Working, AtWork, Sleep
  <2>6. jobs' = jobs
    BY <1>6 DEF Sleep
  <2> QED BY <1>1, <1>3, <1>4, <2>1, <2>4, <2>5, <2>6 DEF Moves
<1> QED BY <1>2, <1>5, <1>6
-----------------------------------------------------------------------------
(* A discovery, which has no auditor. *)
LEMMA Searches ==
  ASSUME JobsInv, NEW w \in Workers, worker[w].pc \in {"waiting", "searching"},
         NEW pc \in {"searching", "ended"}, worker' = [worker EXCEPT ![w].pc = pc],
         jobs' = jobs \/ \E st \in {"running", "completed", "failed"} : jobs' = SetJob(worker[w].job, st),
         pc = "ended" =>
           (jobs'[worker[w].job] \in {"starting", "running"} => faults' \cap {"crash", "db"} # {}),
         auditors' = auditors, faults \subseteq faults'
  PROVE  Moves(w)
<1>1. worker[w].pc \in Working
  BY DEF Working
<1> DEFINE me == [worker[w] EXCEPT !.pc = pc]
<1>2. worker' = [worker EXCEPT ![w] = me] /\ worker'[w] = me
  BY <1>1, WorkerFacts
<1>3. me \in WorkerState /\ me.job = worker[w].job /\ me.by = worker[w].by /\ me.pc = pc
  <2>1. worker[w] \in WorkerState
    BY <1>1, WorkerFacts
  <2> QED BY <2>1 DEF WorkerState
<1> HIDE DEF me
<1>4. CASE pc = "searching"
  BY <1>1, <1>2, <1>3, <1>4 DEF Moves, GoesOn, Working, AtWork
<1>5. CASE pc = "ended"
  BY <1>1, <1>2, <1>3, <1>5 DEF Moves, Ends
<1> QED BY <1>4, <1>5

(* What a discovery writes keeps the leads a table. *)
LEMMA DiscoveredRows ==
  ASSUME JobsInv, NEW found
  PROVE  Discovered(found) \in [Leads -> Row \cup {NULL}]
<1>1. leads \in [Leads -> Row \cup {NULL}]
  BY DEF JobsInv, JobsTypeOK
<1>2. NewRow \in Row /\ \A r \in Row : [r EXCEPT !.audit = "pending"] \in Row
  BY DEF NewRow, Row
<1> QED BY <1>1, <1>2 DEF Discovered

(* The two steps of a discovery are moves. *)
LEMMA DiscoveryMoves ==
  ASSUME JobsInv, NEW w \in Workers, StartDiscovery(w) \/ FinishDiscovery(w)
  PROVE  Moves(w) /\ leads' \in [Leads -> Row \cup {NULL}] /\ faults' = faults
<1>1. worker[w].pc \in {"waiting", "searching"} /\ worker[w].pc \in Working
  BY DEF StartDiscovery, FinishDiscovery, Turn, Working
<1>2. faults' = faults /\ auditors' = auditors /\ leads' \in [Leads -> Row \cup {NULL}]
  BY <1>1, DiscoveredRows, WorkerFacts DEF StartDiscovery, FinishDiscovery
<1>3. CASE StartDiscovery(w)
  BY <1>1, <1>2, <1>3, Searches DEF StartDiscovery
<1>4. CASE FinishDiscovery(w)
  <2>1. PICK st \in {"completed", "failed"} : jobs' = SetJob(worker[w].job, st)
    BY <1>4 DEF FinishDiscovery
  <2>2. jobs'[worker[w].job] \notin {"starting", "running"}
    BY <1>1, <2>1, WorkerFacts, SetJobIs
  <2>3. worker' = [worker EXCEPT ![w].pc = "ended"]
    BY <1>4 DEF FinishDiscovery
  <2> QED BY <1>1, <1>2, <2>1, <2>2, <2>3, Searches
<1> QED BY <1>2, <1>3, <1>4

(* The steps that fail. *)
LEMMA FailuresMove ==
  ASSUME JobsInv, NEW w \in Workers, WorkerFails(w) \/ DiscoveryFails(w)
  PROVE  Moves(w) /\ leads' \in [Leads -> Row \cup {NULL}] /\ faults' \subseteq FaultKinds
<1>1. worker[w].pc \in Working
  BY DEF WorkerFails, DiscoveryFails, Turn, Working
<1>2. faults' \subseteq FaultKinds /\ faults \subseteq faults'
  BY <1>1, WorkerFacts DEF WorkerFails, DiscoveryFails, Fault
<1>3. leads' \in [Leads -> Row \cup {NULL}]
  BY <1>1, WorkerFacts, DiscoveredRows DEF WorkerFails, DiscoveryFails
<1>4. CASE WorkerFails(w)
  <2>1. Leave(w, "failed") /\ "db" \in faults'
    BY <1>4 DEF WorkerFails, Fault
  <2>2. jobs' = jobs \/ \E st \in {"running", "completed", "failed"} : jobs' = SetJob(worker[w].job, st)
    BY <1>4 DEF WorkerFails
  <2> QED BY <1>1, <1>2, <1>3, <2>1, <2>2, Leaves
<1>5. CASE DiscoveryFails(w)
  <2>1. worker[w].pc \in {"waiting", "searching"} /\ worker' = [worker EXCEPT ![w].pc = "ended"]
        /\ auditors' = auditors
    BY <1>5 DEF DiscoveryFails, Turn
  <2>2. \/ jobs' = SetJob(worker[w].job, "completed")
        \/ "db" \in faults' /\ (jobs' = jobs \/ jobs' = SetJob(worker[w].job, "failed"))
    BY <1>5 DEF DiscoveryFails, Fault
  <2>3. jobs'[worker[w].job] \in {"starting", "running"} => faults' \cap {"crash", "db"} # {}
    BY <1>1, <2>2, WorkerFacts, SetJobIs
  <2> QED BY <1>2, <1>3, <2>1, <2>2, <2>3, Searches
<1> QED BY <1>4, <1>5

(* Every step of a worker, and every failure of one, keeps the invariant. *)
LEMMA WorkersPreserve ==
  ASSUME JobsInv, NEW w \in Workers,
         WorkerStep(w) \/ ((WorkerFails(w) \/ DiscoveryFails(w)) /\ UNCHANGED <<launch, purge>>)
  PROVE  JobsInv'
<1>1. CASE StartWorker(w) \/ NextChunk(w)
  <2>1. Moves(w) /\ leads' = leads /\ faults' = faults
    BY <1>1, StartMoves, NextChunkMoves DEF StartWorker, NextChunk
  <2> QED BY <1>1, <2>1, MovePreserves
          DEF JobsInv, JobsTypeOK, WorkerStep, WorkerFails, DiscoveryFails, StartWorker, NextChunk
<1>2. UNCHANGED <<launch, purge>>
  BY DEF WorkerStep
<1>3. CASE FinishChunk(w)
  BY <1>2, <1>3, FinishMoves, MovePreserves
<1>4. CASE StartDiscovery(w) \/ FinishDiscovery(w)
  BY <1>2, <1>4, DiscoveryMoves, MovePreserves DEF JobsInv, JobsTypeOK
<1>5. CASE WorkerFails(w) \/ DiscoveryFails(w)
  BY <1>2, <1>5, FailuresMove, MovePreserves
<1> QED BY <1>1, <1>3, <1>4, <1>5 DEF WorkerStep
-----------------------------------------------------------------------------
(* The launches: a job that is running belongs to a launch until it has a  *)
(* worker.                                                                 *)
LEMMA RequestsTyped ==
  ASSUME NEW o \in Orchestrators, NEW req \in Requests[o]
  PROVE  req \in [ids : Seq(Leads), tasks : SUBSET Tasks]
BY JobsAssumption

(* A launch that looks for a running job has not changed any. *)
LEMMA FindsRunning ==
  ASSUME JobsInv, NEW o \in Orchestrators, NEW req \in Requests[o], FindRunningJob(o, req),
         UNCHANGED <<leads, auditors, purge, faults>>
  PROVE  JobsInv'
<1>1. PICK pc \in {"insert", "spawn"}, j \in Jobs \cup {NULL} :
        /\ launch' = [launch EXCEPT ![o] = [pc |-> pc, req |-> req, job |-> j]]
        /\ IF pc = "spawn" THEN j \in Jobs ELSE j = NULL
  BY DEF FindRunningJob
<1>2. UNCHANGED <<jobs, worker>> /\ launch[o].pc = "idle"
  BY DEF FindRunningJob
<1>3. launch \in [Orchestrators -> [pc : {"idle", "insert", "spawn"}, job : Jobs \cup {NULL},
                                    req : [ids : Seq(Leads), tasks : SUBSET Tasks]]]
  BY DEF JobsInv, JobsTypeOK
<1>4. JobsTypeOK'
  BY <1>1, <1>2, <1>3, RequestsTyped DEF JobsInv, JobsTypeOK
<1>5. WorkersNamed' /\ LaunchesNamed' /\ AppAuditors' /\ AuditorsAreLive'
  BY <1>1, <1>2, <1>3 DEF JobsInv, WorkersNamed, LaunchesNamed, AppAuditors, AuditorsAreLive
<1>6. ASSUME NEW i \in Jobs, Attended(i) PROVE Attended(i)'
  <2>1. launch[o].job # i
    BY <1>2, JobsAssumption DEF JobsInv, LaunchesNamed
  <2> QED BY <1>1, <1>2, <1>3, <1>6, <2>1 DEF Attended, On
<1>7. NoOrphanedJob'
  BY <1>2, <1>6 DEF JobsInv, NoOrphanedJob
<1> QED BY <1>4, <1>5, <1>7 DEF JobsInv

(* A job is inserted as running while its launch is there to attend it. *)
LEMMA InsertsJob ==
  ASSUME JobsInv, NEW o \in Orchestrators, NEW req \in Requests[o], NEW j \in Jobs, InsertJob(o, req, j),
         UNCHANGED <<leads, auditors, purge, faults>>
  PROVE  JobsInv'
<1>1. /\ launch' = [launch EXCEPT ![o] = [pc |-> "spawn", req |-> req, job |-> j]]
      /\ jobs' = [jobs EXCEPT ![j] = "running"] /\ worker' = worker /\ launch[o].pc \in {"idle", "insert"}
  BY DEF InsertJob
<1>2. /\ launch \in [Orchestrators -> [pc : {"idle", "insert", "spawn"}, job : Jobs \cup {NULL},
                                       req : [ids : Seq(Leads), tasks : SUBSET Tasks]]]
      /\ jobs \in [Jobs -> JobStatus]
  BY DEF JobsInv, JobsTypeOK
<1>3. JobsTypeOK'
  BY <1>1, <1>2, RequestsTyped DEF JobsInv, JobsTypeOK, JobStatus
<1>4. WorkersNamed' /\ LaunchesNamed' /\ AppAuditors' /\ AuditorsAreLive'
  BY <1>1, <1>2 DEF JobsInv, WorkersNamed, LaunchesNamed, AppAuditors, AuditorsAreLive
<1>5. ASSUME NEW i \in Jobs, Attended(i) \/ i = j PROVE Attended(i)'
  <2>1. CASE i = j
    BY <1>1, <1>2, <2>1 DEF Attended
  <2>2. CASE i # j
    <3>1. launch[o].job # i
      BY <1>1, JobsAssumption DEF JobsInv, LaunchesNamed
    <3> QED BY <1>1, <1>2, <1>5, <2>2, <3>1 DEF Attended, On
  <2> QED BY <2>1, <2>2
<1>6. NoOrphanedJob'
  BY <1>1, <1>2, <1>5 DEF JobsInv, NoOrphanedJob
<1> QED BY <1>3, <1>4, <1>6 DEF JobsInv

(* A new worker is attached to no auditor. *)
LEMMA SpawnedWorker ==
  ASSUME JobsInv, NEW o \in Orchestrators, NEW w \in Workers, NEW j \in Jobs,
         NEW req \in [ids : Seq(Leads), tasks : SUBSET Tasks], NEW pc \in {"spawned", "waiting"},
         Spawn(o, w, j, req, pc)
  PROVE  /\ worker' \in [Workers -> WorkerState]
         /\ worker'[w].job = j /\ worker'[w].pc \in Working
         /\ worker[w].pc = "free" /\ \A v \in Workers \ {w} : worker'[v] = worker[v]
<1>1. worker \in [Workers -> WorkerState] /\ worker[w] \in WorkerState
  BY DEF JobsInv, JobsTypeOK
<1> DEFINE me == [worker[w] EXCEPT !.pc = pc, !.by = o, !.job = j, !.req = req]
<1>2. worker' = [worker EXCEPT ![w] = me] /\ worker'[w] = me /\ worker[w].pc = "free"
  BY <1>1 DEF Spawn
<1>3. me \in WorkerState /\ me.job = j /\ me.pc = pc
  BY <1>1 DEF WorkerState
<1> HIDE DEF me
<1> QED BY <1>1, <1>2, <1>3 DEF Working

(* A worker is on the job when the launch lets go of it. *)
LEMMA SpawnsWorker ==
  ASSUME JobsInv, NEW o \in Orchestrators, NEW w \in Workers,
         SpawnWorker(o, w) \/ \E j \in Jobs : RunDiscoveryJob(o, w, j),
         UNCHANGED <<leads, auditors, purge, faults>>
  PROVE  JobsInv'
<1>1. /\ launch \in [Orchestrators -> [pc : {"idle", "insert", "spawn"}, job : Jobs \cup {NULL},
                                       req : [ids : Seq(Leads), tasks : SUBSET Tasks]]]
      /\ jobs \in [Jobs -> JobStatus] /\ auditors \in [Jobs -> Workers \cup {NULL}]
  BY DEF JobsInv, JobsTypeOK
<1>2. NoRequest \in [ids : Seq(Leads), tasks : SUBSET Tasks]
  BY DEF NoRequest
<1>3. PICK j \in Jobs, req \in [ids : Seq(Leads), tasks : SUBSET Tasks], pc \in {"spawned", "waiting"} :
        /\ Spawn(o, w, j, req, pc)
        /\ \/ jobs' = jobs /\ launch[o].job = j /\ launch' = [launch EXCEPT ![o] = Unlocked]
           \/ jobs' = [jobs EXCEPT ![j] = "starting"] /\ launch' = launch
  <2>1. CASE SpawnWorker(o, w)
    BY <1>1, <2>1 DEF SpawnWorker, JobsInv, LaunchesNamed
  <2>2. CASE \E j \in Jobs : RunDiscoveryJob(o, w, j)
    BY <1>2, <2>2 DEF RunDiscoveryJob
  <2> QED BY <2>1, <2>2
<1>4. /\ worker' \in [Workers -> WorkerState]
      /\ worker'[w].job = j /\ worker'[w].pc \in Working
      /\ worker[w].pc = "free" /\ \A v \in Workers \ {w} : worker'[v] = worker[v]
  BY <1>3, SpawnedWorker
<1>5. jobs' \in [Jobs -> JobStatus] /\ UNCHANGED <<leads, auditors, purge, faults>>
  BY <1>1, <1>3 DEF JobStatus
<1>6. JobsTypeOK' /\ LaunchesNamed'
  <2>1. CASE launch' = launch
    BY <1>1, <1>4, <1>5, <2>1 DEF JobsInv, JobsTypeOK, LaunchesNamed
  <2>2. CASE launch' = [launch EXCEPT ![o] = Unlocked]
    BY <1>1, <1>2, <1>4, <1>5, <2>2 DEF JobsInv, JobsTypeOK, LaunchesNamed, Unlocked
  <2> QED BY <1>3, <2>1, <2>2
<1>7. WorkersNamed' /\ AppAuditors' /\ AuditorsAreLive'
  <2>1. \A v \in Workers : worker[v].pc # "free" => worker'[v] = worker[v]
    BY <1>4
  <2>2. ASSUME NEW i \in Jobs, auditors[i] # NULL
        PROVE  worker'[auditors[i]] = worker[auditors[i]]
    <3>1. auditors[i] \in Workers /\ worker[auditors[i]].pc # "free"
      BY <1>1, <2>2 DEF JobsInv, AuditorsAreLive
    <3> QED BY <2>1, <3>1
  <2>3. AppAuditors' /\ AuditorsAreLive'
    BY <1>5, <2>2 DEF JobsInv, AppAuditors, AuditorsAreLive
  <2>4. WorkersNamed'
    BY <1>4 DEF JobsInv, WorkersNamed
  <2> QED BY <2>3, <2>4
<1>8. ASSUME NEW i \in Jobs, Attended(i) \/ i = j PROVE Attended(i)'
  <2>1. CASE i = j
    BY <1>4, <2>1 DEF Attended, On
  <2>2. CASE i # j
    <3>1. \A v \in Workers : v \in On(i) => v \in On(i)'
      BY <1>4 DEF On, Working
    <3>2. \A q \in Orchestrators : launch[q].job = i => launch'[q].job = i
      BY <1>1, <1>3, <2>2
    <3> QED BY <1>8, <2>2, <3>1, <3>2 DEF Attended, On
  <2> QED BY <2>1, <2>2
<1>9. NoOrphanedJob'
  BY <1>1, <1>3, <1>8 DEF JobsInv, NoOrphanedJob
<1> QED BY <1>6, <1>7, <1>9 DEF JobsInv

(* Every step of a launch keeps the invariant. *)
LEMMA LaunchPreserves == ASSUME JobsInv, NEW o \in Orchestrators, Launch(o) PROVE JobsInv'
BY FindsRunning, InsertsJob, SpawnsWorker DEF Launch
-----------------------------------------------------------------------------
(* What stops, deletes or fails jobs leaves no more of them running. *)
LEMMA Fewer ==
  ASSUME JobsInv, UNCHANGED <<leads, auditors, launch, worker, faults>>,
         jobs' \in [Jobs -> JobStatus], purge' \subseteq {"clear", "jobs_erased", "erase"},
         \A j \in Jobs : jobs'[j] = jobs[j] \/ jobs'[j] \notin {"starting", "running"}
  PROVE  JobsInv'
BY DEF JobsInv, JobsTypeOK, WorkersNamed, LaunchesNamed, AppAuditors, AuditorsAreLive, NoOrphanedJob,
       Attended, On

(* A stop leaves no more jobs running, and every worker where it is. *)
LEMMA StopPreserves ==
  ASSUME JobsInv, Stop
  PROVE  JobsInv'
<1>1. /\ worker \in [Workers -> WorkerState] /\ jobs \in [Jobs -> JobStatus]
      /\ auditors \in [Jobs -> Workers \cup {NULL}]
  BY DEF JobsInv, JobsTypeOK
<1>2. UNCHANGED <<leads, auditors, launch, purge, faults>>
  BY DEF Stop
<1>3. jobs' \in [Jobs -> JobStatus] /\ \A j \in Jobs : jobs'[j] = jobs[j] \/ jobs'[j] = "stopped"
  BY <1>1 DEF Stop, StopAll, StopJob, JobStatus
<1>4. /\ worker' \in [Workers -> WorkerState]
      /\ \A w \in Workers : /\ worker'[w].pc = worker[w].pc /\ worker'[w].job = worker[w].job
                            /\ worker'[w].by = worker[w].by
  <2>1. CASE StopAll
    BY <1>1, <2>1 DEF StopAll
  <2>2. ASSUME NEW j \in Jobs, StopJob(j), auditors[j] # NULL
        PROVE  <1>4
    <3>1. PICK a \in Workers : a = auditors[j]
      BY <1>1, <2>2
    <3>2. worker' = [worker EXCEPT ![a].cancelled = TRUE]
      BY <2>2, <3>1 DEF StopJob
    <3>3. ASSUME NEW w \in Workers
          PROVE  LET r == [worker[w] EXCEPT !.cancelled = TRUE]
                 IN  /\ r \in WorkerState
                     /\ r.pc = worker[w].pc /\ r.job = worker[w].job /\ r.by = worker[w].by
      <4>1. worker[w] \in WorkerState
        BY <1>1
      <4> QED BY <4>1 DEF WorkerState
    <3>4. \A w \in Workers : worker'[w] = IF w = a THEN [worker[w] EXCEPT !.cancelled = TRUE] ELSE worker[w]
      BY <1>1, <3>2
    <3>5. worker' \in [Workers -> WorkerState]
      BY <1>1, <3>2, <3>3
    <3> QED BY <3>3, <3>4, <3>5
  <2>3. ASSUME NEW j \in Jobs, StopJob(j), auditors[j] = NULL
        PROVE  <1>4
    BY <1>1, <2>3 DEF StopJob
  <2> QED BY <2>1, <2>2, <2>3 DEF Stop
<1>5. JobsTypeOK' /\ WorkersNamed' /\ LaunchesNamed'
  BY <1>2, <1>3, <1>4 DEF JobsInv, JobsTypeOK, WorkersNamed, LaunchesNamed
<1>6. AppAuditors' /\ AuditorsAreLive'
  BY <1>1, <1>2, <1>4 DEF JobsInv, AppAuditors, AuditorsAreLive
<1>7. NoOrphanedJob'
  BY <1>1, <1>2, <1>3, <1>4 DEF JobsInv, NoOrphanedJob, Attended, On
<1> QED BY <1>5, <1>6, <1>7 DEF JobsInv

(* The deletion of leads and of jobs leaves no job running. *)
LEMMA PurgePreserves ==
  ASSUME JobsInv, Purge
  PROVE  JobsInv'
<1>1. /\ leads \in [Leads -> Row \cup {NULL}] /\ jobs \in [Jobs -> JobStatus]
      /\ purge \subseteq {"clear", "jobs_erased", "erase"}
  BY DEF JobsInv, JobsTypeOK
<1>2. leads' \in [Leads -> Row \cup {NULL}]
  BY <1>1 DEF Purge, ClearLeads, EraseJobs, EraseLeads, Nothing
<1>3. jobs' \in [Jobs -> JobStatus]
      /\ \A j \in Jobs : jobs'[j] = jobs[j] \/ jobs'[j] \notin {"starting", "running"}
  BY <1>1 DEF Purge, ClearLeads, EraseJobs, EraseLeads, WithoutJobs, JobStatus
<1>4. purge' \subseteq {"clear", "jobs_erased", "erase"} /\ UNCHANGED <<auditors, launch, worker, faults>>
  BY <1>1 DEF Purge, ClearLeads, EraseJobs, EraseLeads
<1> QED BY <1>2, <1>3, <1>4
        DEF JobsInv, JobsTypeOK, WorkersNamed, LaunchesNamed, AppAuditors, AuditorsAreLive,
            NoOrphanedJob, Attended, On

(* The zombie sweep only fails jobs. *)
LEMMA HealPreserves ==
  ASSUME JobsInv, HealZombies
  PROVE  JobsInv'
<1>1. jobs' \in [Jobs -> JobStatus]
      /\ \A j \in Jobs : jobs'[j] = jobs[j] \/ jobs'[j] \notin {"starting", "running"}
  BY DEF JobsInv, JobsTypeOK, HealZombies, JobStatus
<1> QED BY <1>1, Fewer DEF HealZombies, JobsInv, JobsTypeOK

(* A crash: what is left running is excused. *)
LEMMA RestartPreserves ==
  ASSUME JobsInv, Restart
  PROVE  JobsInv'
<1>1. worker \in [Workers -> WorkerState] /\ jobs \in [Jobs -> JobStatus]
  BY DEF JobsInv, JobsTypeOK
<1>2. /\ worker' \in [Workers -> WorkerState]
      /\ \A w \in Workers : worker'[w].pc # "free" => worker'[w].job \in Jobs
  <2>1. Nothing \in [Leads -> Row \cup {NULL}]
    BY DEF Nothing
  <2>2. ASSUME NEW w \in Workers, worker[w].pc # "free"
        PROVE  LET r == [worker[w] EXCEPT !.pc = "ended", !.chunk = Nothing]
               IN  r \in WorkerState /\ r.job \in Jobs
    <3>1. worker[w] \in WorkerState /\ worker[w].job \in Jobs
      BY <1>1, <2>2 DEF JobsInv, WorkersNamed
    <3> HIDE DEF Nothing
    <3> QED BY <2>1, <3>1 DEF WorkerState
  <2>3. ASSUME NEW w \in Workers
        PROVE  worker'[w] \in WorkerState /\ (worker'[w].pc # "free" => worker'[w].job \in Jobs)
    <3>1. CASE worker[w].pc = "free"
      BY <1>1, <3>1 DEF Restart
    <3>2. CASE worker[w].pc # "free"
      <4>1. worker'[w] = [worker[w] EXCEPT !.pc = "ended", !.chunk = Nothing]
        BY <3>2 DEF Restart
      <4> QED BY <2>2, <3>2, <4>1
    <3> QED BY <3>1, <3>2
  <2> QED BY <2>3 DEF Restart
<1>3. /\ faults' = faults \cup {"crash"} /\ faults' \subseteq FaultKinds
      /\ jobs' \in [Jobs -> JobStatus] /\ auditors' = [j \in Jobs |-> NULL]
      /\ launch' = [o \in Orchestrators |-> Unlocked] /\ UNCHANGED <<leads, purge>>
  BY <1>1 DEF Restart, Fault, JobsInv, JobsTypeOK, JobStatus
<1>4. NoRequest \in [ids : Seq(Leads), tasks : SUBSET Tasks]
  BY DEF NoRequest
<1>5. JobsTypeOK' /\ LaunchesNamed'
  BY <1>2, <1>3, <1>4 DEF JobsInv, JobsTypeOK, LaunchesNamed, Unlocked
<1>6. WorkersNamed' /\ AppAuditors' /\ AuditorsAreLive' /\ NoOrphanedJob'
  BY <1>2, <1>3 DEF WorkersNamed, AppAuditors, AuditorsAreLive, NoOrphanedJob
<1> QED BY <1>5, <1>6 DEF JobsInv
-----------------------------------------------------------------------------
(* At first there is no job and nobody at work. *)
LEMMA JobsInvInit == Init => JobsInv
<1> SUFFICES ASSUME Init PROVE JobsInv
  OBVIOUS
<1>1. NoRequest \in [ids : Seq(Leads), tasks : SUBSET Tasks] /\ NewRow \in Row
      /\ Nothing \in [Leads -> Row \cup {NULL}]
  BY DEF NoRequest, NewRow, Row, Nothing
<1>2. \A w \in Workers : worker[w] \in WorkerState /\ worker[w].pc = "free"
  BY <1>1 DEF Init, WorkerState, Orchestrators
<1>3. JobsTypeOK /\ LaunchesNamed
  BY <1>1, <1>2 DEF Init, JobsTypeOK, JobStatus, Unlocked, LaunchesNamed
<1>4. WorkersNamed /\ AppAuditors /\ AuditorsAreLive /\ NoOrphanedJob
  BY <1>2 DEF Init, WorkersNamed, AppAuditors, AuditorsAreLive, NoOrphanedJob
<1> QED BY <1>3, <1>4 DEF JobsInv

(* Every step of launches, workers, stops, purges and crashes keeps the    *)
(* invariant.                                                              *)
LEMMA JobsInvNext == JobsInv /\ [Next]_vars => JobsInv'
<1> SUFFICES ASSUME JobsInv, [Next]_vars PROVE JobsInv'
  OBVIOUS
<1>1. CASE UNCHANGED vars
  BY <1>1 DEF vars, JobsInv, JobsTypeOK, WorkersNamed, LaunchesNamed, AppAuditors, AuditorsAreLive,
              NoOrphanedJob, Attended, On
<1> QED BY <1>1, LaunchPreserves, WorkersPreserve, StopPreserves, PurgePreserves, RestartPreserves,
           HealPreserves DEF Next

(* Jobs, workers, auditors and launches keep their types. *)
THEOREM JobTypes == Spec => []JobsTypeOK
<1>1. JobsInv => JobsTypeOK
  BY DEF JobsInv
<1> QED BY <1>1, JobsInvInit, JobsInvNext, PTL DEF Spec

(* stop_job reaches only for auditors that are at work, however many       *)
(* workers share the job and whichever of them ends first.                 *)
THEOREM AuditorsLive == Spec => []AuditorsAreLive
<1>1. JobsInv => AuditorsAreLive
  BY DEF JobsInv
<1> QED BY <1>1, JobsInvInit, JobsInvNext, PTL DEF Spec

(* Without a crash or a lost write, no job is left 'starting' or 'running' *)
(* with nobody at work on it.                                              *)
THEOREM JobsAttended == Spec => []NoOrphanedJob
<1>1. JobsInv => NoOrphanedJob
  BY DEF JobsInv
<1> QED BY <1>1, JobsInvInit, JobsInvNext, PTL DEF Spec
-----------------------------------------------------------------------------
(* What StopIsUndoneBy says of a step. *)
Undone ==
  \A j \in Jobs : jobs[j] = "stopped" /\ jobs'[j] \notin {"stopped", "deleted"} =>
    \/ jobs'[j] = "failed"
    \/ \E w \in On(j) : worker[w].pc \in {"spawned", "waiting", "searching"}

(* A worker undoes a stop only as the property names. *)
LEMMA WorkersUndo ==
  ASSUME JobsInv, NEW w \in Workers, WorkerStep(w) \/ WorkerFails(w) \/ DiscoveryFails(w)
  PROVE  Undone
<1>1. worker[w].pc \in Working
  BY DEF WorkerStep, StartWorker, NextChunk, FinishChunk, StartDiscovery, FinishDiscovery, WorkerFails,
         DiscoveryFails, Turn, Working
<1> DEFINE job == worker[w].job
<1>2. job \in Jobs /\ jobs \in [Jobs -> JobStatus] /\ w \in On(job)
  BY <1>1, WorkerFacts DEF On
<1>3. CASE worker[w].pc \in {"spawned", "waiting", "searching"}
  <2>1. jobs' = jobs \/ \E st \in {"running", "completed", "failed"} : jobs' = SetJob(job, st)
    BY <1>3 DEF WorkerStep, StartWorker, Loop, NextChunk, FinishChunk, StartDiscovery, FinishDiscovery,
                WorkerFails, DiscoveryFails
  <2>2. \A j \in Jobs \ {job} : jobs'[j] = jobs[j]
    BY <1>2, <2>1, SetJobIs
  <2> QED BY <1>2, <1>3, <2>2 DEF Undone
<1>4. CASE worker[w].pc \in {"gather", "sleep"}
  <2>1. \/ jobs' = jobs
        \/ jobs' = SetJob(job, "failed")
        \/ jobs[job] # "stopped" /\ jobs' = SetJob(job, "completed")
    BY <1>4 DEF WorkerStep, StartWorker, NextChunk, Loop, FinishChunk, GiveUp, Sleep, StartDiscovery, Turn,
                FinishDiscovery, WorkerFails, DiscoveryFails
  <2> QED BY <1>2, <2>1, SetJobIs DEF Undone
<1> QED BY <1>1, <1>3, <1>4 DEF Working

(* Nobody else undoes one. *)
LEMMA StepUndoes == JobsInv /\ [Next]_vars => [Undone]_vars
<1> SUFFICES ASSUME JobsInv, Next PROVE Undone
  OBVIOUS
<1>1. jobs \in [Jobs -> JobStatus]
  BY DEF JobsInv, JobsTypeOK
<1>2. ASSUME NEW o \in Orchestrators, Launch(o) PROVE Undone
  BY <1>1, <1>2 DEF Launch, FindRunningJob, InsertJob, SpawnWorker, RunDiscoveryJob, NewJob, Undone
<1>3. CASE Stop
  BY <1>1, <1>3 DEF Stop, StopAll, StopJob, Undone
<1>4. CASE Purge
  BY <1>1, <1>4 DEF Purge, ClearLeads, EraseJobs, EraseLeads, WithoutJobs, Undone
<1>5. CASE Restart \/ HealZombies
  BY <1>1, <1>5 DEF Restart, HealZombies, Undone
<1> QED BY <1>2, <1>3, <1>4, <1>5, WorkersUndo DEF Next

(* A stop that was written is undone only by the failure of the worker     *)
(* that was at work, or by one that had not begun to look for stops.       *)
THEOREM StopUndone == Spec => StopIsUndoneBy
<1>1. JobsInv /\ [Next]_vars => [Undone]_vars
  BY StepUndoes
<1> QED BY <1>1, JobsInvInit, JobsInvNext, PTL DEF Spec, StopIsUndoneBy, Undone
-----------------------------------------------------------------------------
(* The lists of leads. *)

(* No request lists a lead twice.  Neither the endpoints nor the           *)
(* orchestrator see to it.                                                 *)
NoRepeats == \A o \in Orchestrators : \A req \in Requests[o] : IsInjective(req.ids)

Listing(req) == req.ids # <<>> /\ {req.ids[i] : i \in DOMAIN req.ids} \subseteq Known

(* A worker with the record r has worked on the first pos leads of its     *)
(* list, on each once; the chunk in flight is the next slice.  That is so  *)
(* while the table is whole: no purge has begun.                           *)
Walked(r, whole) ==
  /\ IsInjective(r.req.ids)
  /\ r.pc # "ended" => r.result # "completed"
  /\ r.pc = "free" => r.pos = 0 /\ \A l \in Leads : r.tried[l] = 0
  /\ Listing(r.req) /\ whole =>
       /\ r.pc \in {"spawned", "gather", "sleep"} =>
            /\ r.pos <= Len(r.req.ids)
            /\ \A i \in DOMAIN r.req.ids : r.tried[r.req.ids[i]] = IF i <= r.pos THEN 1 ELSE 0
       /\ r.pc = "gather" => {l \in Leads : r.chunk[l] # NULL} = Slice(r.req.ids, r.pos)
       /\ r.result = "completed" => \A i \in DOMAIN r.req.ids : r.tried[r.req.ids[i]] = 1

LaunchesOnce == \A o \in Orchestrators : IsInjective(launch[o].req.ids)

KnownRemain == purge = {} => Known \subseteq Present

WalkInv == LaunchesOnce /\ KnownRemain /\ \A w \in Workers : Walked(worker[w], purge = {})

(* The size of a slice of a list without repetitions. *)
LEMMA SliceSize ==
  ASSUME NEW ids \in Seq(Leads), IsInjective(ids), NEW pos \in Nat, pos <= Len(ids)
  PROVE  /\ pos + Cardinality(Slice(ids, pos)) \in Nat
         /\ pos + Cardinality(Slice(ids, pos)) <= Len(ids)
         /\ \A i \in DOMAIN ids : ids[i] \in Slice(ids, pos) <=> pos < i /\ i <= pos + ChunkSize
         /\ \A i \in DOMAIN ids : i <= pos + Cardinality(Slice(ids, pos)) <=> i <= pos + ChunkSize
<1> DEFINE n == Len(ids)
           last == IF pos + ChunkSize < n THEN pos + ChunkSize ELSE n
           places == (pos + 1)..last
           slice == Slice(ids, pos)
           f == [i \in places |-> ids[i]]
<1>1. n \in Nat /\ DOMAIN ids = 1..n /\ ChunkSize \in Nat /\ ChunkSize # 0 /\ last \in Nat /\ last <= n /\ pos <= last
  BY JobsAssumption
<1>2. places \subseteq 1..n /\ \A i \in 1..n : i \in places <=> pos < i /\ i <= pos + ChunkSize
  BY <1>1
<1>3. slice = {ids[i] : i \in places}
  BY <1>1, <1>2 DEF Slice
<1>4. \A i, j \in 1..n : ids[i] = ids[j] => i = j
  BY <1>1 DEF IsInjective
<1> HIDE DEF slice
<1>5. f \in Bijection(places, slice)
  <2> HIDE DEF places
  <2> QED BY <1>2, <1>3, <1>4 DEF Bijection, Injection, Surjection, IsInjective
<1>6. IsFiniteSet(places) /\ Cardinality(places) = last - pos
  <2>1. IsFiniteSet(places) /\ Cardinality(places) = IF pos + 1 > last THEN 0 ELSE last - (pos + 1) + 1
    <3>1. pos + 1 \in Int /\ last \in Int
      BY <1>1
    <3> HIDE DEF last
    <3> QED BY <3>1, FS_Interval
  <2> QED BY <1>1, <2>1
<1>7. Cardinality(slice) = last - pos
  <2> HIDE DEF places, f
  <2> QED BY <1>5, <1>6, FS_Bijection DEF ExistsBijection
<1>8. pos + Cardinality(slice) = last
  BY <1>1, <1>7
<1>9. \A i \in 1..n : ids[i] \in slice <=> i \in places
  BY <1>2, <1>3, <1>4
<1>10. \A i \in 1..n : i <= last <=> i <= pos + ChunkSize
  BY <1>1
<1> HIDE DEF last, places
<1> QED BY <1>1, <1>2, <1>8, <1>9, <1>10 DEF slice
-----------------------------------------------------------------------------
(* What changes no list, no place in it and no count changes nothing. *)
LEMMA SameWalk ==
  ASSUME NEW r, NEW s, Walked(r, purge = {}), purge' = {} => purge = {},
         s.req = r.req, s.pos = r.pos, s.tried = r.tried, s.result = r.result,
         \/ s.pc = r.pc /\ s.chunk = r.chunk
         \/ s.pc = "ended" /\ r.pc # "free"
  PROVE  Walked(s, purge' = {})
BY DEF Walked, Listing, Slice

(* The rows of a worker's own move: the others keep theirs. *)
LEMMA OneWalks ==
  ASSUME JobsInv, WalkInv, NEW w \in Workers, NEW me, worker' = [worker EXCEPT ![w] = me],
         Walked(me, purge' = {}), LaunchesOnce', KnownRemain', purge' = {} => purge = {}
  PROVE  WalkInv'
<1>1. worker \in [Workers -> WorkerState]
  BY DEF JobsInv, JobsTypeOK
<1>2. \A v \in Workers : worker'[v] = IF v = w THEN me ELSE worker[v]
  BY <1>1
<1>3. ASSUME NEW v \in Workers, v # w PROVE Walked(worker'[v], purge' = {})
  <2>1. worker'[v] = worker[v] /\ Walked(worker[v], purge = {})
    BY <1>2, <1>3 DEF WalkInv
  <2>2. Walked(worker[v], purge' = {})
    BY <2>1 DEF Walked
  <2> QED BY <2>1, <2>2
<1>4. Walked(worker'[w], purge' = {})
  BY <1>2
<1> QED BY <1>3, <1>4 DEF WalkInv

(* Of the leads that are there at first, only a purge takes one away. *)
LEMMA LeadsRemain ==
  ASSUME KnownRemain, purge' = {} => purge = {}, \A l \in Leads : leads[l] # NULL => leads'[l] # NULL
  PROVE  KnownRemain'
BY DEF KnownRemain, Present

(* A worker that leaves: completed, it has found nothing beyond its place. *)
LEMMA LeavesWalk ==
  ASSUME JobsInv, WalkInv, NEW w \in Workers, worker[w].pc \in Working, NEW result, Leave(w, result),
         UNCHANGED <<launch, purge, leads>>,
         Listing(worker[w].req) /\ purge = {} /\ result = "completed" =>
           \A i \in DOMAIN worker[w].req.ids : worker[w].tried[worker[w].req.ids[i]] = 1
  PROVE  WalkInv'
<1> DEFINE me == [worker[w] EXCEPT !.pc = "ended", !.result = result, !.chunk = Nothing,
                                   !.pos = 0, !.failures = 0, !.cancelled = FALSE]
<1>1. worker' = [worker EXCEPT ![w] = me]
  BY WorkerFacts DEF Leave
<1>2. me.pc = "ended" /\ me.result = result /\ me.req = worker[w].req /\ me.tried = worker[w].tried
  BY WorkerFacts DEF WorkerState
<1> HIDE DEF me
<1>3. Walked(me, purge' = {})
  BY <1>2 DEF WalkInv, Walked, Listing
<1>4. LaunchesOnce' /\ KnownRemain'
  BY DEF WalkInv, LaunchesOnce, KnownRemain, Present
<1> QED BY <1>1, <1>3, <1>4, OneWalks

(* A fetch takes up the walk through the list at the position where the    *)
(* worker stands.                                                          *)
LEMMA FetchesWalk ==
  ASSUME JobsInv, WalkInv, NEW w \in Workers, worker[w].pc \in {"spawned", "sleep"},
         NEW C \in Fetchable(worker[w].req, worker[w].pos), Loop(w, C), UNCHANGED <<launch, purge, leads>>
  PROVE  WalkInv'
<1> DEFINE req == worker[w].req
           pos == worker[w].pos
<1>1. worker[w].pc \in Working /\ worker[w] \in WorkerState /\ req.ids \in Seq(Leads) /\ pos \in Nat
      /\ leads \in [Leads -> Row \cup {NULL}]
  <2>1. worker[w].pc \in Working
    BY DEF Working
  <2> QED BY <2>1, WorkerFacts DEF WorkerState
<1>2. Walked(worker[w], purge = {})
  BY DEF WalkInv
<1>3. ASSUME Listing(req), purge = {} PROVE C = Slice(req.ids, pos)
  <2>1. C = Slice(req.ids, pos) \cap Present
    BY <1>3 DEF Fetchable, Listing
  <2>2. Slice(req.ids, pos) \subseteq Known
    BY <1>3 DEF Slice, Listing
  <2> QED BY <1>3, <2>1, <2>2 DEF WalkInv, KnownRemain
<1>4. CASE C = {}
  <2>1. ASSUME Listing(req), purge = {}, NEW i \in DOMAIN req.ids PROVE worker[w].tried[req.ids[i]] = 1
    <3>1. pos <= Len(req.ids) /\ worker[w].tried[req.ids[i]] = IF i <= pos THEN 1 ELSE 0
      BY <1>2, <2>1 DEF Walked
    <3>2. pos + ChunkSize \in Nat /\ pos < pos + ChunkSize /\ Len(req.ids) \in Nat /\ DOMAIN req.ids = 1..Len(req.ids)
      <4>1. ChunkSize \in Nat /\ 0 < ChunkSize
        BY JobsAssumption
      <4>2. Len(req.ids) \in Nat /\ DOMAIN req.ids = 1..Len(req.ids)
        BY <1>1
      <4> HIDE DEF req, pos
      <4> QED BY <1>1, <4>1, <4>2
    <3>3. \A j \in DOMAIN req.ids : ~ (pos < j /\ j <= pos + ChunkSize)
      BY <1>3, <1>4, <2>1 DEF Slice
    <3>4. ~ (pos + 1 \in DOMAIN req.ids)
      <4>1. 1 <= ChunkSize /\ ChunkSize \in Nat
        BY JobsAssumption
      <4> HIDE DEF req, pos
      <4>2. pos < pos + 1 /\ pos + 1 <= pos + ChunkSize
        BY <1>1, <4>1
      <4> QED BY <3>3, <4>2
    <3>5. i <= pos
      BY <1>1, <3>1, <3>2, <3>4
    <3> QED BY <3>1, <3>5
  <2> HIDE DEF req
  <2>2. Leave(w, "completed")
    BY <1>4 DEF Loop
  <2> QED BY <1>1, <2>1, <2>2, LeavesWalk DEF req
<1>5. CASE C # {}
  <2> DEFINE chunk == [l \in Leads |-> IF l \in C THEN leads[l] ELSE NULL]
             me == [worker[w] EXCEPT !.pc = "gather", !.chunk = chunk]
  <2>1. worker' = [worker EXCEPT ![w] = me]
    BY <1>1, <1>5, WorkerFacts DEF Loop, Fetch
  <2> HIDE DEF chunk
  <2>2. /\ me.pc = "gather" /\ me.result = worker[w].result /\ me.req = req /\ me.pos = pos
        /\ me.tried = worker[w].tried /\ me.chunk = chunk
    BY <1>1 DEF WorkerState
  <2> HIDE DEF me
  <2>3. ASSUME Listing(req), purge = {} PROVE {l \in Leads : chunk[l] # NULL} = Slice(req.ids, pos)
    <3>1. C \subseteq Leads /\ C \subseteq Present
      BY <1>3, <2>3 DEF Fetchable, Listing, Present
    <3>2. \A l \in Leads : chunk[l] # NULL <=> l \in C
      BY <3>1 DEF chunk, Present
    <3> QED BY <1>3, <2>3, <3>1, <3>2
  <2>4. Walked(me, purge' = {})
    <3>1. worker[w].result # "completed"
      BY <1>2 DEF Walked
    <3> QED BY <1>2, <2>2, <2>3, <3>1 DEF Walked, Listing, Slice
  <2>5. LaunchesOnce' /\ KnownRemain'
    BY DEF WalkInv, LaunchesOnce, KnownRemain, Present
  <2> QED BY <2>1, <2>4, <2>5, OneWalks
<1> QED BY <1>4, <1>5

(* The beginning of each chunk keeps the walk. *)
LEMMA StartsWalk ==
  ASSUME JobsInv, WalkInv, NEW w \in Workers, StartWorker(w) \/ NextChunk(w), UNCHANGED <<launch, purge>>
  PROVE  WalkInv'
<1>1. leads' = leads /\ worker[w].pc \in {"spawned", "sleep"} /\ worker[w].pc \in Working
  BY DEF StartWorker, NextChunk, Working
<1>2. Leave(w, "stopped") \/ \E C \in Fetchable(worker[w].req, worker[w].pos) : Loop(w, C)
  BY DEF StartWorker, NextChunk
<1> QED BY <1>1, <1>2, FetchesWalk, LeavesWalk

(* The end of a chunk has worked once on each of its leads, and moves the  *)
(* position behind them.                                                   *)
LEMMA FinishWalks ==
  ASSUME JobsInv, WalkInv, NEW w \in Workers, FinishChunk(w), UNCHANGED <<launch, purge>>
  PROVE  WalkInv'
<1> DEFINE req == worker[w].req
           pos == worker[w].pos
<1>1. /\ worker[w].pc = "gather" /\ worker[w] \in WorkerState /\ worker[w].pc \in Working
      /\ worker \in [Workers -> WorkerState] /\ leads \in [Leads -> Row \cup {NULL}]
  <2>1. worker[w].pc = "gather" /\ worker[w].pc \in Working
    BY DEF FinishChunk, Working
  <2> QED BY <2>1, WorkerFacts
<1>2. PICK outcome \in [Chunk(w) -> {"ok", "failed", "cancelled"}],
           fails \in SUBSET (FaultKinds \cap {"upsert", "db"}) :
        /\ WriteChunk(w, outcome, fails)
        /\ IF Failures(w, outcome) >= MaxFailedBatches \/ "db" \in fails
           THEN GiveUp(w, fails)
           ELSE Sleep(w, Failures(w, outcome))
  BY DEF FinishChunk
<1>3. \A l \in Leads : leads[l] # NULL => leads'[l] # NULL
  <2>1. CASE leads' = leads
    BY <2>1
  <2>2. ASSUME NEW rows, leads' = Upserted(rows) PROVE \A l \in Leads : leads[l] # NULL => leads'[l] # NULL
    BY <2>2 DEF Upserted
  <2> QED BY <1>2, <2>1, <2>2 DEF WriteChunk
<1>4. LaunchesOnce' /\ KnownRemain'
  BY <1>3, LeadsRemain DEF WalkInv, LaunchesOnce
<1>5. CASE GiveUp(w, fails)
  <2> DEFINE me == [worker[w] EXCEPT !.pc = "ended", !.result = "failed", !.chunk = Nothing,
                                     !.pos = 0, !.failures = 0, !.cancelled = FALSE]
  <2>1. worker' = [worker EXCEPT ![w] = me]
    BY <1>1, <1>5 DEF GiveUp, Leave
  <2>2. me.pc = "ended" /\ me.result = "failed" /\ me.req = worker[w].req
    BY <1>1 DEF WorkerState
  <2> HIDE DEF me
  <2>3. Walked(me, purge' = {})
    BY <2>2 DEF WalkInv, Walked
  <2> QED BY <1>4, <2>1, <2>3, OneWalks
<1>6. CASE Sleep(w, Failures(w, outcome))
  <2> DEFINE listed == req.ids # <<>>
             failures == Failures(w, outcome)
             place == IF listed THEN pos + Cardinality(Chunk(w)) ELSE pos
             tried == [l \in Leads |-> IF listed /\ l \in Chunk(w)
                                       THEN worker[w].tried[l] + 1 ELSE worker[w].tried[l]]
             me == [worker[w] EXCEPT !.pc = "sleep", !.chunk = Nothing, !.failures = failures,
                                     !.pos = place, !.tried = tried]
  <2>1. worker' = [worker EXCEPT ![w] = me]
    BY <1>1, <1>6 DEF Sleep
  <2> HIDE DEF failures, place, tried
  <2>2. me.pc = "sleep" /\ me.req = req /\ me.pos = place /\ me.tried = tried /\ me.result = worker[w].result
    BY <1>1 DEF WorkerState
  <2> HIDE DEF me
  <2>3. Walked(worker[w], purge = {})
    BY DEF WalkInv
  <2>4. ASSUME Listing(req), purge = {}
        PROVE  /\ place <= Len(req.ids)
               /\ \A i \in DOMAIN req.ids : tried[req.ids[i]] = IF i <= place THEN 1 ELSE 0
    <3>1. /\ req.ids \in Seq(Leads) /\ IsInjective(req.ids) /\ pos \in Nat /\ pos <= Len(req.ids)
          /\ Chunk(w) = Slice(req.ids, pos)
      BY <1>1, <2>3, <2>4 DEF Walked, WorkerState, Chunk
    <3>2. listed /\ place = pos + Cardinality(Slice(req.ids, pos))
      BY <2>4, <3>1 DEF Listing, place
    <3>3. /\ place <= Len(req.ids)
          /\ \A i \in DOMAIN req.ids : req.ids[i] \in Chunk(w) <=> pos < i /\ i <= pos + ChunkSize
          /\ \A i \in DOMAIN req.ids : i <= place <=> i <= pos + ChunkSize
      <4> HIDE DEF req, pos
      <4> QED BY <3>1, <3>2, SliceSize
    <3>4. ASSUME NEW i \in DOMAIN req.ids PROVE tried[req.ids[i]] = IF i <= place THEN 1 ELSE 0
      <4>1. req.ids[i] \in Leads /\ i \in Nat /\ pos + ChunkSize \in Nat /\ pos <= pos + ChunkSize
        BY <3>1, JobsAssumption
      <4>2. tried[req.ids[i]] = IF req.ids[i] \in Chunk(w) THEN worker[w].tried[req.ids[i]] + 1
                                ELSE worker[w].tried[req.ids[i]]
        BY <3>2, <4>1 DEF tried
      <4>3. worker[w].tried[req.ids[i]] = IF i <= pos THEN 1 ELSE 0
        BY <1>1, <2>3, <2>4 DEF Walked
      <4> QED BY <3>1, <3>3, <4>1, <4>2, <4>3
    <3> QED BY <3>3, <3>4
  <2>5. Walked(me, purge' = {})
    <3>1. worker[w].result # "completed"
      BY <1>1, <2>3 DEF Walked
    <3> QED BY <2>2, <2>3, <2>4, <3>1 DEF Walked, Listing
  <2> QED BY <1>4, <2>1, <2>5, OneWalks
<1> QED BY <1>2, <1>5, <1>6
-----------------------------------------------------------------------------
(* What keeps every list, place and count, and takes no lead away. *)
LEMMA QuietWalk ==
  ASSUME WalkInv, LaunchesOnce', purge' = {} => purge = {} /\ \A l \in Leads : leads[l] # NULL => leads'[l] # NULL,
         \A w \in Workers :
           /\ worker'[w].req = worker[w].req /\ worker'[w].pos = worker[w].pos
           /\ worker'[w].tried = worker[w].tried /\ worker'[w].result = worker[w].result
           /\ \/ worker'[w].pc = worker[w].pc /\ worker'[w].chunk = worker[w].chunk
              \/ worker'[w].pc = "ended" /\ worker[w].pc # "free"
  PROVE  WalkInv'
<1>1. ASSUME NEW w \in Workers PROVE Walked(worker'[w], purge' = {})
  BY <1>1, SameWalk DEF WalkInv
<1>2. KnownRemain'
  BY DEF WalkInv, KnownRemain, Present
<1> QED BY <1>1, <1>2 DEF WalkInv

(* A discovery has no list to walk through. *)
LEMMA DiscoveriesWalk ==
  ASSUME JobsInv, WalkInv, NEW w \in Workers, UNCHANGED <<launch, purge>>,
         StartDiscovery(w) \/ FinishDiscovery(w) \/ DiscoveryFails(w)
  PROVE  WalkInv'
<1>1. /\ worker[w].pc \in {"waiting", "searching"} /\ worker[w].pc \in Working
      /\ \E pc \in {"searching", "ended"} : worker' = [worker EXCEPT ![w].pc = pc]
      /\ leads' = leads \/ \E found : leads' = Discovered(found)
  BY DEF StartDiscovery, FinishDiscovery, DiscoveryFails, Turn, Working
<1>2. \A l \in Leads : leads[l] # NULL => leads'[l] # NULL
  <2>1. leads \in [Leads -> Row \cup {NULL}]
    BY <1>1, WorkerFacts
  <2>2. \A r \in Row : [r EXCEPT !.audit = "pending"] \in Row
    BY DEF Row
  <2>3. NULL \notin Row
    BY JobsAssumption
  <2>4. ASSUME NEW found, leads' = Discovered(found), NEW l \in Leads, leads[l] # NULL PROVE leads'[l] # NULL
    <3>1. leads[l] \in Row
      BY <2>1, <2>4
    <3>2. leads'[l] = leads[l] \/ leads'[l] = [leads[l] EXCEPT !.audit = "pending"]
      BY <2>4 DEF Discovered
    <3> QED BY <2>2, <2>3, <3>1, <3>2
  <2> QED BY <1>1, <2>4
<1>3. /\ worker'[w].req = worker[w].req /\ worker'[w].pos = worker[w].pos
      /\ worker'[w].tried = worker[w].tried /\ worker'[w].result = worker[w].result
      /\ worker'[w].pc \in {"searching", "ended"} /\ worker[w].pc # "ended" /\ worker[w].pc # "free"
      /\ \A v \in Workers \ {w} : worker'[v] = worker[v]
  <2>1. worker \in [Workers -> WorkerState] /\ worker[w] \in WorkerState
    BY <1>1, WorkerFacts
  <2>2. PICK pc \in {"searching", "ended"} : worker' = [worker EXCEPT ![w].pc = pc]
    BY <1>1
  <2>3. worker'[w] = [worker[w] EXCEPT !.pc = pc]
    BY <2>1, <2>2
  <2> QED BY <1>1, <2>1, <2>2, <2>3 DEF WorkerState
<1>4. LaunchesOnce' /\ KnownRemain'
  BY <1>2, LeadsRemain DEF WalkInv, LaunchesOnce
<1>5. Walked(worker'[w], purge' = {})
  <2>1. Walked(worker[w], purge = {})
    BY DEF WalkInv
  <2> QED BY <1>1, <1>3, <2>1 DEF Walked, Listing
<1>6. ASSUME NEW v \in Workers \ {w} PROVE Walked(worker'[v], purge' = {})
  BY <1>3 DEF WalkInv
<1> QED BY <1>4, <1>5, <1>6 DEF WalkInv

(* Every step of a worker keeps the walk of each. *)
LEMMA WorkersWalk ==
  ASSUME JobsInv, WalkInv, NEW w \in Workers,
         WorkerStep(w) \/ ((WorkerFails(w) \/ DiscoveryFails(w)) /\ UNCHANGED <<launch, purge>>)
  PROVE  WalkInv'
<1>1. UNCHANGED <<launch, purge>>
  BY DEF WorkerStep
<1>2. CASE WorkerFails(w)
  <2>1. worker[w].pc \in Working /\ leads' = leads /\ Leave(w, "failed")
    BY <1>2 DEF WorkerFails, Working
  <2> QED BY <1>1, <2>1, LeavesWalk
<1> QED BY <1>1, <1>2, StartsWalk, FinishWalks, DiscoveriesWalk DEF WorkerStep
-----------------------------------------------------------------------------
(* A launch: only what was requested is listed. *)
LEMMA LaunchWalks ==
  ASSUME NoRepeats, JobsInv, WalkInv, NEW o \in Orchestrators, Launch(o)
  PROVE  WalkInv'
<1>1. /\ launch \in [Orchestrators -> [pc : {"idle", "insert", "spawn"}, job : Jobs \cup {NULL},
                                       req : [ids : Seq(Leads), tasks : SUBSET Tasks]]]
      /\ worker \in [Workers -> WorkerState]
  BY DEF JobsInv, JobsTypeOK
<1>2. UNCHANGED <<leads, purge>>
  BY DEF Launch
<1>3. IsInjective(NoRequest.ids) /\ NoRequest.ids \in Seq(Leads)
  BY DEF NoRequest, IsInjective
<1>4. KnownRemain'
  BY <1>2 DEF WalkInv, KnownRemain, Present
<1>5. ASSUME NEW req, IsInjective(req.ids), NEW pc, NEW j, launch' = [launch EXCEPT ![o] = [pc |-> pc, req |-> req, job |-> j]],
             worker' = worker
      PROVE  WalkInv'
  <2>1. LaunchesOnce'
    BY <1>1, <1>5 DEF WalkInv, LaunchesOnce
  <2> QED BY <1>2, <1>4, <1>5, <2>1 DEF WalkInv
<1>6. ASSUME NEW req \in Requests[o], FindRunningJob(o, req) PROVE WalkInv'
  <2>1. IsInjective(req.ids)
    BY DEF NoRepeats
  <2> QED BY <1>5, <1>6, <2>1 DEF FindRunningJob
<1>7. ASSUME NEW req \in Requests[o], NEW j \in Jobs, InsertJob(o, req, j) PROVE WalkInv'
  <2>1. IsInjective(req.ids)
    BY DEF NoRepeats
  <2> QED BY <1>5, <1>7, <2>1 DEF InsertJob
<1>8. ASSUME NEW w \in Workers, NEW q, NEW j, NEW req, req.ids \in Seq(Leads), IsInjective(req.ids),
             NEW pc \in {"spawned", "waiting"}, Spawn(q, w, j, req, pc), LaunchesOnce'
      PROVE  WalkInv'
  <2> DEFINE me == [worker[w] EXCEPT !.pc = pc, !.by = q, !.job = j, !.req = req]
  <2>1. worker' = [worker EXCEPT ![w] = me] /\ worker[w].pc = "free" /\ worker[w] \in WorkerState
    BY <1>1, <1>8 DEF Spawn
  <2>2. me.pc = pc /\ me.req = req /\ me.pos = worker[w].pos /\ me.tried = worker[w].tried
        /\ me.result = worker[w].result
    BY <2>1 DEF WorkerState
  <2> HIDE DEF me
  <2>3. Walked(worker[w], purge = {})
    BY DEF WalkInv
  <2>4. \A i \in DOMAIN req.ids : Listing(req) => req.ids[i] \in Leads
    BY JobsAssumption DEF Listing
  <2>5. ASSUME Listing(req), NEW i \in DOMAIN req.ids PROVE me.tried[req.ids[i]] = 0 /\ me.pos = 0
    BY <2>1, <2>2, <2>3, <2>4, <2>5 DEF Walked
  <2>6. worker[w].pos = 0 /\ worker[w].result # "completed" /\ worker[w].pc = "free"
    BY <2>1, <2>3 DEF Walked
  <2>7. \A i \in DOMAIN req.ids : ~ (i <= 0)
    BY <1>8
  <2>8. 0 <= Len(req.ids)
    BY <1>8
  <2>9. Walked(me, purge' = {})
    BY <1>8, <2>2, <2>5, <2>6, <2>7, <2>8 DEF Walked
  <2> QED BY <1>2, <1>4, <1>8, <2>1, <2>9, OneWalks
<1>9. ASSUME NEW w \in Workers, SpawnWorker(o, w) PROVE WalkInv'
  <2>1. IsInjective(launch[o].req.ids) /\ launch[o].req.ids \in Seq(Leads)
    BY <1>1 DEF WalkInv, LaunchesOnce
  <2>2. LaunchesOnce'
    BY <1>1, <1>3, <1>9 DEF SpawnWorker, Unlocked, WalkInv, LaunchesOnce
  <2> QED BY <1>8, <1>9, <2>1, <2>2 DEF SpawnWorker
<1>10. ASSUME NEW w \in Workers, NEW j \in Jobs, RunDiscoveryJob(o, w, j) PROVE WalkInv'
  <2>1. LaunchesOnce'
    BY <1>10 DEF RunDiscoveryJob, WalkInv, LaunchesOnce
  <2> QED BY <1>3, <1>8, <1>10, <2>1 DEF RunDiscoveryJob
<1> QED BY <1>6, <1>7, <1>9, <1>10 DEF Launch

(* The operator, a crash and the sweep of zombies leave every place alone. *)
LEMMA OthersWalk ==
  ASSUME JobsInv, WalkInv, Stop \/ Purge \/ Restart \/ HealZombies \/ UNCHANGED vars
  PROVE  WalkInv'
<1>1. worker \in [Workers -> WorkerState] /\ auditors \in [Jobs -> Workers \cup {NULL}]
  BY DEF JobsInv, JobsTypeOK
<1>2. CASE Stop
  <2>1. UNCHANGED <<leads, launch, purge>>
    BY <1>2 DEF Stop
  <2>2. worker' = worker \/ \E a : worker' = [worker EXCEPT ![a].cancelled = TRUE]
    BY <1>2 DEF Stop, StopAll, StopJob
  <2>3. ASSUME NEW w \in Workers
        PROVE  /\ worker'[w].req = worker[w].req /\ worker'[w].pos = worker[w].pos
               /\ worker'[w].tried = worker[w].tried /\ worker'[w].result = worker[w].result
               /\ worker'[w].pc = worker[w].pc /\ worker'[w].chunk = worker[w].chunk
    <3>1. worker'[w] = worker[w] \/ worker'[w] = [worker[w] EXCEPT !.cancelled = TRUE]
      BY <1>1, <2>2
    <3>2. worker[w] \in WorkerState
      BY <1>1
    <3> QED BY <3>1, <3>2 DEF WorkerState
  <2>4. LaunchesOnce'
    BY <2>1 DEF WalkInv, LaunchesOnce
  <2> QED BY <2>1, <2>3, <2>4, QuietWalk
<1>3. CASE Purge
  <2>1. UNCHANGED <<launch, worker>> /\ purge' # {}
    BY <1>3 DEF Purge, ClearLeads, EraseJobs, EraseLeads
  <2>2. LaunchesOnce'
    BY <2>1 DEF WalkInv, LaunchesOnce
  <2> QED BY <2>1, <2>2, QuietWalk
<1>4. CASE Restart
  <2>1. UNCHANGED <<leads, purge>> /\ launch' = [o \in Orchestrators |-> Unlocked]
    BY <1>4 DEF Restart
  <2>2. LaunchesOnce'
    BY <2>1 DEF LaunchesOnce, Unlocked, NoRequest, IsInjective
  <2>3. ASSUME NEW w \in Workers
        PROVE  /\ worker'[w].req = worker[w].req /\ worker'[w].pos = worker[w].pos
               /\ worker'[w].tried = worker[w].tried /\ worker'[w].result = worker[w].result
               /\ \/ worker'[w].pc = worker[w].pc /\ worker'[w].chunk = worker[w].chunk
                  \/ worker'[w].pc = "ended" /\ worker[w].pc # "free"
    <3>1. worker'[w] = IF worker[w].pc = "free" THEN worker[w]
                       ELSE [worker[w] EXCEPT !.pc = "ended", !.chunk = Nothing]
      BY <1>4 DEF Restart
    <3>2. worker[w] \in WorkerState
      BY <1>1
    <3> QED BY <3>1, <3>2 DEF WorkerState
  <2> QED BY <2>1, <2>2, <2>3, QuietWalk
<1>5. CASE HealZombies \/ UNCHANGED vars
  <2>1. UNCHANGED <<leads, launch, worker, purge>>
    BY <1>5 DEF HealZombies, vars
  <2> QED BY <2>1 DEF WalkInv, LaunchesOnce, KnownRemain, Present
<1> QED BY <1>2, <1>3, <1>4, <1>5

(* At first there is nothing to walk through. *)
LEMMA WalkInvInit == Init => WalkInv
<1> SUFFICES ASSUME Init PROVE WalkInv
  OBVIOUS
<1>1. LaunchesOnce
  BY DEF Init, LaunchesOnce, Unlocked, NoRequest, IsInjective
<1>2. KnownRemain
  <2>1. NewRow \in Row /\ NULL \notin Row /\ Known \subseteq Leads
    BY JobsAssumption DEF NewRow, Row
  <2> QED BY <2>1 DEF Init, KnownRemain, Present
<1>3. ASSUME NEW w \in Workers PROVE Walked(worker[w], purge = {})
  <2>1. /\ worker[w].pc = "free" /\ worker[w].req = NoRequest /\ worker[w].pos = 0
        /\ worker[w].result = NULL /\ \A l \in Leads : worker[w].tried[l] = 0
    BY DEF Init
  <2>2. NoRequest.ids = <<>> /\ NULL # "completed"
    BY JobsAssumption DEF NoRequest
  <2> QED BY <2>1, <2>2 DEF Walked, Listing, IsInjective
<1> QED BY <1>1, <1>2, <1>3 DEF WalkInv

(* Where no request lists a lead twice, every step keeps the walks. *)
LEMMA WalkInvNext == NoRepeats /\ JobsInv /\ WalkInv /\ [Next]_vars => WalkInv'
BY LaunchWalks, WorkersWalk, OthersWalk DEF Next

(* A job over a list of leads that ran to its end has worked exactly once  *)
(* on each of them, as long as none was deleted: for every list without    *)
(* repetitions, every chunk size and whatever else runs, fails or restarts.*)
THEOREM ListsTriedOnce == ASSUME NoRepeats PROVE Spec => []ListedLeadsTriedOnce
<1>1. WalkInv => ListedLeadsTriedOnce
  <2> SUFFICES ASSUME WalkInv, NEW w \in Workers,
                      worker[w].result = "completed", ListedLeads(w) # {}, ListedLeads(w) \subseteq Known,
                      purge = {}, NEW l \in ListedLeads(w)
               PROVE  worker[w].tried[l] = 1
    BY DEF ListedLeadsTriedOnce
  <2>1. Walked(worker[w], purge = {}) /\ Listing(worker[w].req)
    BY DEF WalkInv, Listing, ListedLeads
  <2>2. PICK i \in DOMAIN worker[w].req.ids : l = worker[w].req.ids[i]
    BY DEF ListedLeads
  <2> QED BY <2>1, <2>2 DEF Walked
<1>2. NoRepeats
  OBVIOUS
<1>3. JobsInv /\ WalkInv /\ [Next]_vars => WalkInv'
  BY <1>2, WalkInvNext
<1> QED BY <1>1, <1>3, WalkInvInit, JobsInvInit, JobsInvNext, PTL DEF Spec
=============================================================================
