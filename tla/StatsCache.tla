------------------------------- MODULE StatsCache -------------------------------
(***************************************************************************)
(* stats_cache.py: the answer of /stats, built under an asyncio lock and   *)
(* kept for a minute or until a writer invalidates it.  The rows are read  *)
(* by a thread, so a write and its invalidation may fall within a build.   *)
(***************************************************************************)
EXTENDS LeadTable

CONSTANT Requests

VARIABLES
  cache,      \* _payload, and whether it is fresh
  stats       \* the requests for /stats

statsVars == <<cache, stats>>

(* A payload stands for the leads that it counts.  missed: the writers     *)
(* whose rows it lacks; lost: an invalidation came while it was built.     *)
Writers == {"upload", "discovery", "worker", "clear", "erase"}

Unread == [rows |-> NULL, missed |-> {}, lost |-> FALSE]

Building == {r \in Requests : stats[r].pc = "building"}

Idle == [pc |-> "idle", payload |-> Unread]
-----------------------------------------------------------------------------
(* get: the fast path, the lock, the second look, the build. *)
GetStats(r) ==
  /\ stats[r].pc = "idle" /\ ~cache.fresh
  /\ stats' = [stats EXCEPT ![r].pc = "waiting"]
  /\ UNCHANGED cache

(* Mutant: no second look behind the lock. *)
AcquireOnce(r) ==
  /\ stats[r].pc = "waiting" /\ Building = {}
  /\ stats' = [stats EXCEPT ![r].pc = "building"]
  /\ UNCHANGED cache

Acquire(r) ==
  /\ stats[r].pc = "waiting" /\ Building = {}
  /\ stats' = [stats EXCEPT ![r].pc = IF cache.fresh THEN "idle" ELSE "building"]
  /\ UNCHANGED cache

ReadRows(r) ==
  /\ stats[r].pc = "building" /\ stats[r].payload = Unread
  /\ stats' = [stats EXCEPT ![r].payload = [Unread EXCEPT !.rows = Listed]]
  /\ UNCHANGED cache

(* Mutant: the lock is not released. *)
StoreHolding(r) ==
  /\ stats[r].pc = "building" /\ stats[r].payload # Unread
  /\ cache' = [payload |-> stats[r].payload, fresh |-> TRUE]
  /\ UNCHANGED stats

Store(r) ==
  /\ stats[r].pc = "building" /\ stats[r].payload # Unread
  /\ cache' = [payload |-> stats[r].payload, fresh |-> TRUE]
  /\ stats' = [stats EXCEPT ![r] = Idle]

BuildFails(r) ==
  /\ stats[r].pc = "building" /\ stats[r].payload = Unread
  /\ stats' = [stats EXCEPT ![r] = Idle]
  /\ UNCHANGED cache

Expire == cache.fresh /\ cache' = [cache EXCEPT !.fresh = FALSE] /\ UNCHANGED stats

StatsStep(r) == Acquire(r) \/ ReadRows(r) \/ Store(r) \/ BuildFails(r)
-----------------------------------------------------------------------------
(* A write that nobody invalidates for, as far as the histories go. *)
Missed(payload, writer) ==
  IF payload = Unread THEN payload ELSE [payload EXCEPT !.missed = @ \cup {writer}]

Misses(writer) ==
  /\ cache' = [cache EXCEPT !.payload = Missed(@, writer)]
  /\ stats' = [r \in Requests |-> [stats[r] EXCEPT !.payload = Missed(@, writer)]]

(* invalidate: a build that is under way goes on, and is stored.  Mutant:  *)
(* an invalidation that relies on the TTL.                                 *)
Lost(payload) == IF payload = Unread THEN payload ELSE [payload EXCEPT !.lost = TRUE]

InvalidateLater == UNCHANGED statsVars

Invalidate ==
  /\ cache' = [payload |-> Unread, fresh |-> FALSE]
  /\ stats' = [r \in Requests |-> [stats[r] EXCEPT !.payload = Lost(@)]]

StatsInit ==
  /\ cache = [payload |-> Unread, fresh |-> FALSE]
  /\ stats = [r \in Requests |-> Idle]
-----------------------------------------------------------------------------
Payloads == [rows : (SUBSET Keys) \cup {NULL}, missed : SUBSET Writers, lost : BOOLEAN]

StatsTypeOK ==
  /\ cache \in [payload : Payloads, fresh : BOOLEAN]
  /\ stats \in [Requests -> [pc : {"idle", "waiting", "building"}, payload : Payloads]]

(* However many ask at an expiry, the rows are read once: a build never    *)
(* replaces a payload that is fresh.                                       *)
BuiltOnce == [][(\E r \in Requests : Store(r)) => ~cache.fresh]_statsVars

(* Every request for /stats is answered, after builds that fail as well.   *)
StatsAnswered == \A r \in Requests : stats[r].pc # "idle" ~> stats[r].pc = "idle"
=============================================================================
