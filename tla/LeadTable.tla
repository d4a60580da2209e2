------------------------------- MODULE LeadTable -------------------------------
(***************************************************************************)
(* The leads table as the console's readers meet it: rows that appear      *)
(* together, with the created_at of their statement, and go together; and  *)
(* the workers, who write back the rows that they fetched as they were,    *)
(* created_at included.                                                    *)
(***************************************************************************)
EXTENDS Naturals, Sequences, FiniteSets

CONSTANTS
  Keys,       \* unique keys, in the order of the column
  Batches,    \* the sets of leads that an upload or a discovery may write
  Chunks,     \* the sets of leads that a worker may ask for
  Workers,    \* the workers of jobs that may be at work at once
  MaxTime,    \* the bound on the clock
  NULL

ASSUME TableAssumption ==
  /\ Keys \subseteq Nat \ {0} /\ IsFiniteSet(Keys) /\ NULL \notin Keys
  /\ Batches \subseteq SUBSET Keys /\ Chunks \subseteq SUBSET Keys /\ {} \notin Batches
  /\ MaxTime \in Nat \ {0}

VARIABLES
  created,    \* created_at of each lead, 0 if there is no such lead
  held,       \* created_at of the rows that each worker has fetched
  now

tableVars == <<created, held, now>>

NoRows == [k \in Keys |-> 0]

Listed == {k \in Keys : created[k] # 0}

(* An upsert of rows without a created_at: a row that exists keeps its     *)
(* own.  Uploads and the discovery write this way.                         *)
UpsertLeads(batch) ==
  /\ created' = [k \in Keys |-> IF k \in batch /\ created[k] = 0 THEN now ELSE created[k]]
  /\ UNCHANGED <<held, now>>

(* A worker fetches whole rows, and upserts them minutes later with what   *)
(* it has found about them.  It need not do so for all: a stop leaves rows *)
(* untouched, the upsert may fail.                                         *)
FetchChunk(w) ==
  /\ held[w] = NoRows
  /\ \E chunk \in Chunks :
       /\ chunk \cap Listed # {}
       /\ held' = [held EXCEPT ![w] = [k \in Keys |-> IF k \in chunk THEN created[k] ELSE 0]]
  /\ UNCHANGED <<created, now>>

Fetched(w) == {k \in Keys : held[w][k] # 0}

WriteBack(w, done) ==
  /\ Fetched(w) # {} /\ done \subseteq Fetched(w)
  /\ created' = [k \in Keys |-> IF k \in done THEN held[w][k] ELSE created[k]]
  /\ held' = [held EXCEPT ![w] = NoRows]
  /\ UNCHANGED now

(* The deletions of the console are of all the leads. *)
DeleteLeads == Listed # {} /\ created' = NoRows /\ UNCHANGED <<held, now>>

Clock == now < MaxTime /\ now' = now + 1 /\ UNCHANGED <<created, held>>

TableInit ==
  /\ \E batch \in Batches : created = [k \in Keys |-> IF k \in batch THEN 1 ELSE 0]
  /\ held = [w \in Workers |-> NoRows] /\ now = 1
=============================================================================
