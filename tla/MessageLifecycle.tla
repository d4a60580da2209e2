--------------------------- MODULE MessageLifecycle ---------------------------
(***************************************************************************)
(* What campaign_messages promises of the messages in it, whoever works on *)
(* them.  A step of a lead has one message that is not cancelled.  It      *)
(* waits, is in the hands of one worker or is given up; it is confirmed    *)
(* once, by an id that no other message has, and from then on only what    *)
(* its recipient does moves it, one message at a time.                     *)
(***************************************************************************)
CONSTANTS
  Messages, Ids, NULL,
  Keys,       \* <<lead, sequence, step>>
  First       \* the keys of the messages there are at first

VARIABLES
  at,         \* where each message is
  key,        \* what it is: its lead, sequence and step
  id          \* the provider's id

Init ==
  /\ at = [m \in Messages |-> IF m \in DOMAIN First THEN "pending" ELSE "absent"]
  /\ key = [m \in Messages |-> IF m \in DOMAIN First THEN First[m] ELSE NULL]
  /\ id = [m \in Messages |-> NULL]

Free(k) == \A m \in Messages : key[m] = k => at[m] \in {"absent", "cancelled"}

Insert(m, k) ==
  /\ at[m] = "absent" /\ Free(k)
  /\ at' = [at EXCEPT ![m] = "pending"]
  /\ key' = [key EXCEPT ![m] = k]
  /\ UNCHANGED id

(* Some of the messages that are at one place are moved to another. *)
Moves(from, to) ==
  /\ \E S \in SUBSET {m \in Messages : at[m] = from} :
       at' = [m \in Messages |-> IF m \in S THEN to ELSE at[m]]
  /\ UNCHANGED <<key, id>>

(* A worker takes messages and gives them back; a cancellation finds what  *)
(* still waits.                                                            *)
Queue ==
  \/ Moves("pending", "dispatching") \/ Moves("pending", "cancelled")
  \/ \E to \in {"pending", "cancelled", "given up"} : Moves("dispatching", to)

(* An email_sent may come late: the message may be queued again by then,   *)
(* or given up, or cancelled and nothing in its place.                     *)
Confirm(m, p) ==
  /\ id[m] = NULL /\ at[m] # "absent" /\ (at[m] = "cancelled" => Free(key[m]))
  /\ \A n \in Messages : id[n] # p
  /\ at' = [at EXCEPT ![m] = "sent"]
  /\ id' = [id EXCEPT ![m] = p]
  /\ UNCHANGED key

(* A bounce, a reply or an opt-out. *)
React(m, to) ==
  /\ at[m] = "sent" \/ (at[m] = "replied" /\ to = "unsubscribed")
  /\ at' = [at EXCEPT ![m] = to]
  /\ UNCHANGED <<key, id>>

Next ==
  \/ Queue
  \/ \E m \in Messages :
       \/ \E k \in Keys : Insert(m, k)
       \/ \E p \in Ids : Confirm(m, p)
       \/ \E to \in {"bounced", "replied", "unsubscribed"} : React(m, to)

Spec == Init /\ [][Next]_<<at, key, id>>
=============================================================================
