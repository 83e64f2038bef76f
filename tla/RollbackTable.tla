--------------------------- MODULE RollbackTable ---------------------------
(***************************************************************************)
(* What the engineering toolkit promises of a published table, whatever    *)
(* statements, sessions and failures it takes to keep the promise: the     *)
(* table is never seen half-changed, a change keeps the content it         *)
(* displaces recoverable, a restore brings back recoverable content only,  *)
(* and pruning forgets recoverable content without touching the table.     *)
(***************************************************************************)

CONSTANTS
  Targets,   \* published tables
  Contents,  \* what a table can hold: definition, rows and indexes together
  Absent     \* the table does not exist

VARIABLES
  cur,       \* cur[t]: what readers of t see
  kept       \* kept[t]: displaced contents of t that can still be restored

vars == <<cur, kept>>

TypeOK ==
  /\ cur \in [Targets -> Contents \cup {Absent}]
  /\ kept \in [Targets -> SUBSET Contents]

Init ==
  /\ cur \in [Targets -> Contents \cup {Absent}]
  /\ kept = [t \in Targets |-> {}]

Publish(t, v) ==
  /\ cur[t] = Absent
  /\ cur' = [cur EXCEPT ![t] = v]
  /\ UNCHANGED kept

Replace(t, v) ==
  /\ cur[t] # Absent
  /\ cur' = [cur EXCEPT ![t] = v]
  /\ kept' = [kept EXCEPT ![t] = @ \cup {cur[t]}]

\* Restoring consumes the copy it reads; equal content may be kept elsewhere.
Restore(t, v) ==
  /\ cur[t] # Absent
  /\ v \in kept[t]
  /\ cur' = [cur EXCEPT ![t] = v]
  /\ \E consumed \in SUBSET {v} :
       kept' = [kept EXCEPT ![t] = (@ \ consumed) \cup {cur[t]}]

Prune(t) ==
  /\ \E forgotten \in SUBSET kept[t] :
       kept' = [kept EXCEPT ![t] = @ \ forgotten]
  /\ UNCHANGED cur

Next ==
  \E t \in Targets :
    \/ Prune(t)
    \/ \E v \in Contents : Publish(t, v) \/ Replace(t, v) \/ Restore(t, v)

Spec == Init /\ [][Next]_vars

=============================================================================
