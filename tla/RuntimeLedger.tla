--------------------------- MODULE RuntimeLedger ---------------------------
(***************************************************************************)
(* What the runtime repository promises of its two stores together: a      *)
(* ledger of observations that only grows, and for each dataset a current  *)
(* observation that comes from the ledger and never turns back in time.    *)
(***************************************************************************)
EXTENDS Integers

CONSTANTS
  Datasets,
  Posts,     \* observations, each recorded at most once
  Of,        \* Of[p]: the dataset p observes
  At,        \* At[p]: its observed_at
  NoPost

VARIABLES
  ledger,    \* the observations recorded
  current    \* current[d]: the observation served as the state of d

vars == <<ledger, current>>

Init ==
  /\ ledger = {}
  /\ current = [d \in Datasets |-> NoPost]

Enter(p) ==
  /\ Of[p] \in Datasets
  /\ ledger' = ledger \cup {p}
  /\ UNCHANGED current

Advance(p) ==
  /\ p \in ledger
  /\ current[Of[p]] # NoPost => At[current[Of[p]]] <= At[p]
  /\ current' = [current EXCEPT ![Of[p]] = p]
  /\ UNCHANGED ledger

Next == \E p \in Posts : Enter(p) \/ Advance(p)

Spec == Init /\ [][Next]_vars

=============================================================================
