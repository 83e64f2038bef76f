---------------------------- MODULE RuntimeStore ----------------------------
(***************************************************************************)
(* The runtime repository behind the HTTP service: a DuckDB history that   *)
(* is appended to and a SQLite snapshot of the latest observation of each  *)
(* dataset, written one after the other, while other handler threads write *)
(* and read the two. Each store takes its own lock for one statement, so a *)
(* statement is a step, and threads interleave between statements.         *)
(***************************************************************************)
EXTENDS Integers, FiniteSets

CONSTANTS
  Datasets,      \* dataset ids of the registry
  Posts,         \* calls of POST /v1/runtime/observations
  Of,            \* Of[p]: the dataset id p carries
  At,            \* At[p]: its observed_at
  Epoch,         \* Epoch[p]: the same as whole microseconds, through a float
  Counted,       \* posts with a row_count
  Views,         \* calls of GET /v1/datasets/{id}/context
  Viewed,        \* Viewed[v]: the dataset v asks for
  Limit,         \* trend_limit
  Discoveries,   \* calls of POST /v1/discovery
  NoPost,
  Faults         \* a store may raise and the server may die

Requests == Posts \cup Views \cup Discoveries

ASSUME StoreConstants ==
  /\ NoPost \notin Posts
  /\ Posts \cap (Views \cup Discoveries) = {} /\ Views \cap Discoveries = {}
  /\ At \in [Posts -> Int] /\ Epoch \in [Posts -> Int]
  /\ \A p, q \in Posts : At[p] <= At[q] => Epoch[p] <= Epoch[q]
  /\ Counted \subseteq Posts
  /\ Viewed \in [Views -> Datasets]
  /\ Limit \in Nat \ {0}
  /\ IsFiniteSet(Posts)

VARIABLES
  history,   \* rows of dataset_runtime_history
  latest,    \* rows of latest_dataset_runtime
  pc,        \* where the thread of each request is
  runtime,   \* runtime[v]: the snapshot a view has read
  trend,     \* trend[v]: the rows behind its row_count_trend
  summary,   \* summary[v]: the rows its summary counts
  ranked,    \* ranked[x]: the snapshots a discovery ranked with
  attached   \* attached[x]: the snapshots it returns with the candidates

vars == <<history, latest, pc, runtime, trend, summary, ranked, attached>>

Steps == {"received", "appended", "shown", "trended", "ranked",
          "answered", "refused", "failed"}
Snapshots == [Datasets -> Posts \cup {NoPost}]

TypeOK ==
  /\ history \in SUBSET Posts
  /\ latest \in Snapshots
  /\ pc \in [Requests -> Steps]
  /\ runtime \in [Views -> Posts \cup {NoPost}]
  /\ trend \in [Views -> SUBSET Posts]
  /\ summary \in [Views -> SUBSET Posts]
  /\ ranked \in [Discoveries -> Snapshots]
  /\ attached \in [Discoveries -> Snapshots]

Goes(r, from, to) == pc[r] = from /\ pc' = [pc EXCEPT ![r] = to]

RowsOf(d) == {p \in history : Of[p] = d}

\* ORDER BY observed_at_epoch_us DESC LIMIT n: ties fall either way.
NewestRows(rows, n) ==
  {top \in SUBSET rows :
     /\ Cardinality(top) = IF Cardinality(rows) < n THEN Cardinality(rows) ELSE n
     /\ \A p \in top, q \in rows \ top : Epoch[p] >= Epoch[q]}

\* q is an observation at least as new as p.
Covers(q, p) == q # NoPost /\ At[q] >= At[p]

Served(p) == Of[p] \in Datasets /\ Covers(latest[Of[p]], p)

NoSnapshots == [d \in Datasets |-> NoPost]

Init ==
  /\ history = {}
  /\ latest = NoSnapshots
  /\ pc = [r \in Requests |-> "received"]
  /\ runtime = [v \in Views |-> NoPost]
  /\ trend = [v \in Views |-> {}]
  /\ summary = [v \in Views |-> {}]
  /\ ranked = [x \in Discoveries |-> NoSnapshots]
  /\ attached = [x \in Discoveries |-> NoSnapshots]

-----------------------------------------------------------------------------
(* record_runtime: refuse an unregistered dataset, append, then upsert.     *)
Refuse(p) ==
  /\ Of[p] \notin Datasets
  /\ Goes(p, "received", "refused")
  /\ UNCHANGED <<history, latest, runtime, trend, summary, ranked, attached>>

Append(p) ==
  /\ Of[p] \in Datasets
  /\ Goes(p, "received", "appended")
  /\ history' = history \cup {p}
  /\ UNCHANGED <<latest, runtime, trend, summary, ranked, attached>>

\* Slips: the last one to arrive wins; ties lose.
UpsertLastArrival(p) ==
  /\ Goes(p, "appended", "answered")
  /\ latest' = [latest EXCEPT ![Of[p]] = p]
  /\ UNCHANGED <<history, runtime, trend, summary, ranked, attached>>
UpsertFirstOnly(p) ==
  /\ Goes(p, "appended", "answered")
  /\ latest' = [latest EXCEPT ![Of[p]] = IF @ = NoPost THEN p ELSE @]
  /\ UNCHANGED <<history, runtime, trend, summary, ranked, attached>>

\* ON CONFLICT DO UPDATE WHERE excluded.observed_at >= the stored one.
Upsert(p) ==
  /\ Goes(p, "appended", "answered")
  /\ latest' = [latest EXCEPT ![Of[p]] =
                  IF @ = NoPost THEN p ELSE IF At[p] >= At[@] THEN p ELSE @]
  /\ UNCHANGED <<history, runtime, trend, summary, ranked, attached>>

\* A slip: the snapshot first, the history after it.
RecordLatestFirst(p) ==
  \/ /\ Of[p] \in Datasets
     /\ Goes(p, "received", "appended")
     /\ latest' = [latest EXCEPT ![Of[p]] =
                     IF @ = NoPost THEN p ELSE IF At[p] >= At[@] THEN p ELSE @]
     /\ UNCHANGED <<history, runtime, trend, summary, ranked, attached>>
  \/ /\ Goes(p, "appended", "answered")
     /\ history' = history \cup {p}
     /\ UNCHANGED <<latest, runtime, trend, summary, ranked, attached>>

Record(p) == Append(p) \/ Upsert(p)

-----------------------------------------------------------------------------
(* get_dataset_context reads the snapshot, then the trend, then the summary. *)
ReadLatest(v) ==
  /\ Goes(v, "received", "shown")
  /\ runtime' = [runtime EXCEPT ![v] = latest[Viewed[v]]]
  /\ UNCHANGED <<history, latest, trend, summary, ranked, attached>>

ReadTrend(v) ==
  /\ Goes(v, "shown", "trended")
  /\ \E top \in NewestRows(RowsOf(Viewed[v]) \cap Counted, Limit) :
       trend' = [trend EXCEPT ![v] = top]
  /\ UNCHANGED <<history, latest, runtime, summary, ranked, attached>>

ReadSummary(v) ==
  /\ Goes(v, "trended", "answered")
  /\ summary' = [summary EXCEPT ![v] = RowsOf(Viewed[v])]
  /\ UNCHANGED <<history, latest, runtime, trend, ranked, attached>>

\* A slip: the analytics first, the snapshot last.
ReadLatestLast(v) ==
  \/ /\ Goes(v, "received", "shown")
     /\ \E top \in NewestRows(RowsOf(Viewed[v]) \cap Counted, Limit) :
          trend' = [trend EXCEPT ![v] = top]
     /\ UNCHANGED <<history, latest, runtime, summary, ranked, attached>>
  \/ /\ Goes(v, "shown", "trended")
     /\ summary' = [summary EXCEPT ![v] = RowsOf(Viewed[v])]
     /\ UNCHANGED <<history, latest, runtime, trend, ranked, attached>>
  \/ /\ Goes(v, "trended", "answered")
     /\ runtime' = [runtime EXCEPT ![v] = latest[Viewed[v]]]
     /\ UNCHANGED <<history, latest, trend, summary, ranked, attached>>

View(v) == ReadLatest(v) \/ ReadTrend(v) \/ ReadSummary(v)

(* discover ranks the candidates with one read of the snapshots and returns *)
(* them with another.                                                       *)
Rank(x) ==
  /\ Goes(x, "received", "ranked")
  /\ ranked' = [ranked EXCEPT ![x] = latest]
  /\ UNCHANGED <<history, latest, runtime, trend, summary, attached>>

Attach(x) ==
  /\ Goes(x, "ranked", "answered")
  /\ attached' = [attached EXCEPT ![x] = latest]
  /\ UNCHANGED <<history, latest, runtime, trend, summary, ranked>>

-----------------------------------------------------------------------------
InFlight == {"received", "appended", "shown", "trended", "ranked"}

\* A store raises: the request gets an error, what it wrote stays.
Raise(r) ==
  /\ Faults
  /\ pc[r] \in InFlight
  /\ pc' = [pc EXCEPT ![r] = "failed"]
  /\ UNCHANGED <<history, latest, runtime, trend, summary, ranked, attached>>

\* The server dies and starts again on the same files.
Crash ==
  /\ Faults
  /\ \E r \in Requests : pc[r] \in InFlight \ {"received"}
  /\ pc' = [r \in Requests |-> IF pc[r] \in InFlight \ {"received"} THEN "failed" ELSE pc[r]]
  /\ UNCHANGED <<history, latest, runtime, trend, summary, ranked, attached>>

Handle(r) ==
  \/ r \in Posts /\ (Refuse(r) \/ Record(r))
  \/ r \in Views /\ View(r)
  \/ r \in Discoveries /\ (Rank(r) \/ Attach(r))

Next == Crash \/ \E r \in Requests : Handle(r) \/ Raise(r)

Spec == Init /\ [][Next]_vars

\* Every handler thread is scheduled and gets its turn at the locks.
FairSpec == Spec /\ \A r \in Requests : WF_vars(Handle(r))

-----------------------------------------------------------------------------
Ledger == INSTANCE RuntimeLedger WITH ledger <- history, current <- latest

\* What each step of a request has behind it; the inductive part.
SnapshotsRecorded ==
  \A d \in Datasets : latest[d] # NoPost => latest[d] \in RowsOf(d)

PostsPlaced ==
  \A p \in Posts :
    /\ pc[p] \in {"appended", "answered"} => p \in history /\ Of[p] \in Datasets
    /\ pc[p] = "answered" => Served(p)

ViewsPlaced ==
  \A v \in Views :
    /\ runtime[v] # NoPost => runtime[v] \in RowsOf(Viewed[v])
    /\ pc[v] \in {"trended", "answered"} =>
         /\ trend[v] \subseteq RowsOf(Viewed[v])
         /\ runtime[v] \in Counted \ trend[v] =>
              /\ Cardinality(trend[v]) = Limit
              /\ \A p \in trend[v] : Epoch[p] >= Epoch[runtime[v]]
    /\ pc[v] = "answered" =>
         trend[v] \subseteq summary[v] /\ runtime[v] \in summary[v] \cup {NoPost}

DiscoveriesPlaced ==
  \A x \in Discoveries, d \in Datasets : ranked[x][d] # NoPost =>
    /\ pc[x] = "ranked" => Covers(latest[d], ranked[x][d])
    /\ pc[x] = "answered" => Covers(attached[x][d], ranked[x][d])

Inv == TypeOK /\ SnapshotsRecorded /\ PostsPlaced /\ ViewsPlaced /\ DiscoveriesPlaced

(* The two stores together behave as one ledger with a current entry per    *)
(* dataset that never turns back.                                           *)
KeepsLedger == Ledger!Spec

(* An observation whose POST was answered is what the snapshot serves, or   *)
(* something as new is, whatever raised or died since                       *)
(* (milestone-3-runtime-context.md, "An older late-arriving observation     *)
(* remains in history but cannot replace a newer current snapshot").        *)
AnsweredIsServed ==
  \A p \in Posts : pc[p] = "answered" => Served(p)

(* A dataset context is of one piece: the runtime it shows is among the     *)
(* observations its summary counts, and in its trend unless the trend is    *)
(* full of observations at least as new.                                    *)
ContextHangsTogether ==
  \A v \in Views : pc[v] = "answered" =>
    /\ trend[v] \subseteq summary[v]
    /\ runtime[v] # NoPost => runtime[v] \in summary[v]
    /\ runtime[v] \in Counted \ trend[v] =>
         /\ Cardinality(trend[v]) = Limit
         /\ \A p \in trend[v] : Epoch[p] >= Epoch[runtime[v]]

(* Discovery never returns a candidate with an older observation than the   *)
(* one that ranked it.                                                      *)
AttachedNotOlder ==
  \A x \in Discoveries : pc[x] = "answered" =>
    \A d \in Datasets : ranked[x][d] # NoPost => Covers(attached[x][d], ranked[x][d])

(* Every observation appended to the history is served, or outdone, in the  *)
(* end, unless its request was told that it failed.                         *)
HistoryReachesSnapshot ==
  \A p \in Posts : p \in history ~> Served(p) \/ pc[p] = "failed"

=============================================================================
