------------------------- MODULE RuntimeStoreProofs -------------------------
(***************************************************************************)
(* Theorems about RuntimeStore for any number of posts, views and          *)
(* discoveries over any datasets, with or without faults.                  *)
(***************************************************************************)
EXTENDS RuntimeStore, FiniteSetTheorems, TLAPS

USE StoreConstants

(* At most Limit newest rows: what is left out is older, and then the limit *)
(* is reached.                                                              *)
LEMMA TopRows ==
  ASSUME NEW rows \in SUBSET Posts, NEW top \in NewestRows(rows, Limit),
         NEW q \in rows \ top
  PROVE  Cardinality(top) = Limit /\ \A p \in top : Epoch[p] >= Epoch[q]
  <1>1. /\ top \in SUBSET rows
        /\ Cardinality(top) = IF Cardinality(rows) < Limit THEN Cardinality(rows) ELSE Limit
        /\ \A p \in top : Epoch[p] >= Epoch[q]
    BY DEF NewestRows
  <1>2. IsFiniteSet(rows)
    BY FS_Subset
  <1>3. Cardinality(rows) # Cardinality(top)
    BY <1>1, <1>2, FS_Subset
  <1>4. QED
    BY <1>1, <1>3

(* No snapshot is a snapshot.                                               *)
LEMMA NoSnapshotsType == NoSnapshots \in Snapshots
  BY DEF NoSnapshots, Snapshots

(* At first nothing is stored.                                              *)
LEMMA InitInv == Init => Inv
  <1> SUFFICES ASSUME Init PROVE Inv
    OBVIOUS
  <1>1. TypeOK
    BY NoSnapshotsType DEF Init, TypeOK, Steps
  <1>2. SnapshotsRecorded /\ PostsPlaced /\ ViewsPlaced /\ DiscoveriesPlaced
    BY DEF Init, SnapshotsRecorded, PostsPlaced, ViewsPlaced, DiscoveriesPlaced, NoSnapshots,
           Requests
  <1>3. QED
    BY <1>1, <1>2 DEF Inv

(* The stores only move forward: rows stay, snapshots are never outdone by  *)
(* older ones.                                                              *)
Forward ==
  /\ history \subseteq history'
  /\ \A d \in Datasets : latest[d] # NoPost => Covers(latest'[d], latest[d])

(* A step that leaves the snapshots alone moves none of them back.          *)
LEMMA Untouched ==
  ASSUME Inv, UNCHANGED latest, history \subseteq history'
  PROVE  Forward
  BY DEF Forward, Covers, Inv, TypeOK, Snapshots

(* What a snapshot covers it covers for good.                               *)
LEMMA CoversMoves ==
  ASSUME Inv, Forward, NEW d \in Datasets, NEW p \in Posts, Covers(latest[d], p), latest' \in Snapshots
  PROVE  Covers(latest'[d], p)
  BY DEF Covers, Forward, Inv, TypeOK, Snapshots

(* An upsert takes the observation or keeps a newer one.                    *)
LEMMA UpsertEffect ==
  ASSUME Inv, NEW p \in Posts, Upsert(p)
  PROVE  /\ Of[p] \in Datasets /\ p \in history /\ history' = history
         /\ latest' \in Snapshots
         /\ \A d \in Datasets \ {Of[p]} : latest'[d] = latest[d]
         /\ latest'[Of[p]] \in {p, latest[Of[p]]}
         /\ Covers(latest'[Of[p]], p)
         /\ latest[Of[p]] # NoPost => Covers(latest'[Of[p]], latest[Of[p]])
         /\ latest'[Of[p]] # latest[Of[p]] =>
              /\ latest'[Of[p]] = p
              /\ latest[Of[p]] # NoPost => At[p] >= At[latest[Of[p]]]
  <1>1. Of[p] \in Datasets /\ p \in history
    BY DEF Upsert, Goes, Inv, PostsPlaced
  <1>2. latest[Of[p]] \in Posts \cup {NoPost}
    BY <1>1 DEF Inv, TypeOK, Snapshots
  <1>3. /\ latest' = [latest EXCEPT ![Of[p]] =
                        IF @ = NoPost THEN p ELSE IF At[p] >= At[@] THEN p ELSE @]
        /\ history' = history
    BY DEF Upsert
  <1>4. QED
    BY <1>1, <1>2, <1>3 DEF Covers, Inv, TypeOK, Snapshots

(* No step takes an observation from the history or moves a snapshot back.  *)
LEMMA StepsForward == Inv /\ [Next]_vars => Forward
  <1> SUFFICES ASSUME Inv, [Next]_vars PROVE Forward
    OBVIOUS
  <1>1. ASSUME NEW p \in Posts, Upsert(p) PROVE Forward
    <2>1. \A d \in Datasets : latest[d] # NoPost => Covers(latest[d], latest[d])
      BY DEF Covers, Inv, TypeOK, Snapshots
    <2>2. QED
      BY <1>1, <2>1, UpsertEffect DEF Forward
  <1>2. ASSUME NEW p \in Posts, Refuse(p) \/ Append(p) PROVE Forward
    BY <1>2, Untouched DEF Refuse, Append
  <1>3. ASSUME NEW v \in Views, View(v) PROVE Forward
    BY <1>3, Untouched DEF View, ReadLatest, ReadTrend, ReadSummary
  <1>4. ASSUME NEW x \in Discoveries, Rank(x) \/ Attach(x) PROVE Forward
    BY <1>4, Untouched DEF Rank, Attach
  <1>5. ASSUME Crash \/ \E r \in Requests : Raise(r) PROVE Forward
    BY <1>5, Untouched DEF Crash, Raise
  <1>6. CASE UNCHANGED vars
    BY <1>6, Untouched DEF vars
  <1>7. QED
    BY <1>1, <1>2, <1>3, <1>4, <1>5, <1>6 DEF Next, Handle, Record

-----------------------------------------------------------------------------
(* The inductive invariant, one part at a time. A request's part survives   *)
(* any step that leaves its own thread alone, because the stores move       *)
(* forward.                                                                 *)

(* What a post has behind it stays behind it.                               *)
LEMMA PostsStay ==
  ASSUME Inv, Forward, latest' \in Snapshots, NEW p \in Posts,
         pc'[p] = pc[p] \/ pc'[p] \notin {"appended", "answered"}
  PROVE  PostsPlaced!(p)'
  BY CoversMoves DEF Inv, PostsPlaced, Served, Forward

(* What a context read has read stays true of what it read.                 *)
LEMMA ViewsStay ==
  ASSUME Inv, Forward, NEW v \in Views,
         pc'[v] = pc[v] \/ pc'[v] \notin {"trended", "answered"},
         runtime'[v] = runtime[v], trend'[v] = trend[v], summary'[v] = summary[v]
  PROVE  ViewsPlaced!(v)'
  BY DEF Inv, ViewsPlaced, RowsOf, Forward

(* What a discovery ranked with stays covered.                              *)
LEMMA DiscoveriesStay ==
  ASSUME Inv, Forward, latest' \in Snapshots, NEW x \in Discoveries, NEW d \in Datasets,
         pc'[x] = pc[x] \/ pc'[x] \notin {"ranked", "answered"},
         ranked'[x] = ranked[x], attached'[x] = attached[x]
  PROVE  DiscoveriesPlaced!(x, d)'
  <1>1. ranked[x][d] \in Posts \cup {NoPost}
    BY DEF Inv, TypeOK, Snapshots
  <1>2. QED
    BY <1>1, CoversMoves DEF Inv, DiscoveriesPlaced

(* The snapshots stay within the history.                                   *)
LEMMA SnapshotsStay ==
  ASSUME Inv, Forward, latest' = latest
  PROVE  SnapshotsRecorded'
  BY DEF Inv, SnapshotsRecorded, RowsOf, Forward

(* Every step keeps the types.                                              *)
LEMMA NextType == TypeOK /\ PostsPlaced /\ [Next]_vars => TypeOK'
  <1> SUFFICES ASSUME TypeOK, PostsPlaced, [Next]_vars PROVE TypeOK'
    OBVIOUS
  <1> USE DEF TypeOK, Goes, Steps, Requests
  <1>1. ASSUME NEW p \in Posts, Refuse(p) \/ Append(p) PROVE TypeOK'
    BY <1>1 DEF Refuse, Append
  <1>2. ASSUME NEW p \in Posts, Upsert(p) PROVE TypeOK'
    <2>1. Of[p] \in Datasets
      BY <1>2 DEF Upsert, PostsPlaced
    <2>2. latest' \in Snapshots
      BY <1>2, <2>1 DEF Upsert, Snapshots
    <2>3. QED
      BY <1>2, <2>2 DEF Upsert
  <1>3. ASSUME NEW v \in Views, ReadLatest(v) PROVE TypeOK'
    BY <1>3 DEF ReadLatest, Snapshots
  <1>4. ASSUME NEW v \in Views, ReadTrend(v) PROVE TypeOK'
    <2>1. PICK top \in NewestRows(RowsOf(Viewed[v]) \cap Counted, Limit) :
            trend' = [trend EXCEPT ![v] = top]
      BY <1>4 DEF ReadTrend
    <2>2. top \in SUBSET Posts
      BY <2>1 DEF NewestRows, RowsOf
    <2>3. QED
      BY <1>4, <2>1, <2>2 DEF ReadTrend
  <1>5. ASSUME NEW v \in Views, ReadSummary(v) PROVE TypeOK'
    BY <1>5 DEF ReadSummary, RowsOf
  <1>6. ASSUME NEW x \in Discoveries, Rank(x) \/ Attach(x) PROVE TypeOK'
    BY <1>6 DEF Rank, Attach
  <1>7. ASSUME Crash \/ \E r \in Requests : Raise(r) PROVE TypeOK'
    BY <1>7 DEF Crash, Raise
  <1>8. CASE UNCHANGED vars
    BY <1>8 DEF vars
  <1>9. QED
    BY <1>1, <1>2, <1>3, <1>4, <1>5, <1>6, <1>7, <1>8 DEF Next, Handle, Record, View

(* Every step keeps the inductive invariant.                                *)
LEMMA NextInv == Inv /\ [Next]_vars => Inv'
  <1> SUFFICES ASSUME Inv, [Next]_vars PROVE Inv'
    OBVIOUS
  <1>0. TypeOK' /\ Forward /\ latest' \in Snapshots
    BY NextType, StepsForward DEF Inv, TypeOK
  <1> USE <1>0
  <1>a. ASSUME NEW r \in Requests,
               SnapshotsRecorded',
               \A q \in Requests \ {r} : pc'[q] = pc[q],
               r \in Posts => PostsPlaced!(r)',
               r \in Views => ViewsPlaced!(r)',
               r \in Discoveries => \A d \in Datasets : DiscoveriesPlaced!(r, d)',
               \A v \in Views \ {r} : /\ runtime'[v] = runtime[v] /\ trend'[v] = trend[v]
                                      /\ summary'[v] = summary[v],
               \A x \in Discoveries \ {r} : ranked'[x] = ranked[x] /\ attached'[x] = attached[x]
        PROVE  Inv'
    <2>1. PostsPlaced'
      BY <1>a, PostsStay DEF PostsPlaced, Requests
    <2>2. ViewsPlaced'
      BY <1>a, ViewsStay DEF ViewsPlaced, Requests
    <2>3. DiscoveriesPlaced'
      BY <1>a, DiscoveriesStay DEF DiscoveriesPlaced, Requests
    <2>4. QED
      BY <1>a, <2>1, <2>2, <2>3 DEF Inv
  <1> USE DEF Goes
  <1>1. ASSUME NEW p \in Posts, Refuse(p) PROVE Inv'
    BY <1>a, <1>1, SnapshotsStay DEF Refuse, Requests, PostsPlaced, Inv, TypeOK
  <1>2. ASSUME NEW p \in Posts, Append(p) PROVE Inv'
    <2>1. PostsPlaced!(p)'
      BY <1>2 DEF Append, Inv, TypeOK, Requests
    <2>2. QED
      BY <1>a, <1>2, <2>1, SnapshotsStay DEF Append, Requests, Inv, TypeOK
  <1>3. ASSUME NEW p \in Posts, Upsert(p) PROVE Inv'
    <2>1. PostsPlaced!(p)'
      BY <1>3, UpsertEffect DEF Upsert, Served, Inv, TypeOK, Requests
    <2>2. SnapshotsRecorded'
      BY <1>3, UpsertEffect DEF SnapshotsRecorded, RowsOf, Inv
    <2>3. QED
      BY <1>a, <1>3, <2>1, <2>2 DEF Upsert, Requests, Inv, TypeOK
  <1>4. ASSUME NEW v \in Views, ReadLatest(v) PROVE Inv'
    <2>1. pc'[v] = "shown" /\ runtime'[v] = latest[Viewed[v]] /\ history' = history
      BY <1>4 DEF ReadLatest, Inv, TypeOK, Requests
    <2>2. ViewsPlaced!(v)'
      BY <2>1 DEF Inv, SnapshotsRecorded, RowsOf
    <2>3. QED
      BY <1>a, <1>4, <2>2, SnapshotsStay DEF ReadLatest, Requests, Inv, TypeOK
  <1>5. ASSUME NEW v \in Views, ReadTrend(v) PROVE Inv'
    <2>1. PICK top \in NewestRows(RowsOf(Viewed[v]) \cap Counted, Limit) :
            trend' = [trend EXCEPT ![v] = top]
      BY <1>5 DEF ReadTrend
    <2>2. /\ pc'[v] = "trended" /\ trend'[v] = top
          /\ UNCHANGED <<history, latest, runtime, summary, ranked, attached>>
          /\ \A q \in Requests \ {v} : pc'[q] = pc[q]
      BY <1>5, <2>1 DEF ReadTrend, Inv, TypeOK, Requests
    <2>3. top \subseteq RowsOf(Viewed[v]) \cap Counted
      BY <2>1 DEF NewestRows
    <2>4. runtime[v] # NoPost => runtime[v] \in RowsOf(Viewed[v])
      BY DEF Inv, ViewsPlaced
    <2>5. runtime[v] \in Counted \ top =>
            Cardinality(top) = Limit /\ \A p \in top : Epoch[p] >= Epoch[runtime[v]]
      BY <2>1, <2>4, TopRows DEF RowsOf, Inv, TypeOK
    <2>6. RowsOf(Viewed[v])' = RowsOf(Viewed[v])
      BY <2>2 DEF RowsOf
    <2>7. ViewsPlaced!(v)'
      BY <2>2, <2>3, <2>4, <2>5, <2>6
    <2>8. QED
      BY <1>a, <2>1, <2>2, <2>7, SnapshotsStay DEF Requests, Inv, TypeOK
  <1>6. ASSUME NEW v \in Views, ReadSummary(v) PROVE Inv'
    <2>1. /\ pc[v] = "trended" /\ pc'[v] = "answered" /\ summary'[v] = RowsOf(Viewed[v])
          /\ UNCHANGED <<history, latest, runtime, trend, ranked, attached>>
          /\ \A q \in Requests \ {v} : pc'[q] = pc[q]
      BY <1>6 DEF ReadSummary, Inv, TypeOK, Requests
    <2>2. RowsOf(Viewed[v])' = RowsOf(Viewed[v])
      BY <2>1 DEF RowsOf
    <2>3. ViewsPlaced!(v)
      BY DEF Inv, ViewsPlaced
    <2>4. ViewsPlaced!(v)'
      BY <2>1, <2>2, <2>3
    <2>5. QED
      BY <1>a, <1>6, <2>1, <2>4, SnapshotsStay DEF ReadSummary, Requests, Inv, TypeOK
  <1>7. ASSUME NEW x \in Discoveries, Rank(x) PROVE Inv'
    <2>1. pc'[x] = "ranked" /\ ranked'[x] = latest /\ latest' = latest
      BY <1>7 DEF Rank, Inv, TypeOK, Requests
    <2>2. \A d \in Datasets : DiscoveriesPlaced!(x, d)'
      BY <2>1 DEF Forward
    <2>3. QED
      BY <1>a, <1>7, <2>2, SnapshotsStay DEF Rank, Requests, Inv, TypeOK
  <1>8. ASSUME NEW x \in Discoveries, Attach(x) PROVE Inv'
    <2>1. pc[x] = "ranked" /\ pc'[x] = "answered" /\ attached'[x] = latest /\ ranked' = ranked
      BY <1>8 DEF Attach, Inv, TypeOK, Requests
    <2>2. \A d \in Datasets : DiscoveriesPlaced!(x, d)'
      BY <2>1 DEF Inv, DiscoveriesPlaced
    <2>3. QED
      BY <1>a, <1>8, <2>2, SnapshotsStay DEF Attach, Requests, Inv, TypeOK
  <1>9. ASSUME UNCHANGED <<history, latest, runtime, trend, summary, ranked, attached>>,
               \A q \in Requests : pc'[q] = pc[q] \/ pc'[q] = "failed"
        PROVE  Inv'
    <2>1. PostsPlaced'
      BY <1>9, PostsStay DEF PostsPlaced, Requests
    <2>2. ViewsPlaced'
      BY <1>9, ViewsStay DEF ViewsPlaced, Requests
    <2>3. DiscoveriesPlaced'
      BY <1>9, DiscoveriesStay DEF DiscoveriesPlaced, Requests
    <2>4. QED
      BY <1>9, <2>1, <2>2, <2>3, SnapshotsStay DEF Inv
  <1>10. ASSUME Crash \/ \E r \in Requests : Raise(r) PROVE Inv'
    BY <1>9, <1>10 DEF Crash, Raise, Inv, TypeOK
  <1>11. CASE UNCHANGED vars
    BY <1>9, <1>11 DEF vars
  <1>12. QED
    BY <1>1, <1>2, <1>3, <1>4, <1>5, <1>6, <1>7, <1>8, <1>10, <1>11
    DEF Next, Handle, Record, View

(* Every variable keeps its type, every snapshot is a recorded observation, *)
(* and every request has behind it what its step says.                      *)
THEOREM Invariance == Spec => []Inv
  BY InitInv, NextInv, PTL DEF Spec

(* An answered observation is served, or one as new is, for good.           *)
THEOREM AnsweredServed == Spec => []AnsweredIsServed
  <1>1. Inv => AnsweredIsServed
    BY DEF Inv, PostsPlaced, AnsweredIsServed
  <1>2. QED
    BY <1>1, Invariance, PTL

(* The three reads of a dataset context agree however writers interleave.   *)
THEOREM ContextAgrees == Spec => []ContextHangsTogether
  <1>1. Inv => ContextHangsTogether
    BY DEF Inv, ViewsPlaced, ContextHangsTogether
  <1>2. QED
    BY <1>1, Invariance, PTL

(* Discovery never attaches an older observation than it ranked with.       *)
THEOREM DiscoveryAgrees == Spec => []AttachedNotOlder
  <1>1. Inv => AttachedNotOlder
    BY DEF Inv, DiscoveriesPlaced, AttachedNotOlder
  <1>2. QED
    BY <1>1, Invariance, PTL

(* What the snapshot serves of a dataset was answered, what the history     *)
(* holds is served, or outdone, unless its request failed or is between its *)
(* two writes: the state that HistoryReachesSnapshot has fairness lead to.  *)
SnapshotsAnswered ==
  \A d \in Datasets : latest[d] # NoPost => pc[latest[d]] = "answered"
HistorySettled ==
  \A p \in history : pc[p] \in {"appended", "failed"} \/ (pc[p] = "answered" /\ Served(p))
NewestAnswered(d) ==
  LET done == {p \in Posts : Of[p] = d /\ pc[p] = "answered"} IN
  IF done = {} THEN latest[d] = NoPost
  ELSE latest[d] \in done /\ \A p \in done : At[latest[d]] >= At[p]
StoresAgree == HistorySettled /\ \A d \in Datasets : NewestAnswered(d)

Begun == \A p \in history : pc[p] \in {"appended", "answered", "failed"}

(* Every step keeps that: only an upsert changes a snapshot, and answers.   *)
LEMMA NextSettles ==
  ASSUME Inv, SnapshotsAnswered, Begun, [Next]_vars
  PROVE  SnapshotsAnswered' /\ Begun'
  <1> USE DEF Goes, Inv, TypeOK, Requests, Snapshots, SnapshotsAnswered, Begun
  <1>1. ASSUME NEW r \in Requests, UNCHANGED <<history, latest>>,
               r \notin history, \A q \in Requests \ {r} : pc'[q] = pc[q]
        PROVE  SnapshotsAnswered' /\ Begun'
    <2>1. \A p \in history : p # r /\ pc'[p] = pc[p]
      BY <1>1
    <2>2. \A d \in Datasets : latest[d] # NoPost => latest[d] \in history
      BY DEF SnapshotsRecorded, RowsOf
    <2>3. QED
      BY <1>1, <2>1, <2>2
  <1>2. ASSUME NEW p \in Posts, Refuse(p)
        PROVE  SnapshotsAnswered' /\ Begun'
    BY <1>1, <1>2 DEF Refuse
  <1>3. ASSUME NEW p \in Posts, Append(p)
        PROVE  SnapshotsAnswered' /\ Begun'
    BY <1>3 DEF Append
  <1>4. ASSUME NEW p \in Posts, Upsert(p)
        PROVE  SnapshotsAnswered' /\ Begun'
    <2>1. pc' = [pc EXCEPT ![p] = "answered"]
      BY <1>4 DEF Upsert
    <2>2. QED
      BY <1>4, <2>1, UpsertEffect
  <1>5. ASSUME NEW v \in Views, View(v)
        PROVE  SnapshotsAnswered' /\ Begun'
    BY <1>1, <1>5 DEF View, ReadLatest, ReadTrend, ReadSummary
  <1>6. ASSUME NEW x \in Discoveries, Rank(x) \/ Attach(x)
        PROVE  SnapshotsAnswered' /\ Begun'
    BY <1>1, <1>6 DEF Rank, Attach
  <1>7. ASSUME Crash \/ \E r \in Requests : Raise(r)
        PROVE  SnapshotsAnswered' /\ Begun'
    <2>1. UNCHANGED <<history, latest>>
      BY <1>7 DEF Crash, Raise
    <2>2. \A r \in Requests : pc'[r] = pc[r] \/ (pc[r] # "answered" /\ pc'[r] = "failed")
      BY <1>7 DEF Crash, Raise, InFlight
    <2>3. \A d \in Datasets : latest[d] \in Posts \cup {NoPost}
      OBVIOUS
    <2>4. QED
      BY <2>1, <2>2, <2>3
  <1>8. CASE UNCHANGED vars
    BY <1>8 DEF vars
  <1>9. QED
    BY <1>2, <1>3, <1>4, <1>5, <1>6, <1>7, <1>8 DEF Next, Handle, Record

(* The snapshot of a dataset is a newest of its answered observations, no   *)
(* more and no less, in whatever order they arrived and whoever failed; and *)
(* a row of the history that is not served is of a request that failed or   *)
(* is about to be upserted (runtime/stores.py, record).                     *)
THEOREM SnapshotIsNewest == Spec => []StoresAgree
  <1>1. Init => SnapshotsAnswered /\ Begun
    BY DEF Init, SnapshotsAnswered, Begun, NoSnapshots
  <1>2. Inv /\ SnapshotsAnswered /\ Begun /\ [Next]_vars => SnapshotsAnswered' /\ Begun'
    BY NextSettles
  <1>3. Inv /\ SnapshotsAnswered /\ Begun => StoresAgree
    <2> SUFFICES ASSUME Inv, SnapshotsAnswered, Begun PROVE StoresAgree
      OBVIOUS
    <2>1. HistorySettled
      <3>1. history \subseteq Posts
        BY DEF Inv, TypeOK
      <3>2. \A p \in Posts : pc[p] = "answered" => Served(p)
        BY DEF Inv, PostsPlaced
      <3>3. QED
        BY <3>1, <3>2 DEF HistorySettled, Begun
    <2>2. ASSUME NEW d \in Datasets PROVE NewestAnswered(d)
      BY <2>2 DEF NewestAnswered, SnapshotsAnswered, SnapshotsRecorded, RowsOf, Inv, TypeOK,
         PostsPlaced, Served, Covers, Snapshots
    <2>3. QED
      BY <2>1, <2>2 DEF StoresAgree
  <1>4. QED
    BY <1>1, <1>2, <1>3, Invariance, PTL DEF Spec

(* The two stores, written one after the other by many threads, implement   *)
(* the one ledger.                                                          *)
THEOREM Refinement == Spec => KeepsLedger
  <1>1. Init => Ledger!Init
    BY DEF Init, Ledger!Init, NoSnapshots
  <1>2. Inv /\ [Next]_vars => [Ledger!Next]_(Ledger!vars)
    <2> SUFFICES ASSUME Inv, [Next]_vars PROVE [Ledger!Next]_(Ledger!vars)
      OBVIOUS
    <2>1. ASSUME NEW p \in Posts, Append(p) PROVE Ledger!Next
      BY <2>1 DEF Append, Ledger!Next, Ledger!Enter
    <2>2. ASSUME NEW p \in Posts, Upsert(p) PROVE [Ledger!Next]_(Ledger!vars)
      <3>1. CASE latest'[Of[p]] = latest[Of[p]]
        <4>1. latest' = latest
          BY <2>2, <3>1, UpsertEffect DEF Inv, TypeOK, Snapshots
        <4>2. QED
          BY <2>2, <4>1, UpsertEffect DEF Ledger!vars
      <3>2. CASE latest'[Of[p]] # latest[Of[p]]
        <4>1. /\ latest' = [latest EXCEPT ![Of[p]] = p] /\ p \in history /\ history' = history
              /\ latest[Of[p]] # NoPost => At[latest[Of[p]]] <= At[p]
          BY <2>2, <3>2, UpsertEffect DEF Inv, TypeOK, Snapshots
        <4>2. QED
          BY <4>1 DEF Ledger!Next, Ledger!Advance
      <3>3. QED
        BY <3>1, <3>2
    <2>3. ASSUME NEW p \in Posts, Refuse(p) PROVE UNCHANGED <<history, latest>>
      BY <2>3 DEF Refuse
    <2>4. ASSUME NEW v \in Views, View(v) PROVE UNCHANGED <<history, latest>>
      BY <2>4 DEF View, ReadLatest, ReadTrend, ReadSummary
    <2>5. ASSUME NEW x \in Discoveries, Rank(x) \/ Attach(x) PROVE UNCHANGED <<history, latest>>
      BY <2>5 DEF Rank, Attach
    <2>6. ASSUME Crash \/ \E r \in Requests : Raise(r) PROVE UNCHANGED <<history, latest>>
      BY <2>6 DEF Crash, Raise
    <2>7. CASE UNCHANGED vars
      BY <2>7 DEF vars, Ledger!vars
    <2>8. QED
      BY <2>1, <2>2, <2>3, <2>4, <2>5, <2>6, <2>7 DEF Next, Handle, Record, Ledger!vars
  <1>3. QED
    BY InitInv, NextInv, <1>1, <1>2, PTL DEF Spec, KeepsLedger, Ledger!Spec

=============================================================================
