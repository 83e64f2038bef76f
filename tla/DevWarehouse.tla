---------------------------- MODULE DevWarehouse ----------------------------
(***************************************************************************)
(* The DEV warehouse file engineering.duckdb and the table operations of   *)
(* EngineeringService: safe_replace_table, publish_new_table,              *)
(* prune_backups and restore_table_from_backup, called by several          *)
(* processes, with the audit file each operation appends to.               *)
(*                                                                         *)
(* DuckDB lets one process at a time open the file for writing, so an      *)
(* operation's session excludes the others; it runs statement by           *)
(* statement inside the session, and other processes come in between two   *)
(* sessions, and between a session and the audit record that follows it.   *)
(***************************************************************************)
EXTENDS Integers, FiniteSets

CONSTANTS
  Targets,         \* tables that are published, replaced and restored
  Scratch,         \* names under which callers stage replacement tables
  Contents,        \* table contents: definition, rows and indexes
  Absent,          \* the table does not exist
  Clients,         \* processes that hold an EngineeringService
  Writers,         \* those built with allow_development_writes
  NoClient,
  NoName,
  MaxStamp,        \* bound: how many copies get a time-stamped name
  Keeps,           \* the values callers pass as keep
  PassPreserve,    \* callers prune after a replacement, preserving its backup
  MonotonicClock,  \* the UTC clock never steps back
  StatementFaults, \* a statement inside a session may raise
  Crashes          \* a process may die

ASSUME WarehouseConstants ==
  /\ Targets \cap Scratch = {}
  /\ Absent \notin Contents
  /\ Writers \subseteq Clients
  /\ NoClient \notin Clients
  /\ MaxStamp \in Nat
  /\ Keeps \subseteq Nat \ {0}
  /\ {PassPreserve, MonotonicClock, StatementFaults, Crashes} \subseteq BOOLEAN

-----------------------------------------------------------------------------
(* Table names. A copy's name carries the purpose, the table it copies and  *)
(* the time-stamp; the random suffix only makes the name unique.            *)

Purposes == {"backup", "before_restore"}
LiveNames == [kind : {"table"}, of : Targets \cup Scratch, stamp : {0}]
CopyNames == [kind : Purposes, of : Targets, stamp : 1..MaxStamp]
BackupNames == {n \in CopyNames : n.kind = "backup"}
Names == LiveNames \cup CopyNames

ASSUME NoNameIsNoTable == NoName \notin Names

Table(t) == [kind |-> "table", of |-> t, stamp |-> 0]
BackupName(t, purpose, n) == [kind |-> purpose, of |-> t, stamp |-> n]

\* The locals of an operation: what it was asked and what it has left to do.
Doing(kind, t, source, copy) ==
  [kind |-> kind, table |-> t, source |-> source, copy |-> copy,
   keep |-> 0, dropped |-> {}, todo |-> {}]
Pruning(t, keep, todo) ==
  [kind |-> "prune", table |-> t, source |-> NoName, copy |-> NoName,
   keep |-> keep, dropped |-> todo, todo |-> todo]
NoOp == Doing("none", NoName, NoName, NoName)

VARIABLES
  db,        \* committed contents of every name, Absent where no table exists
  work,      \* what the open transaction sees
  session,   \* the process that has the file open
  pc,        \* where each client is in its operation
  op,        \* the arguments and locals of that operation
  promised,  \* the backup the client was last told to use for rollback
  clock,     \* the last time-stamp taken
  used,      \* the copy names given out so far
  audit,     \* the changes the audit file records
  changed,   \* history: the changes that were committed
  undo       \* history: the content the last change of a table displaced

vars == <<db, work, session, pc, op, promised, clock, used, audit, changed, undo>>

InTransaction == {"begun", "copied", "dropped", "moved", "ready"}
Steps == InTransaction \cup {"idle", "pruning", "audit"}

\* A committed change, named by what it did to which name.
Facts == {"replace", "drop"} \X BackupNames
           \cup {"restore"} \X (CopyNames \ BackupNames)
           \cup {<<"publish", Table(t)>> : t \in Targets}

Changes == {o \in [kind : {"replace", "restore"}, table : Targets, source : Names,
                   copy : CopyNames, keep : {0}, dropped : {{}}, todo : {{}}] :
              o.kind = "replace" <=> o.copy \in BackupNames}
Publications == [kind : {"publish"}, table : Targets, source : {NoName},
                 copy : {NoName}, keep : {0}, dropped : {{}}, todo : {{}}]
Prunings == [kind : {"prune"}, table : Targets, source : {NoName}, copy : {NoName},
             keep : Keeps, dropped : SUBSET BackupNames, todo : SUBSET BackupNames]
Ops == {NoOp} \cup Changes \cup Publications \cup Prunings

TypeOK ==
  /\ db \in [Names -> Contents \cup {Absent}]
  /\ work \in [Names -> Contents \cup {Absent}]
  /\ session \in Clients \cup {NoClient}
  /\ pc \in [Clients -> Steps]
  /\ op \in [Clients -> Ops]
  /\ promised \in [Clients -> CopyNames \cup {NoName}]
  /\ clock \in 0..MaxStamp
  /\ used \in SUBSET CopyNames
  /\ audit \in SUBSET Facts
  /\ changed \in SUBSET Facts
  /\ undo \in [Targets -> Contents \cup {Absent}]

-----------------------------------------------------------------------------
Exists(tables, n) == tables[n] # Absent

CopiesOf(tables, t) == {n \in CopyNames : n.of = t /\ Exists(tables, n)}
BackupsOf(tables, t) == {n \in CopiesOf(tables, t) : n.kind = "backup"}

\* _backup_name: a stamp nobody was given yet, later than all if the clock is sane.
FreshStamp(n) ==
  /\ \A c \in used : c.stamp # n
  /\ MonotonicClock => n = clock + 1

\* Slips in choosing what to keep: oldest first, preserve ignored.
KeptOldest(backups, keep, preserve) ==
  {n \in backups :
     Cardinality({m \in backups : m.stamp < n.stamp}) < keep}
KeptByAgeOnly(backups, keep, preserve) ==
  {n \in backups :
     Cardinality({m \in backups : m.stamp > n.stamp}) < keep}

\* sorted(backups) with the preserved name first: what one prune keeps.
Kept(backups, keep, preserve) ==
  LET first == backups \cap {preserve}
      others == backups \ first
  IN first \cup {n \in others :
       Cardinality({m \in others : m.stamp > n.stamp}) < keep - Cardinality(first)}

\* _connect succeeds only while no other process has the file open.
CanOpen(c) == pc[c] = "idle" /\ session = NoClient

MayWrite(c) == c \in Writers

At(c, step) == pc[c] = step
Goto(c, step) == pc' = [pc EXCEPT ![c] = step]

Init ==
  /\ \E published \in SUBSET Targets : \E v \in Contents :
       db = [n \in Names |-> IF n.kind = "table" /\ n.of \in published
                             THEN v ELSE Absent]
  /\ work = db
  /\ session = NoClient
  /\ pc = [c \in Clients |-> "idle"]
  /\ op = [c \in Clients |-> NoOp]
  /\ promised = [c \in Clients |-> NoName]
  /\ clock = 0
  /\ used = {}
  /\ audit = {}
  /\ changed = {}
  /\ undo = [t \in Targets |-> Absent]

-----------------------------------------------------------------------------
(* Staging a replacement: a caller creates a table in a session of its own. *)
Stage(c, s, v) ==
  /\ CanOpen(c)
  /\ ~Exists(db, Table(s))
  /\ db' = [db EXCEPT ![Table(s)] = v]
  /\ work' = db'
  /\ UNCHANGED <<session, pc, op, promised, clock, used, audit, changed, undo>>

(* A transactional operation opens its session, takes the name of the copy  *)
(* it will make, finds both tables and begins.                              *)
Begin(c, kind, purpose, t, source) ==
  /\ CanOpen(c)
  /\ MayWrite(c)
  /\ Exists(db, Table(t))
  /\ Exists(db, source)
  /\ \E n \in 1..MaxStamp :
       /\ FreshStamp(n)
       /\ clock' = n
       /\ used' = used \cup {BackupName(t, purpose, n)}
       /\ op' = [op EXCEPT ![c] = Doing(kind, t, source, BackupName(t, purpose, n))]
  /\ session' = c
  /\ Goto(c, "begun")
  /\ UNCHANGED <<db, work, promised, audit, changed, undo>>

BeginReplace(c, t, s) == Begin(c, "replace", "backup", t, Table(s))

BeginRestore(c, t, copy) == Begin(c, "restore", "before_restore", t, copy)

\* Statements of the open transaction change only what that connection sees.
Statement(c, from, to, tables) ==
  /\ At(c, from)
  /\ Goto(c, to)
  /\ work' = tables
  /\ UNCHANGED <<db, session, op, promised, clock, used, audit, changed, undo>>

CopyTarget(c) ==
  /\ At(c, "begun") /\ ~Exists(work, op[c].copy)
  /\ Statement(c, "begun", "copied",
               [work EXCEPT ![op[c].copy] = work[Table(op[c].table)]])

\* A slip: the drop runs before BEGIN, so it commits by itself.
DropTargetAutocommitted(c) ==
  /\ At(c, "copied")
  /\ Goto(c, "dropped")
  /\ work' = [work EXCEPT ![Table(op[c].table)] = Absent]
  /\ db' = [db EXCEPT ![Table(op[c].table)] = Absent]
  /\ UNCHANGED <<session, op, promised, clock, used, audit, changed, undo>>

DropTarget(c) ==
  Statement(c, "copied", "dropped", [work EXCEPT ![Table(op[c].table)] = Absent])

RenameReplacement(c) ==
  /\ op[c].kind = "replace"
  /\ Statement(c, "dropped", "ready",
               [work EXCEPT ![Table(op[c].table)] = work[op[c].source],
                            ![op[c].source] = Absent])

CopyBackup(c) ==
  /\ op[c].kind = "restore"
  /\ Statement(c, "dropped", "moved",
               [work EXCEPT ![Table(op[c].table)] = work[op[c].source]])

DropBackup(c) ==
  Statement(c, "moved", "ready", [work EXCEPT ![op[c].source] = Absent])

(* COMMIT and close. The audit record is still owed.                        *)
Commit(c) ==
  /\ At(c, "ready")
  /\ Goto(c, "audit")
  /\ db' = work
  /\ session' = NoClient
  /\ changed' = changed \cup {<<op[c].kind, op[c].copy>>}
  /\ undo' = [undo EXCEPT ![op[c].table] = db[Table(op[c].table)]]
  /\ UNCHANGED <<work, op, promised, clock, used, audit>>

(* First publication: one auto-committed rename, refused when the target    *)
(* already exists.                                                          *)
PublishNew(c, t, s) ==
  /\ CanOpen(c)
  /\ MayWrite(c)
  /\ ~Exists(db, Table(t))
  /\ Exists(db, Table(s))
  /\ db' = [db EXCEPT ![Table(t)] = db[Table(s)], ![Table(s)] = Absent]
  /\ work' = db'
  /\ op' = [op EXCEPT ![c] = Doing("publish", t, NoName, NoName)]
  /\ Goto(c, "audit")
  /\ changed' = changed \cup {<<"publish", Table(t)>>}
  /\ UNCHANGED <<session, promised, clock, used, audit, undo>>

(* prune_backups lists the backups and decides once; the drops that follow  *)
(* commit one by one. Nothing to drop is no change at all.                  *)
BeginPrune(c, t, keep) ==
  LET preserve == IF PassPreserve THEN promised[c] ELSE NoName
      backups == BackupsOf(db, t)
      todo == backups \ Kept(backups, keep, preserve)
  IN /\ CanOpen(c)
     /\ MayWrite(c)
     /\ PassPreserve => preserve # NoName /\ preserve.of = t
     /\ todo # {}
     /\ op' = [op EXCEPT ![c] = Pruning(t, keep, todo)]
     /\ session' = c
     /\ Goto(c, "pruning")
     /\ UNCHANGED <<db, work, promised, clock, used, audit, changed, undo>>

\* A slip: the next drop is looked up in the names decided at the start, so a
\* second one is never reached.
DropNextOfAll(c) ==
  /\ At(c, "pruning")
  /\ op[c].todo # {}
  /\ \E n \in op[c].dropped :
       /\ \A m \in op[c].dropped : n.stamp <= m.stamp
       /\ db' = [db EXCEPT ![n] = Absent]
       /\ work' = db'
       /\ op' = [op EXCEPT ![c].todo = @ \ {n}]
       /\ changed' = changed \cup {<<"drop", n>>}
  /\ UNCHANGED <<session, pc, promised, clock, used, audit, undo>>

DropNext(c) ==
  /\ At(c, "pruning")
  /\ \E n \in op[c].todo :
       /\ \A m \in op[c].todo : n.stamp <= m.stamp
       /\ db' = [db EXCEPT ![n] = Absent]
       /\ work' = db'
       /\ op' = [op EXCEPT ![c].todo = @ \ {n}]
       /\ changed' = changed \cup {<<"drop", n>>}
  /\ UNCHANGED <<session, pc, promised, clock, used, audit, undo>>

\* A slip: returning the dropped names without the record.
ClosePruneUnrecorded(c) ==
  /\ At(c, "pruning")
  /\ op[c].todo = {}
  /\ session' = NoClient
  /\ Goto(c, "idle")
  /\ op' = [op EXCEPT ![c] = NoOp]
  /\ UNCHANGED <<db, work, promised, clock, used, audit, changed, undo>>

ClosePrune(c) ==
  /\ At(c, "pruning")
  /\ op[c].todo = {}
  /\ session' = NoClient
  /\ Goto(c, "audit")
  /\ UNCHANGED <<db, work, op, promised, clock, used, audit, changed, undo>>

-----------------------------------------------------------------------------
(* The record one operation appends, and the answer its caller receives.    *)
Record(o) ==
  CASE o.kind \in {"replace", "restore"} -> {<<o.kind, o.copy>>}
    [] o.kind = "publish" -> {<<"publish", Table(o.table)>>}
    [] o.kind = "prune" -> {<<"drop", n>> : n \in o.dropped}
    [] OTHER -> {}

Audit(c) ==
  /\ At(c, "audit")
  /\ Goto(c, "idle")
  /\ audit' = audit \cup Record(op[c])
  /\ promised' = [promised EXCEPT ![c] =
                    IF op[c].kind = "replace" THEN op[c].copy
                    ELSE IF op[c].kind = "prune" THEN @ ELSE NoName]
  /\ op' = [op EXCEPT ![c] = NoOp]
  /\ UNCHANGED <<db, work, session, clock, used, changed, undo>>

\* A slip: the record written in the finally block, whatever happened.
RaiseRecorded(c) ==
  /\ StatementFaults
  /\ session = c
  /\ At(c, "pruning") => op[c].todo # {}
  /\ work' = db
  /\ session' = NoClient
  /\ Goto(c, "audit")
  /\ UNCHANGED <<db, op, promised, clock, used, audit, changed, undo>>

(* A statement raises: ROLLBACK, close, and the exception reaches the       *)
(* caller, past the audit. Drops a prune has made stay made; after its last *)
(* drop there is no statement left to raise.                                *)
Raise(c) ==
  /\ StatementFaults
  /\ session = c
  /\ At(c, "pruning") => op[c].todo # {}
  /\ work' = db
  /\ session' = NoClient
  /\ Goto(c, "idle")
  /\ op' = [op EXCEPT ![c] = NoOp]
  /\ UNCHANGED <<db, promised, clock, used, audit, changed, undo>>

(* A process dies and a new one takes its place: DuckDB drops what it had   *)
(* not committed, the file is free again and what it was told is forgotten. *)
Crash(c) ==
  /\ Crashes
  /\ work' = IF session = c THEN db ELSE work
  /\ session' = IF session = c THEN NoClient ELSE session
  /\ Goto(c, "idle")
  /\ op' = [op EXCEPT ![c] = NoOp]
  /\ promised' = [promised EXCEPT ![c] = NoName]
  /\ UNCHANGED <<db, clock, used, audit, changed, undo>>

Call(c) ==
  \/ \E s \in Scratch, v \in Contents : Stage(c, s, v)
  \/ \E t \in Targets, s \in Scratch : BeginReplace(c, t, s) \/ PublishNew(c, t, s)
  \/ \E t \in Targets : \E copy \in CopiesOf(db, t) : BeginRestore(c, t, copy)
  \/ \E t \in Targets, keep \in Keeps : BeginPrune(c, t, keep)

Continue(c) ==
  \/ CopyTarget(c) \/ DropTarget(c) \/ RenameReplacement(c)
  \/ CopyBackup(c) \/ DropBackup(c) \/ Commit(c)
  \/ DropNext(c) \/ ClosePrune(c) \/ Audit(c)

Next == \E c \in Clients : Call(c) \/ Continue(c) \/ Raise(c) \/ Crash(c)

Spec == Init /\ [][Next]_vars

\* A started operation runs on: the calls are synchronous Python.
FairSpec == Spec /\ \A c \in Clients : WF_vars(Continue(c))

-----------------------------------------------------------------------------
(* What another process finds when it opens the file.                       *)
Promise == INSTANCE RollbackTable WITH
  cur <- [t \in Targets |-> db[Table(t)]],
  kept <- [t \in Targets |-> {db[n] : n \in CopiesOf(db, t)}]

(* The parts of the inductive invariant. The step a client is at fits the   *)
(* operation it runs; a copy in the file has a name that was given out; the *)
(* session is with the client inside an operation; the open transaction     *)
(* sees the committed tables as its statements so far have changed them.    *)
StepFitsOp ==
  \A c \in Clients :
    /\ pc[c] \in InTransaction => op[c] \in Changes
    /\ pc[c] = "moved" => op[c].kind = "restore"
    /\ pc[c] = "pruning" => op[c] \in Prunings

CopiesHaveNames == \A n \in CopyNames : Exists(db, n) => n \in used

SessionFitsStep ==
  /\ \A c \in Clients : session = c <=> pc[c] \in InTransaction \cup {"pruning"}
  /\ (\A c \in Clients : pc[c] \notin InTransaction) => work = db

\* What the transaction of o sees at each step.
View(o, step) ==
  LET t == Table(o.table)
      copied == [db EXCEPT ![o.copy] = db[t]]
  IN CASE step = "begun" -> db
       [] step = "copied" -> copied
       [] step = "dropped" -> [copied EXCEPT ![t] = Absent]
       [] step = "moved" -> [copied EXCEPT ![t] = db[o.source]]
       [] step = "ready" -> [copied EXCEPT ![t] = db[o.source], ![o.source] = Absent]

TransactionFits ==
  \A c \in Clients : pc[c] \in InTransaction =>
    LET o == op[c] IN
    /\ Exists(db, Table(o.table)) /\ Exists(db, o.source)
    /\ o.kind = "replace" => o.copy.kind = "backup" /\ \E s \in Scratch : o.source = Table(s)
    /\ o.kind = "restore" => o.source \in CopiesOf(db, o.table)
    /\ o.copy.of = o.table /\ o.copy \in used /\ ~Exists(db, o.copy)
    /\ work = View(o, pc[c])

Inv == TypeOK /\ StepFitsOp /\ CopiesHaveNames /\ SessionFitsStep /\ TransactionFits

\* What a step still owes the audit file was committed, and is remembered.
OwedIsDone ==
  \A c \in Clients :
    /\ pc[c] = "idle" => op[c] = NoOp
    /\ pc[c] = "audit" => Record(op[c]) \subseteq changed
    /\ pc[c] = "pruning" =>
         /\ op[c].todo \subseteq op[c].dropped
         /\ \A n \in op[c].dropped \ op[c].todo : <<"drop", n>> \in changed

\* A sane clock stamps every copy later than those before it.
StampsInOrder ==
  MonotonicClock =>
    /\ \A n \in used : n.stamp <= clock
    /\ \A c \in Clients : pc[c] \in InTransaction => op[c].copy.stamp = clock

\* The copy that can undo the last change of t, out of every pruner's reach:
\* a pre-restore copy, which is never pruned, or the newest backup.
Undoes(n, t) ==
  /\ n \in CopiesOf(db, t)
  /\ db[n] = undo[t]
  /\ n.kind = "backup" => \A m \in BackupsOf(db, t) : m.stamp <= n.stamp
  /\ \A c \in Clients : pc[c] = "pruning" => n \notin op[c].todo

UndoKept == \A t \in Targets : undo[t] # Absent => \E n \in CopyNames : Undoes(n, t)

(* Every step of every session keeps the toolkit's promise: readers never   *)
(* see a table half-changed, and content goes only as the promise allows.   *)
KeepsPromise == Promise!Spec

(* The content the last change of a table displaced can still be restored,  *)
(* whoever pruned since (service.py:434, "use the backup table for          *)
(* deterministic rollback").                                                *)
UndoAvailable ==
  \A t \in Targets :
    undo[t] # Absent => \E n \in CopiesOf(db, t) : db[n] = undo[t]

(* A prune that runs to its end leaves at most keep backups, never none,    *)
(* and the one it was told to preserve is among them, however old it is.    *)
PruneReachesKeep ==
  [][\A c \in Clients : ClosePrune(c) =>
       LET left == BackupsOf(db, op[c].table)
       IN /\ left # {}
          /\ Cardinality(left) <= op[c].keep
          /\ promised[c] \notin op[c].dropped \/ ~PassPreserve]_vars

(* The audit file never records a change that was not committed, even when  *)
(* the operation failed or its process died.                                *)
AuditIsTruthful == audit \subseteq changed

(* Every committed change has its record, or a live process still owes it   *)
(* (milestone-6-ai-native-engineering.md:134).                              *)
EveryChangeAudited ==
  \A f \in changed : f \in audit \/ \E c \in Clients : f \in Record(op[c])

\* Committed changes that no record names and nobody is about to record.
LostRecords ==
  {f \in changed : f \notin audit /\ \A c \in Clients : f \notin Record(op[c])}

(* The record of a committed change is lost only when the operation that    *)
(* made it raises or its process dies, and then only that operation's own:  *)
(* whatever answers its caller has recorded all it changed, and nobody else *)
(* can make a record go missing.                                            *)
OnlyInterruptionsLoseRecords ==
  [][\A f \in LostRecords' \ LostRecords :
       \E c \in Clients : (Raise(c) \/ Crash(c)) /\ f \in Record(op[c])]_vars

(* A committed change reaches the audit file in the end, beside others that *)
(* raise and die, unless its own operation was interrupted.                 *)
ChangesReachAudit ==
  \A f \in Facts : f \in changed ~> f \in audit \cup LostRecords

=============================================================================
