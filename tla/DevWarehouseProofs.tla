------------------------- MODULE DevWarehouseProofs -------------------------
(***************************************************************************)
(* Theorems about DevWarehouse for every set of tables, processes and      *)
(* contents and every bound on the number of copies.                       *)
(***************************************************************************)
EXTENDS DevWarehouse, Rankings

(* A positive natural is at least one.                                      *)
LEMMA AtLeastOne == \A k \in Nat \ {0} : k >= 1
  OBVIOUS

USE WarehouseConstants, NoNameIsNoTable

-----------------------------------------------------------------------------
(* Every table has a name of its own, and none is a backup's.               *)
LEMMA TableNames ==
  /\ \A t \in Targets \cup Scratch : Table(t) \in Names /\ Table(t) \notin CopyNames
  /\ \A s, t \in Targets \cup Scratch : Table(s) = Table(t) => s = t
  BY DEF Table, Names, LiveNames, CopyNames, Purposes

(* Backup names are names.                                                  *)
LEMMA CopiesAreNames ==
  CopyNames \subseteq Names /\ NoName \notin CopyNames /\ BackupNames \subseteq CopyNames
  BY DEF Names, BackupNames

(* What the operations set up is an operation.                              *)
LEMMA OpTypes ==
  /\ NoOp \in Ops
  /\ \A kind \in {"replace", "restore"}, t \in Targets, source \in Names, copy \in CopyNames :
       (kind = "replace" <=> copy \in BackupNames) => Doing(kind, t, source, copy) \in Changes
  /\ \A t \in Targets : Doing("publish", t, NoName, NoName) \in Publications
  /\ \A t \in Targets, keep \in Keeps, todo \in SUBSET BackupNames :
       Pruning(t, keep, todo) \in Prunings
  /\ Changes \subseteq Ops /\ Publications \subseteq Ops /\ Prunings \subseteq Ops
  BY DEF Ops, Changes, Publications, Prunings, Doing, Pruning

(* An operation is audited by facts.                                        *)
LEMMA RecordType == \A o \in Ops : Record(o) \subseteq Facts
  <1> SUFFICES ASSUME NEW o \in Ops PROVE Record(o) \subseteq Facts
    OBVIOUS
  <1>1. CASE o = NoOp
    BY <1>1 DEF Record, NoOp, Doing
  <1>2. CASE o \in Changes
    BY <1>2, CopiesAreNames DEF Record, Changes, Facts
  <1>3. CASE o \in Publications
    BY <1>3, TableNames DEF Record, Publications, Facts
  <1>4. CASE o \in Prunings
    BY <1>4, CopiesAreNames DEF Record, Prunings, Facts
  <1>5. QED
    BY <1>1, <1>2, <1>3, <1>4 DEF Ops

-----------------------------------------------------------------------------
(* Type correctness, with what it needs to be inductive.                    *)

(* Nothing runs at first.                                                   *)
LEMMA InitType == Init => TypeOK /\ StepFitsOp
  <1> SUFFICES ASSUME Init PROVE TypeOK /\ StepFitsOp
    OBVIOUS
  <1>1. db \in [Names -> Contents \cup {Absent}]
    BY DEF Init
  <1>2. op \in [Clients -> Ops]
    BY OpTypes DEF Init
  <1>3. QED
    BY <1>1, <1>2 DEF Init, TypeOK, Steps, InTransaction, StepFitsOp

(* Every step keeps the types, and the operation fits the step it is at.    *)
LEMMA NextType == TypeOK /\ StepFitsOp /\ [Next]_vars => TypeOK' /\ StepFitsOp'
  <1> SUFFICES ASSUME TypeOK, StepFitsOp, [Next]_vars PROVE TypeOK' /\ StepFitsOp'
    OBVIOUS
  <1> USE TableNames, CopiesAreNames, OpTypes DEF TypeOK
  <1>1. ASSUME NEW c \in Clients, NEW s \in Scratch, NEW v \in Contents, Stage(c, s, v)
        PROVE TypeOK' /\ StepFitsOp'
    BY <1>1 DEF Stage, StepFitsOp
  <1>2. ASSUME NEW c \in Clients, NEW kind \in {"replace", "restore"},
               NEW purpose \in Purposes, NEW t \in Targets, NEW source \in Names,
               Begin(c, kind, purpose, t, source), kind = "replace" <=> purpose = "backup"
        PROVE TypeOK' /\ StepFitsOp'
    <2>1. PICK n \in 1..MaxStamp :
            /\ clock' = n
            /\ used' = used \cup {BackupName(t, purpose, n)}
            /\ op' = [op EXCEPT ![c] = Doing(kind, t, source, BackupName(t, purpose, n))]
      BY <1>2 DEF Begin
    <2>2. /\ BackupName(t, purpose, n) \in CopyNames
          /\ kind = "replace" <=> BackupName(t, purpose, n) \in BackupNames
      BY <1>2 DEF BackupName, CopyNames, BackupNames
    <2>3. Doing(kind, t, source, BackupName(t, purpose, n)) \in Changes
      BY <2>2
    <2>4. op' \in [Clients -> Ops] /\ op'[c] \in Changes
      BY <2>1, <2>3
    <2>5. pc' \in [Clients -> Steps] /\ pc'[c] = "begun"
      BY <1>2 DEF Begin, Goto, Steps, InTransaction
    <2>6. TypeOK'
      BY <1>2, <2>1, <2>2, <2>4, <2>5 DEF Begin
    <2>7. \A d \in Clients \ {c} : op'[d] = op[d] /\ pc'[d] = pc[d]
      BY <1>2, <2>1 DEF Begin, Goto
    <2>8. QED
      BY <2>4, <2>5, <2>6, <2>7 DEF StepFitsOp
  <1>3. ASSUME NEW c \in Clients, NEW t \in Targets, NEW s \in Scratch, BeginReplace(c, t, s)
        PROVE TypeOK' /\ StepFitsOp'
    BY <1>3, <1>2 DEF BeginReplace, Purposes
  <1>4. ASSUME NEW c \in Clients, NEW t \in Targets, NEW copy \in CopiesOf(db, t),
               BeginRestore(c, t, copy)
        PROVE TypeOK' /\ StepFitsOp'
    BY <1>4, <1>2 DEF BeginRestore, Purposes, CopiesOf
  <1>5. ASSUME NEW c \in Clients, NEW t \in Targets, NEW s \in Scratch, PublishNew(c, t, s)
        PROVE TypeOK' /\ StepFitsOp'
    <2>1. op' \in [Clients -> Ops] /\ changed' \in SUBSET Facts
      BY <1>5 DEF PublishNew, Facts
    <2>2. db' \in [Names -> Contents \cup {Absent}] /\ work' = db'
      BY <1>5 DEF PublishNew
    <2>3. QED
      BY <1>5, <2>1, <2>2 DEF PublishNew, Goto, Steps, InTransaction, StepFitsOp
  <1>6. ASSUME NEW c \in Clients, NEW t \in Targets, NEW keep \in Keeps, BeginPrune(c, t, keep)
        PROVE TypeOK' /\ StepFitsOp'
    <2>1. PICK todo : /\ todo \in SUBSET BackupNames
                      /\ op' = [op EXCEPT ![c] = Pruning(t, keep, todo)]
      BY <1>6 DEF BeginPrune, BackupsOf, CopiesOf, BackupNames
    <2>2. Pruning(t, keep, todo) \in Prunings
      BY <2>1
    <2>3. op' \in [Clients -> Ops] /\ op'[c] \in Prunings
      BY <2>1, <2>2
    <2>4. QED
      BY <1>6, <2>1, <2>3 DEF BeginPrune, Goto, Steps, InTransaction, StepFitsOp
  <1>7. ASSUME NEW c \in Clients, NEW from \in InTransaction, NEW to \in InTransaction,
               NEW tables \in [Names -> Contents \cup {Absent}],
               Statement(c, from, to, tables), to = "moved" => op[c].kind = "restore"
        PROVE TypeOK' /\ StepFitsOp'
    BY <1>7 DEF Statement, At, Goto, Steps, InTransaction, StepFitsOp
  <1>8. ASSUME NEW c \in Clients, op[c] \in Changes
        PROVE /\ Table(op[c].table) \in Names /\ op[c].copy \in Names /\ op[c].source \in Names
              /\ \A n \in Names : work[n] \in Contents \cup {Absent}
              /\ \A n, m \in Names, x, y \in Contents \cup {Absent} :
                   [work EXCEPT ![n] = x, ![m] = y] \in [Names -> Contents \cup {Absent}]
    BY <1>8 DEF Changes
  <1>9. ASSUME NEW c \in Clients, CopyTarget(c) PROVE TypeOK' /\ StepFitsOp'
    <2>1. op[c] \in Changes
      BY <1>9 DEF CopyTarget, Statement, At, StepFitsOp, InTransaction
    <2>2. [work EXCEPT ![op[c].copy] = work[Table(op[c].table)]]
            \in [Names -> Contents \cup {Absent}]
      BY <1>8, <2>1
    <2>3. QED
      BY <1>7, <1>9, <2>2 DEF CopyTarget, InTransaction
  <1>10. ASSUME NEW c \in Clients, DropTarget(c) PROVE TypeOK' /\ StepFitsOp'
    BY <1>7, <1>10 DEF DropTarget, InTransaction
  <1>11. ASSUME NEW c \in Clients, RenameReplacement(c) PROVE TypeOK' /\ StepFitsOp'
    <2>1. op[c] \in Changes
      BY <1>11 DEF RenameReplacement, Statement, At, StepFitsOp, InTransaction
    <2>2. [work EXCEPT ![Table(op[c].table)] = work[op[c].source], ![op[c].source] = Absent]
            \in [Names -> Contents \cup {Absent}]
      BY <1>8, <2>1
    <2>3. QED
      BY <1>7, <1>11, <2>2 DEF RenameReplacement, InTransaction
  <1>12. ASSUME NEW c \in Clients, CopyBackup(c) PROVE TypeOK' /\ StepFitsOp'
    <2>1. op[c] \in Changes
      BY <1>12 DEF CopyBackup, Statement, At, StepFitsOp, InTransaction
    <2>2. [work EXCEPT ![Table(op[c].table)] = work[op[c].source]]
            \in [Names -> Contents \cup {Absent}]
      BY <1>8, <2>1
    <2>3. QED
      BY <1>7, <1>12, <2>2 DEF CopyBackup, InTransaction
  <1>13. ASSUME NEW c \in Clients, DropBackup(c) PROVE TypeOK' /\ StepFitsOp'
    BY <1>7, <1>13 DEF DropBackup, InTransaction
  <1>14. ASSUME NEW c \in Clients, Commit(c) PROVE TypeOK' /\ StepFitsOp'
    <2>1. op[c] \in Changes
      BY <1>14 DEF Commit, At, StepFitsOp, InTransaction
    <2>2. changed' \in SUBSET Facts
      BY <1>14, <2>1 DEF Commit, Changes, Facts
    <2>3. undo' \in [Targets -> Contents \cup {Absent}]
      BY <1>14, <2>1, <1>8 DEF Commit
    <2>4. QED
      BY <1>14, <2>2, <2>3 DEF Commit, Goto, Steps, InTransaction, StepFitsOp
  <1>15. ASSUME NEW c \in Clients, DropNext(c) PROVE TypeOK' /\ StepFitsOp'
    <2>1. PICK n \in op[c].todo :
            /\ db' = [db EXCEPT ![n] = Absent]
            /\ op' = [op EXCEPT ![c].todo = @ \ {n}]
            /\ changed' = changed \cup {<<"drop", n>>}
      BY <1>15 DEF DropNext
    <2>2. op[c] \in Prunings
      BY <1>15 DEF DropNext, At, StepFitsOp
    <2>3. n \in BackupNames
      BY <2>1, <2>2 DEF Prunings
    <2>4. [op[c] EXCEPT !.todo = @ \ {n}] \in Prunings
      BY <2>2 DEF Prunings
    <2>5. op' \in [Clients -> Ops] /\ op'[c] \in Prunings
      BY <2>1, <2>4
    <2>6. changed' \in SUBSET Facts
      BY <2>1, <2>3 DEF Facts
    <2>7. TypeOK'
      BY <1>15, <2>1, <2>5, <2>6 DEF DropNext
    <2>8. QED
      BY <1>15, <2>1, <2>5, <2>7 DEF DropNext, At, StepFitsOp, InTransaction
  <1>16. ASSUME NEW c \in Clients, ClosePrune(c) PROVE TypeOK' /\ StepFitsOp'
    BY <1>16 DEF ClosePrune, Goto, Steps, InTransaction, StepFitsOp
  <1>17. ASSUME NEW c \in Clients, Audit(c) PROVE TypeOK' /\ StepFitsOp'
    <2>1. audit' \in SUBSET Facts
      BY <1>17, RecordType DEF Audit
    <2>2. promised' \in [Clients -> CopyNames \cup {NoName}]
      <3>1. op[c].kind = "replace" => op[c].copy \in CopyNames
        <4>1. op[c] \in Ops
          BY <1>17 DEF Audit
        <4>2. op[c] \notin Changes => op[c].kind # "replace"
          BY <4>1 DEF Ops, NoOp, Doing, Publications, Prunings
        <4>3. QED
          BY <4>2 DEF Changes
      <3>2. QED
        BY <1>17, <3>1 DEF Audit
    <2>3. QED
      BY <1>17, <2>1, <2>2 DEF Audit, Goto, Steps, InTransaction, StepFitsOp
  <1>18. ASSUME NEW c \in Clients, Raise(c) PROVE TypeOK' /\ StepFitsOp'
    BY <1>18 DEF Raise, Goto, Steps, InTransaction, StepFitsOp
  <1>19. ASSUME NEW c \in Clients, Crash(c) PROVE TypeOK' /\ StepFitsOp'
    BY <1>19 DEF Crash, Goto, Steps, InTransaction, StepFitsOp
  <1>20. CASE UNCHANGED vars
    BY <1>20 DEF vars, StepFitsOp
  <1>21. QED
    BY <1>1, <1>3, <1>4, <1>5, <1>6, <1>9, <1>10, <1>11, <1>12, <1>13, <1>14,
       <1>15, <1>16, <1>17, <1>18, <1>19, <1>20
    DEF Next, Call, Continue

(* Every variable keeps its type, whatever the interleaving and the faults. *)
THEOREM TypeCorrect == Spec => []TypeOK
  BY InitType, NextType, PTL DEF Spec

-----------------------------------------------------------------------------
(* The inductive invariant.                                                 *)

(* At first nobody has the file open, and nothing is owed or promised.      *)
LEMMA InitInv == Init => Inv
  <1> SUFFICES ASSUME Init PROVE Inv
    OBVIOUS
  <1>1. CopiesHaveNames
    BY CopiesAreNames DEF Init, CopiesHaveNames, Exists, CopyNames, Purposes
  <1>2. SessionFitsStep /\ TransactionFits
    BY DEF Init, SessionFitsStep, TransactionFits, InTransaction
  <1>3. QED
    BY <1>1, <1>2, InitType DEF Inv

(* A client in the middle of an operation has the file to itself.           *)
LEMMA Exclusive ==
  ASSUME SessionFitsStep, NEW c \in Clients, NEW d \in Clients,
         pc[c] \in InTransaction \cup {"pruning"}, d # c
  PROVE  pc[d] \notin InTransaction \cup {"pruning"}
  BY DEF SessionFitsStep

(* While the file can be opened nobody is inside a transaction.             *)
LEMMA FreeFile ==
  ASSUME SessionFitsStep, NEW c \in Clients, CanOpen(c)
  PROVE  /\ \A d \in Clients : pc[d] \notin InTransaction \cup {"pruning"}
         /\ work = db
  BY DEF SessionFitsStep, CanOpen

(* A transaction that begins starts from the committed tables.              *)
LEMMA BeginKeepsInv ==
  ASSUME Inv, TypeOK', StepFitsOp',
         NEW c \in Clients, NEW kind \in {"replace", "restore"}, NEW purpose \in Purposes,
         NEW t \in Targets, NEW source \in Names, Begin(c, kind, purpose, t, source),
         kind = "replace" => purpose = "backup" /\ \E s \in Scratch : source = Table(s),
         kind = "restore" => source \in CopiesOf(db, t)
  PROVE  Inv'
  <1> USE DEF Inv
  <1>1. PICK n \in 1..MaxStamp :
          /\ FreshStamp(n)
          /\ used' = used \cup {BackupName(t, purpose, n)}
          /\ op' = [op EXCEPT ![c] = Doing(kind, t, source, BackupName(t, purpose, n))]
    BY DEF Begin
  <1>2. BackupName(t, purpose, n) \in CopyNames \ used
    BY <1>1 DEF BackupName, CopyNames, FreshStamp
  <1>3. ~Exists(db, BackupName(t, purpose, n))
    BY <1>2 DEF CopiesHaveNames
  <1>4. /\ \A d \in Clients : pc[d] \notin InTransaction \cup {"pruning"}
        /\ work = db /\ db' = db /\ work' = work /\ session' = c
        /\ pc' = [pc EXCEPT ![c] = "begun"]
    BY FreeFile DEF Begin, Goto
  <1>5. CopiesHaveNames'
    BY <1>1, <1>4 DEF CopiesHaveNames, Exists
  <1>6. SessionFitsStep'
    BY <1>4 DEF SessionFitsStep, TypeOK, InTransaction
  <1>7. op'[c] = Doing(kind, t, source, BackupName(t, purpose, n))
    BY <1>1 DEF TypeOK
  <1>8. TransactionFits'
    <2> SUFFICES ASSUME NEW d \in Clients, pc'[d] \in InTransaction
                 PROVE  TransactionFits!(d)'
      BY DEF TransactionFits
    <2>1. d = c /\ pc'[c] = "begun"
      BY <1>4 DEF TypeOK
    <2>2. Exists(db, Table(t)) /\ Exists(db, source)
      BY DEF Begin
    <2>3. QED
      BY <1>1, <1>3, <1>4, <1>7, <2>1, <2>2
      DEF Doing, BackupName, View, Exists, CopiesOf, InTransaction
  <1>9. QED
    BY <1>5, <1>6, <1>8

(* A statement of the open transaction: the committed tables stay, and what *)
(* the connection sees becomes the view of the next step.                   *)
LEMMA StatementKeepsInv ==
  ASSUME Inv, TypeOK', StepFitsOp',
         NEW c \in Clients, NEW from \in InTransaction, NEW to \in InTransaction,
         NEW tables, Statement(c, from, to, tables),
         tables = View(op[c], to)
  PROVE  Inv'
  <1> USE DEF Inv
  <1>1. /\ pc[c] = from /\ pc' = [pc EXCEPT ![c] = to] /\ work' = tables
        /\ db' = db /\ op' = op /\ used' = used /\ session' = session
    BY DEF Statement, At, Goto
  <1>2. CopiesHaveNames'
    BY <1>1 DEF CopiesHaveNames, Exists
  <1>3. SessionFitsStep'
    BY <1>1 DEF SessionFitsStep, TypeOK
  <1>4. TransactionFits'
    <2> SUFFICES ASSUME NEW d \in Clients, pc'[d] \in InTransaction
                 PROVE  TransactionFits!(d)'
      BY DEF TransactionFits
    <2>1. d = c
      BY <1>1, Exclusive DEF TypeOK
    <2>2. View(op[c], to)' = View(op[c], to)
      BY <1>1 DEF View
    <2>3. QED
      BY <1>1, <2>1, <2>2 DEF TransactionFits, Exists, CopiesOf, TypeOK
  <1>5. QED
    BY <1>2, <1>3, <1>4

(* A step outside every open transaction that lets go of the file or never  *)
(* held it.                                                                 *)
LEMMA NoTransaction ==
  ASSUME Inv, TypeOK', StepFitsOp',
         \A d \in Clients : pc'[d] \notin InTransaction,
         work' = db',
         \A d \in Clients : session' = d <=> pc'[d] = "pruning",
         \A n \in CopyNames : Exists(db', n) => n \in used'
  PROVE  Inv'
  <1>1. CopiesHaveNames'
    BY DEF CopiesHaveNames, Exists
  <1>2. SessionFitsStep'
    BY DEF SessionFitsStep, InTransaction
  <1>3. TransactionFits'
    BY DEF TransactionFits
  <1>4. QED
    BY <1>1, <1>2, <1>3 DEF Inv

(* A step of a client that is not using the file: nobody else notices.      *)
LEMMA OutsideTheFile ==
  ASSUME Inv, TypeOK', StepFitsOp', UNCHANGED <<db, work, session, used>>,
         \A d \in Clients : pc[d] \in InTransaction \cup {"pruning"} => pc'[d] = pc[d],
         \A d \in Clients : pc'[d] \in InTransaction \cup {"pruning"} =>
                             pc'[d] = pc[d] /\ op'[d] = op[d]
  PROVE  Inv'
  <1>1. CopiesHaveNames'
    BY DEF Inv, CopiesHaveNames, Exists
  <1>2. SessionFitsStep'
    BY DEF Inv, SessionFitsStep
  <1>3. TransactionFits'
    <2> SUFFICES ASSUME NEW d \in Clients, pc'[d] \in InTransaction
                 PROVE  TransactionFits!(d)'
      BY DEF TransactionFits
    <2>1. TransactionFits!(d)
      BY DEF Inv, TransactionFits
    <2>2. View(op[d], pc[d])' = View(op[d], pc[d])
      BY DEF View
    <2>3. QED
      BY <2>1, <2>2 DEF Exists, CopiesOf
  <1>4. QED
    BY <1>1, <1>2, <1>3 DEF Inv

(* Every step keeps the inductive invariant.                                *)
LEMMA NextInv == Inv /\ [Next]_vars => Inv'
  <1> SUFFICES ASSUME Inv, [Next]_vars PROVE Inv'
    OBVIOUS
  <1>0. TypeOK' /\ StepFitsOp'
    BY NextType DEF Inv
  <1> USE <1>0, TableNames, CopiesAreNames
  <1> DEFINE Busy == InTransaction \cup {"pruning"}
  <1>1. ASSUME NEW c \in Clients, NEW s \in Scratch, NEW v \in Contents, Stage(c, s, v)
        PROVE Inv'
    <2>1. \A d \in Clients : pc[d] \notin Busy /\ session # d
      BY <1>1, FreeFile DEF Stage, Inv, SessionFitsStep
    <2>2. \A n \in CopyNames : db'[n] = db[n]
      BY <1>1 DEF Stage, Inv, TypeOK
    <2>3. QED
      BY <1>1, <2>1, <2>2, NoTransaction DEF Stage, Inv, CopiesHaveNames, Exists
  <1>2. ASSUME NEW c \in Clients, NEW t \in Targets, NEW s \in Scratch, BeginReplace(c, t, s)
        PROVE Inv'
    BY <1>2, BeginKeepsInv DEF BeginReplace, Purposes
  <1>3. ASSUME NEW c \in Clients, NEW t \in Targets, NEW copy \in CopiesOf(db, t),
               BeginRestore(c, t, copy)
        PROVE Inv'
    BY <1>3, BeginKeepsInv DEF BeginRestore, Purposes, CopiesOf
  <1>4. ASSUME NEW c \in Clients, NEW t \in Targets, NEW s \in Scratch, PublishNew(c, t, s)
        PROVE Inv'
    <2>1. \A d \in Clients : pc[d] \notin Busy /\ session # d
      BY <1>4, FreeFile DEF PublishNew, Inv, SessionFitsStep
    <2>2. \A n \in CopyNames : db'[n] = db[n]
      BY <1>4 DEF PublishNew, Inv, TypeOK
    <2>3. \A d \in Clients : pc'[d] \notin Busy /\ session' # d
      BY <1>4, <2>1 DEF PublishNew, Goto, Inv, TypeOK, InTransaction
    <2>4. QED
      BY <1>4, <2>2, <2>3, NoTransaction DEF PublishNew, Inv, CopiesHaveNames, Exists
  <1>5. ASSUME NEW c \in Clients, NEW t \in Targets, NEW keep \in Keeps, BeginPrune(c, t, keep)
        PROVE Inv'
    <2>1. /\ \A d \in Clients : pc[d] \notin Busy
          /\ work = db
      BY <1>5, FreeFile DEF BeginPrune, Inv
    <2>2. pc' = [pc EXCEPT ![c] = "pruning"] /\ session' = c /\ UNCHANGED <<db, work, used>>
      BY <1>5 DEF BeginPrune, Goto
    <2>3. QED
      BY <2>1, <2>2, NoTransaction DEF Inv, TypeOK, CopiesHaveNames, Exists, InTransaction
  <1>6. ASSUME NEW c \in Clients, pc[c] \in InTransaction
        PROVE /\ op[c] \in Changes
              /\ work = View(op[c], pc[c])
              /\ db[op[c].source] \in Contents /\ db[Table(op[c].table)] \in Contents
              /\ op[c].copy # Table(op[c].table) /\ op[c].source # Table(op[c].table)
              /\ op[c].copy # op[c].source
              /\ op[c].copy \in used /\ op[c].copy.of = op[c].table
              /\ op[c].kind = "replace" => op[c].source \notin CopyNames
              /\ op[c].kind = "restore" => op[c].source \in CopiesOf(db, op[c].table)
    <2>1. op[c] \in Changes
      BY <1>6 DEF Inv, StepFitsOp
    <2>2. TransactionFits!(c)
      BY <1>6 DEF Inv, TransactionFits
    <2>3. /\ op[c].source \in Names /\ op[c].copy \in CopyNames /\ op[c].table \in Targets
      BY <2>1 DEF Changes
    <2>4. op[c].source # Table(op[c].table)
      <3>1. CASE op[c].kind = "replace"
        BY <1>6, <2>2, <2>3, <3>1
      <3>2. CASE op[c].kind = "restore"
        BY <1>6, <2>2, <2>3, <3>2 DEF CopiesOf
      <3>3. QED
        BY <2>1, <3>1, <3>2 DEF Changes
    <2>5. QED
      BY <1>6, <2>1, <2>2, <2>3, <2>4 DEF Inv, TypeOK, Exists, Changes
  <1>7. ASSUME NEW c \in Clients, CopyTarget(c) PROVE Inv'
    <2>1. pc[c] = "begun" /\ work = db
      BY <1>6, <1>7 DEF CopyTarget, At, View, InTransaction
    <2>2. [work EXCEPT ![op[c].copy] = work[Table(op[c].table)]] = View(op[c], "copied")
      BY <2>1 DEF View
    <2>3. QED
      BY <1>7, <2>2, StatementKeepsInv DEF CopyTarget, InTransaction
  <1>8. ASSUME NEW c \in Clients, DropTarget(c) PROVE Inv'
    <2>1. pc[c] = "copied"
      BY <1>8 DEF DropTarget, Statement, At
    <2>2. [work EXCEPT ![Table(op[c].table)] = Absent] = View(op[c], "dropped")
      BY <1>6, <2>1 DEF View, InTransaction
    <2>3. QED
      BY <1>8, <2>2, StatementKeepsInv DEF DropTarget, InTransaction
  <1>9. ASSUME NEW c \in Clients, RenameReplacement(c) PROVE Inv'
    <2>1. pc[c] = "dropped"
      BY <1>9 DEF RenameReplacement, Statement, At
    <2> DEFINE o == op[c]
    <2>2. /\ o \in Changes /\ work = View(o, "dropped") /\ o.source # Table(o.table)
          /\ o.copy # o.source /\ o.copy # Table(o.table)
      BY <1>6, <2>1 DEF InTransaction
    <2>3. work[o.source] = db[o.source]
      BY <2>2 DEF View, Inv, TypeOK, Changes
    <2>4. [work EXCEPT ![Table(o.table)] = work[o.source], ![o.source] = Absent]
            = View(o, "ready")
      BY <2>2, <2>3 DEF View, Inv, TypeOK, Changes
    <2>5. QED
      BY <1>9, <2>4, StatementKeepsInv DEF RenameReplacement, InTransaction
  <1>10. ASSUME NEW c \in Clients, CopyBackup(c) PROVE Inv'
    <2>1. pc[c] = "dropped"
      BY <1>10 DEF CopyBackup, Statement, At
    <2> DEFINE o == op[c]
    <2>2. /\ o \in Changes /\ work = View(o, "dropped") /\ o.source # Table(o.table)
          /\ o.copy # o.source /\ o.copy # Table(o.table)
      BY <1>6, <2>1 DEF InTransaction
    <2>3. work[o.source] = db[o.source]
      BY <2>2 DEF View, Inv, TypeOK, Changes
    <2>4. [work EXCEPT ![Table(o.table)] = work[o.source]] = View(o, "moved")
      BY <2>2, <2>3 DEF View, Inv, TypeOK, Changes
    <2>5. QED
      BY <1>10, <2>4, StatementKeepsInv DEF CopyBackup, InTransaction
  <1>11. ASSUME NEW c \in Clients, DropBackup(c) PROVE Inv'
    <2>1. pc[c] = "moved"
      BY <1>11 DEF DropBackup, Statement, At
    <2>2. [work EXCEPT ![op[c].source] = Absent] = View(op[c], "ready")
      BY <1>6, <2>1 DEF View, InTransaction
    <2>3. QED
      BY <1>11, <2>2, StatementKeepsInv DEF DropBackup, InTransaction
  <1>12. ASSUME NEW c \in Clients, Commit(c) PROVE Inv'
    <2>1. pc[c] = "ready"
      BY <1>12 DEF Commit, At
    <2>2. \A d \in Clients \ {c} : pc[d] \notin Busy
      BY <2>1, Exclusive DEF Inv, InTransaction
    <2>3. \A n \in CopyNames : Exists(work, n) => n \in used
      BY <1>6, <2>1 DEF View, InTransaction, Exists, Inv, CopiesHaveNames, TypeOK, Changes
    <2>4. /\ pc' = [pc EXCEPT ![c] = "audit"] /\ db' = work /\ work' = work
          /\ session' = NoClient /\ used' = used
      BY <1>12 DEF Commit, Goto
    <2>5. QED
      BY <2>2, <2>3, <2>4, NoTransaction DEF Inv, TypeOK, InTransaction
  <1>13. ASSUME NEW c \in Clients, DropNext(c) PROVE Inv'
    <2>1. pc[c] = "pruning" /\ UNCHANGED <<pc, session, used>>
      BY <1>13 DEF DropNext, At
    <2>2. \A d \in Clients : pc[d] \notin InTransaction
      BY <2>1, Exclusive DEF Inv, InTransaction
    <2>3. PICK n : db' = [db EXCEPT ![n] = Absent] /\ work' = db'
      BY <1>13 DEF DropNext
    <2>4. QED
      BY <2>1, <2>2, <2>3, NoTransaction
      DEF Inv, TypeOK, SessionFitsStep, CopiesHaveNames, Exists, InTransaction
  <1>14. ASSUME NEW c \in Clients, ClosePrune(c) PROVE Inv'
    <2>1. /\ pc[c] = "pruning" /\ pc' = [pc EXCEPT ![c] = "audit"] /\ session' = NoClient
          /\ UNCHANGED <<db, work, used>>
      BY <1>14 DEF ClosePrune, At, Goto
    <2>2. \A d \in Clients : pc[d] \notin InTransaction
      BY <2>1, Exclusive DEF Inv, InTransaction
    <2>3. \A d \in Clients \ {c} : pc[d] # "pruning"
      BY <2>1, Exclusive DEF Inv
    <2>4. QED
      BY <2>1, <2>2, <2>3, NoTransaction
      DEF Inv, TypeOK, SessionFitsStep, CopiesHaveNames, Exists, InTransaction
  <1>15. ASSUME NEW c \in Clients, Audit(c) PROVE Inv'
    <2>1. /\ pc[c] = "audit" /\ pc' = [pc EXCEPT ![c] = "idle"]
          /\ op' = [op EXCEPT ![c] = NoOp] /\ UNCHANGED <<db, work, session, used>>
      BY <1>15 DEF Audit, At, Goto
    <2>2. \A d \in Clients : pc'[d] \in Busy => d # c /\ pc'[d] = pc[d] /\ op'[d] = op[d]
      BY <2>1 DEF Inv, TypeOK, InTransaction
    <2>3. \A d \in Clients : pc[d] \in Busy => pc'[d] = pc[d]
      BY <2>1 DEF Inv, TypeOK, InTransaction
    <2>4. QED
      BY <2>1, <2>2, <2>3, OutsideTheFile
  <1>16. ASSUME NEW c \in Clients, Raise(c) PROVE Inv'
    <2>1. /\ session = c /\ pc' = [pc EXCEPT ![c] = "idle"] /\ session' = NoClient
          /\ work' = db /\ UNCHANGED <<db, used>>
      BY <1>16 DEF Raise, Goto
    <2>2. \A d \in Clients \ {c} : pc[d] \notin Busy
      BY <2>1 DEF Inv, SessionFitsStep
    <2>3. QED
      BY <2>1, <2>2, NoTransaction DEF Inv, TypeOK, CopiesHaveNames, Exists, InTransaction
  <1>17. ASSUME NEW c \in Clients, Crash(c) PROVE Inv'
    <2>1. /\ pc' = [pc EXCEPT ![c] = "idle"] /\ op' = [op EXCEPT ![c] = NoOp]
          /\ UNCHANGED <<db, used>>
      BY <1>17 DEF Crash, Goto
    <2>2. CASE session = c
      <3>1. session' = NoClient /\ work' = db
        BY <1>17, <2>2 DEF Crash
      <3>2. \A d \in Clients \ {c} : pc[d] \notin Busy
        BY <2>2 DEF Inv, SessionFitsStep
      <3>3. QED
        BY <2>1, <3>1, <3>2, NoTransaction DEF Inv, TypeOK, CopiesHaveNames, Exists, InTransaction
    <2>3. CASE session # c
      <3>1. session' = session /\ work' = work /\ pc[c] \notin Busy
        BY <1>17, <2>3 DEF Crash, Inv, SessionFitsStep
      <3>2. \A d \in Clients : pc'[d] \in Busy => d # c /\ pc'[d] = pc[d] /\ op'[d] = op[d]
        BY <2>1 DEF Inv, TypeOK, InTransaction
      <3>3. \A d \in Clients : pc[d] \in Busy => pc'[d] = pc[d]
        BY <2>1, <3>1 DEF Inv, TypeOK
      <3>4. QED
        BY <2>1, <3>1, <3>2, <3>3, OutsideTheFile
    <2>4. QED
      BY <2>2, <2>3
  <1>18. CASE UNCHANGED vars
    BY <1>18, OutsideTheFile DEF vars
  <1>19. QED
    BY <1>1, <1>2, <1>3, <1>4, <1>5, <1>7, <1>8, <1>9, <1>10, <1>11, <1>12, <1>13, <1>14,
       <1>15, <1>16, <1>17, <1>18
    DEF Next, Call, Continue

(* The session, the open transaction and the committed tables agree in      *)
(* every reachable state.                                                   *)
THEOREM Invariance == Spec => []Inv
  BY InitInv, NextInv, PTL DEF Spec

-----------------------------------------------------------------------------
(* The audit file.                                                          *)

(* What is owed to the audit file stays done.                               *)
LEMMA OwedKept == Inv /\ OwedIsDone /\ [Next]_vars => OwedIsDone'
  <1> SUFFICES ASSUME Inv, OwedIsDone, [Next]_vars PROVE OwedIsDone'
    OBVIOUS
  <1>0. ASSUME NEW c \in Clients, changed \subseteq changed',
               \A d \in Clients \ {c} : pc'[d] = pc[d] /\ op'[d] = op[d],
               OwedIsDone!(c)'
        PROVE OwedIsDone'
    BY <1>0 DEF OwedIsDone
  <1> USE DEF Inv, TypeOK
  <1>1. ASSUME NEW c \in Clients, NEW s \in Scratch, NEW v \in Contents, Stage(c, s, v)
        PROVE OwedIsDone'
    BY <1>1 DEF Stage, OwedIsDone
  <1>2. ASSUME NEW c \in Clients, NEW kind, NEW purpose, NEW t, NEW source,
               Begin(c, kind, purpose, t, source)
        PROVE OwedIsDone'
    <2>1. pc' = [pc EXCEPT ![c] = "begun"] /\ changed' = changed
      BY <1>2 DEF Begin, Goto
    <2>2. \A d \in Clients \ {c} : op'[d] = op[d]
      BY <1>2 DEF Begin
    <2>3. QED
      BY <1>0, <2>1, <2>2
  <1>3. ASSUME NEW c \in Clients, NEW t \in Targets, NEW s \in Scratch, PublishNew(c, t, s)
        PROVE OwedIsDone'
    <2>1. /\ op'[c] = Doing("publish", t, NoName, NoName) /\ pc'[c] = "audit"
          /\ changed' = changed \cup {<<"publish", Table(t)>>}
          /\ \A d \in Clients \ {c} : pc'[d] = pc[d] /\ op'[d] = op[d]
      BY <1>3 DEF PublishNew, Goto
    <2>2. Record(op'[c]) = {<<"publish", Table(t)>>}
      BY <2>1 DEF Record, Doing
    <2>3. QED
      BY <1>0, <2>1, <2>2
  <1>4. ASSUME NEW c \in Clients, NEW t \in Targets, NEW keep \in Keeps, BeginPrune(c, t, keep)
        PROVE OwedIsDone'
    <2>1. PICK todo : op' = [op EXCEPT ![c] = Pruning(t, keep, todo)]
      BY <1>4 DEF BeginPrune
    <2>2. op'[c].todo = op'[c].dropped
      BY <2>1 DEF Pruning
    <2>3. /\ pc'[c] = "pruning" /\ changed' = changed
          /\ \A d \in Clients \ {c} : pc'[d] = pc[d] /\ op'[d] = op[d]
      BY <1>4, <2>1 DEF BeginPrune, Goto
    <2>4. QED
      BY <1>0, <2>2, <2>3
  <1>5. ASSUME NEW c \in Clients, NEW from \in InTransaction, NEW to \in InTransaction,
               NEW tables, Statement(c, from, to, tables)
        PROVE OwedIsDone'
    BY <1>0, <1>5 DEF Statement, Goto, InTransaction
  <1>6. ASSUME NEW c \in Clients, Commit(c) PROVE OwedIsDone'
    <2>1. op[c] \in Changes
      BY <1>6 DEF Commit, At, StepFitsOp, InTransaction
    <2>2. Record(op[c]) = {<<op[c].kind, op[c].copy>>}
      BY <2>1 DEF Record, Changes
    <2>3. /\ op' = op /\ pc' = [pc EXCEPT ![c] = "audit"]
          /\ changed' = changed \cup {<<op[c].kind, op[c].copy>>}
      BY <1>6 DEF Commit, Goto
    <2>4. QED
      BY <1>0, <2>2, <2>3
  <1>7. ASSUME NEW c \in Clients, DropNext(c) PROVE OwedIsDone'
    <2>1. PICK n \in op[c].todo :
            /\ op' = [op EXCEPT ![c].todo = @ \ {n}]
            /\ changed' = changed \cup {<<"drop", n>>}
      BY <1>7 DEF DropNext
    <2>2. op[c] \in Prunings /\ pc[c] = "pruning" /\ pc' = pc
      BY <1>7 DEF DropNext, At, StepFitsOp
    <2>3. op'[c].todo = op[c].todo \ {n} /\ op'[c].dropped = op[c].dropped
      BY <2>1, <2>2 DEF Prunings
    <2>4. \A d \in Clients \ {c} : op'[d] = op[d]
      BY <2>1
    <2>5. QED
      BY <1>0, <2>1, <2>2, <2>3, <2>4 DEF OwedIsDone
  <1>8. ASSUME NEW c \in Clients, ClosePrune(c) PROVE OwedIsDone'
    <2>1. op[c] \in Prunings /\ op[c].todo = {} /\ pc[c] = "pruning"
      BY <1>8 DEF ClosePrune, At, StepFitsOp
    <2>2. Record(op[c]) \subseteq changed
      BY <2>1 DEF Record, OwedIsDone, Prunings
    <2>3. /\ op' = op /\ changed' = changed /\ pc' = [pc EXCEPT ![c] = "audit"]
      BY <1>8 DEF ClosePrune, Goto
    <2>4. QED
      BY <1>0, <2>2, <2>3
  <1>9. ASSUME NEW c \in Clients, Audit(c) \/ Raise(c) \/ Crash(c) PROVE OwedIsDone'
    <2>1. /\ pc' = [pc EXCEPT ![c] = "idle"] /\ op' = [op EXCEPT ![c] = NoOp]
          /\ changed' = changed
      BY <1>9 DEF Audit, Raise, Crash, Goto
    <2>2. QED
      BY <1>0, <2>1
  <1>10. CASE UNCHANGED vars
    BY <1>10 DEF vars, OwedIsDone
  <1>11. ASSUME NEW c \in Clients, Continue(c) PROVE OwedIsDone'
    BY <1>5, <1>6, <1>7, <1>8, <1>9, <1>11
    DEF Continue, CopyTarget, DropTarget, RenameReplacement, CopyBackup, DropBackup,
        InTransaction
  <1>12. QED
    BY <1>1, <1>2, <1>3, <1>4, <1>9, <1>10, <1>11
    DEF Next, Call, BeginReplace, BeginRestore

(* The audit file grows by what its writer has committed, and by nothing    *)
(* else; committed changes are never taken back from the history.           *)
LEMMA AuditGrows ==
  Inv /\ OwedIsDone /\ AuditIsTruthful /\ [Next]_vars => AuditIsTruthful'
  <1> SUFFICES ASSUME Inv, OwedIsDone, AuditIsTruthful, [Next]_vars PROVE AuditIsTruthful'
    OBVIOUS
  <1>1. ASSUME NEW c \in Clients, Audit(c) PROVE AuditIsTruthful'
    BY <1>1 DEF Audit, At, OwedIsDone, AuditIsTruthful
  <1>2. ASSUME audit' = audit, changed \subseteq changed' PROVE AuditIsTruthful'
    BY <1>2 DEF AuditIsTruthful
  <1>3. ASSUME NEW c \in Clients, Call(c) \/ Raise(c) \/ Crash(c)
        PROVE audit' = audit /\ changed \subseteq changed'
    BY <1>3 DEF Call, Stage, BeginReplace, BeginRestore, Begin, PublishNew, BeginPrune,
                Raise, Crash
  <1>4. ASSUME NEW c \in Clients, Continue(c), ~Audit(c)
        PROVE audit' = audit /\ changed \subseteq changed'
    BY <1>4 DEF Continue, CopyTarget, DropTarget, RenameReplacement, CopyBackup, DropBackup,
                Statement, Commit, DropNext, ClosePrune
  <1>5. CASE UNCHANGED vars
    BY <1>2, <1>5 DEF vars
  <1>6. QED
    BY <1>1, <1>2, <1>3, <1>4, <1>5 DEF Next

(* The audit file never records a change that was not committed, whatever   *)
(* raised and whoever died.                                                 *)
THEOREM AuditNeverLies == Spec => []AuditIsTruthful
  <1>1. Init => OwedIsDone /\ AuditIsTruthful
    BY DEF Init, OwedIsDone, AuditIsTruthful
  <1>2. Inv /\ OwedIsDone /\ AuditIsTruthful /\ [Next]_vars
          => Inv' /\ OwedIsDone' /\ AuditIsTruthful'
    BY NextInv, OwedKept, AuditGrows
  <1>3. QED
    BY InitInv, <1>1, <1>2, PTL DEF Spec

(* A record goes missing only with the operation that owed it.              *)
LEMMA InterruptionsAlone ==
  Inv /\ OwedIsDone /\ [Next]_vars =>
    \A f \in LostRecords' \ LostRecords :
      \E c \in Clients : (Raise(c) \/ Crash(c)) /\ f \in Record(op[c])
  <1> SUFFICES ASSUME Inv, OwedIsDone, [Next]_vars,
                      NEW f \in LostRecords', f \notin LostRecords
               PROVE  \E c \in Clients : (Raise(c) \/ Crash(c)) /\ f \in Record(op[c])
    OBVIOUS
  <1>0. ASSUME NEW c \in Clients, audit \subseteq audit',
               \A d \in Clients \ {c} : op'[d] = op[d],
               Record(op[c]) \subseteq Record(op'[c]) \cup audit',
               changed' \subseteq changed \cup Record(op'[c])
        PROVE FALSE
    BY <1>0 DEF LostRecords
  <1> USE DEF Inv, TypeOK
  <1>1. Record(NoOp) = {}
    BY DEF Record, NoOp, Doing
  <1>2. ASSUME NEW c \in Clients, CanOpen(c) PROVE Record(op[c]) = {}
    BY <1>1, <1>2 DEF CanOpen, OwedIsDone
  <1>3. ASSUME NEW c \in Clients, NEW s \in Scratch, NEW v \in Contents, Stage(c, s, v)
        PROVE FALSE
    BY <1>3 DEF Stage, LostRecords
  <1>4. ASSUME NEW c \in Clients, NEW kind, NEW purpose, NEW t, NEW source,
               Begin(c, kind, purpose, t, source)
        PROVE FALSE
    <2>1. /\ changed' = changed /\ audit' = audit
          /\ \A d \in Clients \ {c} : op'[d] = op[d]
      BY <1>4 DEF Begin
    <2>2. Record(op[c]) = {}
      BY <1>2, <1>4 DEF Begin
    <2>3. QED
      BY <1>0, <2>1, <2>2
  <1>5. ASSUME NEW c \in Clients, NEW t \in Targets, NEW s \in Scratch, PublishNew(c, t, s)
        PROVE FALSE
    <2>1. /\ op' = [op EXCEPT ![c] = Doing("publish", t, NoName, NoName)]
          /\ changed' = changed \cup {<<"publish", Table(t)>>} /\ audit' = audit
      BY <1>5 DEF PublishNew
    <2>2. Record(op'[c]) = {<<"publish", Table(t)>>}
      BY <2>1 DEF Record, Doing
    <2>3. Record(op[c]) = {}
      BY <1>2, <1>5 DEF PublishNew
    <2>4. QED
      BY <1>0, <2>1, <2>2, <2>3
  <1>6. ASSUME NEW c \in Clients, NEW t \in Targets, NEW keep \in Keeps, BeginPrune(c, t, keep)
        PROVE FALSE
    <2>1. /\ changed' = changed /\ audit' = audit
          /\ \A d \in Clients \ {c} : op'[d] = op[d]
      BY <1>6 DEF BeginPrune
    <2>2. Record(op[c]) = {}
      BY <1>2, <1>6 DEF BeginPrune
    <2>3. QED
      BY <1>0, <2>1, <2>2
  <1>7. ASSUME NEW c \in Clients, NEW from, NEW to, NEW tables, Statement(c, from, to, tables)
        PROVE FALSE
    BY <1>7 DEF Statement, LostRecords
  <1>8. ASSUME NEW c \in Clients, Commit(c) PROVE FALSE
    <2>1. op[c] \in Changes
      BY <1>8 DEF Commit, At, StepFitsOp, InTransaction
    <2>2. Record(op[c]) = {<<op[c].kind, op[c].copy>>}
      BY <2>1 DEF Record, Changes
    <2>3. /\ op' = op /\ audit' = audit
          /\ changed' = changed \cup {<<op[c].kind, op[c].copy>>}
      BY <1>8 DEF Commit
    <2>4. QED
      BY <1>0, <2>2, <2>3
  <1>9. ASSUME NEW c \in Clients, DropNext(c) PROVE FALSE
    <2>1. PICK n \in op[c].todo :
            /\ op' = [op EXCEPT ![c].todo = @ \ {n}]
            /\ changed' = changed \cup {<<"drop", n>>}
      BY <1>9 DEF DropNext
    <2>2. op[c] \in Prunings /\ n \in op[c].dropped
      BY <1>9 DEF DropNext, At, StepFitsOp, OwedIsDone
    <2>3. op'[c].kind = "prune" /\ op'[c].dropped = op[c].dropped /\ op[c].kind = "prune"
      BY <2>1, <2>2 DEF Prunings
    <2>4. Record(op'[c]) = Record(op[c]) /\ <<"drop", n>> \in Record(op[c])
      BY <2>2, <2>3 DEF Record
    <2>5. audit' = audit /\ \A d \in Clients \ {c} : op'[d] = op[d]
      BY <1>9, <2>1 DEF DropNext
    <2>6. QED
      BY <1>0, <2>1, <2>4, <2>5
  <1>10. ASSUME NEW c \in Clients, ClosePrune(c) PROVE FALSE
    <2>1. UNCHANGED <<op, audit, changed>>
      BY <1>10 DEF ClosePrune
    <2>2. QED
      BY <2>1 DEF LostRecords
  <1>11. ASSUME NEW c \in Clients, Audit(c) PROVE FALSE
    <2>1. /\ op' = [op EXCEPT ![c] = NoOp] /\ audit' = audit \cup Record(op[c])
          /\ changed' = changed
      BY <1>11 DEF Audit
    <2>2. QED
      BY <1>0, <2>1
  <1>12. CASE UNCHANGED vars
    BY <1>12 DEF vars, LostRecords
  <1>13. ASSUME NEW c \in Clients, Continue(c) PROVE FALSE
    BY <1>7, <1>8, <1>9, <1>10, <1>11, <1>13
    DEF Continue, CopyTarget, DropTarget, RenameReplacement, CopyBackup, DropBackup
  <1>14. ASSUME NEW c \in Clients, Raise(c) \/ Crash(c) PROVE f \in Record(op[c])
    <2>1. changed' = changed /\ audit' = audit /\ op' = [op EXCEPT ![c] = NoOp]
      BY <1>14 DEF Raise, Crash
    <2>2. PICK d \in Clients : f \in Record(op[d])
      BY <2>1 DEF LostRecords
    <2>3. CASE d # c
      BY <2>1, <2>2, <2>3 DEF LostRecords
    <2>4. QED
      BY <2>2, <2>3
  <1>15. PICK c \in Clients : Raise(c) \/ Crash(c)
    BY <1>3, <1>4, <1>5, <1>6, <1>12, <1>13
    DEF Next, Call, BeginReplace, BeginRestore
  <1>16. QED
    BY <1>14, <1>15

(* The record of a committed change is lost only with the operation that    *)
(* made it, when that raises or its process dies.                           *)
THEOREM LostWithTheirOperation == Spec => OnlyInterruptionsLoseRecords
  <1>1. Init => OwedIsDone
    BY DEF Init, OwedIsDone
  <1>2. Inv /\ OwedIsDone /\ [Next]_vars => Inv' /\ OwedIsDone'
    BY NextInv, OwedKept
  <1>3. Inv /\ OwedIsDone /\ [Next]_vars =>
          [\A f \in LostRecords' \ LostRecords :
             \E c \in Clients : (Raise(c) \/ Crash(c)) /\ f \in Record(op[c])]_vars
    BY InterruptionsAlone
  <1>4. QED
    BY InitInv, <1>1, <1>2, <1>3, PTL DEF Spec, OnlyInterruptionsLoseRecords

(* Where no statement raises and no process dies, every committed change is *)
(* in the audit file or owed to it by the process that made it.             *)
THEOREM CalmAudit ==
  ASSUME ~StatementFaults, ~Crashes
  PROVE  Spec => []EveryChangeAudited
  <1>1. Init => OwedIsDone /\ EveryChangeAudited
    BY DEF Init, OwedIsDone, EveryChangeAudited
  <1>2. EveryChangeAudited <=> LostRecords = {}
    BY DEF EveryChangeAudited, LostRecords
  <1>3. EveryChangeAudited' <=> LostRecords' = {}
    BY DEF EveryChangeAudited, LostRecords
  <1>4. Inv /\ OwedIsDone /\ EveryChangeAudited /\ [Next]_vars
          => Inv' /\ OwedIsDone' /\ EveryChangeAudited'
    <2>1. \A c \in Clients : ~Raise(c) /\ ~Crash(c)
      BY DEF Raise, Crash
    <2>2. QED
      BY NextInv, OwedKept, InterruptionsAlone, <1>2, <1>3, <2>1
  <1>5. QED
    BY InitInv, <1>1, <1>4, PTL DEF Spec

-----------------------------------------------------------------------------
(* The refinement of RollbackTable.                                         *)

Cur == [t \in Targets |-> db[Table(t)]]
Recoverable(t) == {db[n] : n \in CopiesOf(db, t)}
KeptCopies == [t \in Targets |-> Recoverable(t)]

(* The promise sees only the tables and their backups.                      *)
LEMMA SameTables ==
  ASSUME \A t \in Targets : db'[Table(t)] = db[Table(t)],
         \A n \in CopyNames : db'[n] = db[n]
  PROVE  Cur' = Cur /\ KeptCopies' = KeptCopies
  <1>1. \A t \in Targets : Recoverable(t)' = Recoverable(t)
    BY DEF Recoverable, CopiesOf, Exists
  <1>2. QED
    BY <1>1 DEF Cur, KeptCopies

(* Where neither changes, the promise stutters.                             *)
LEMMA PromiseStutters ==
  ASSUME UNCHANGED <<Cur, KeptCopies>>
  PROVE  [Promise!Next]_(Promise!vars)
  BY DEF Promise!vars, Cur, KeptCopies, Recoverable

(* The initial states are the promise's.                                    *)
LEMMA PromiseInit == Init /\ Inv => Promise!Init
  <1> SUFFICES ASSUME Init, Inv PROVE Promise!Init
    OBVIOUS
  <1>1. \A t \in Targets : db[Table(t)] \in Contents \cup {Absent}
    BY TableNames DEF Inv, TypeOK
  <1>2. \A t \in Targets : CopiesOf(db, t) = {}
    BY DEF Init, Inv, CopiesHaveNames, CopiesOf
  <1>3. QED
    BY <1>1, <1>2 DEF Promise!Init

\* A committed change of t, as the names it touches see it.
Committed(kind, t, copy, source) ==
  /\ copy.of = t
  /\ db[Table(t)] \in Contents /\ db[source] \in Contents
  /\ ~Exists(db, copy)
  /\ db'[Table(t)] = db[source] /\ db'[copy] = db[Table(t)] /\ db'[source] = Absent
  /\ \A n \in Names \ {Table(t), copy, source} : db'[n] = db[n]
  /\ kind = "replace" => copy.kind = "backup" /\ \E s \in Scratch : source = Table(s)
  /\ kind = "restore" => source \in CopiesOf(db, t)

(* A commit does all of its operation at once.                              *)
LEMMA CommitEffect ==
  ASSUME Inv, NEW c \in Clients, Commit(c)
  PROVE  LET o == op[c] IN
         /\ o.kind \in {"replace", "restore"} /\ o.table \in Targets
         /\ o.copy \in CopyNames /\ o.source \in Names
         /\ Committed(o.kind, o.table, o.copy, o.source)
  <1> USE TableNames, CopiesAreNames
  <1> DEFINE o == op[c]
             t == Table(op[c].table)
  <1>1. pc[c] = "ready" /\ db' = work
    BY DEF Commit, At
  <1>2. o \in Changes /\ TransactionFits!(c)
    BY <1>1 DEF Inv, StepFitsOp, TransactionFits, InTransaction
  <1>3. /\ o.table \in Targets /\ o.copy \in CopyNames /\ o.source \in Names
        /\ o.kind \in {"replace", "restore"}
    BY <1>2 DEF Changes
  <1>4. /\ Exists(db, t) /\ Exists(db, o.source) /\ ~Exists(db, o.copy)
        /\ o.copy.of = o.table
        /\ work = View(o, "ready")
        /\ o.kind = "replace" => o.copy.kind = "backup" /\ \E s \in Scratch : o.source = Table(s)
        /\ o.kind = "restore" => o.source \in CopiesOf(db, o.table)
    BY <1>1, <1>2 DEF InTransaction
  <1>5. o.source # t /\ o.source # o.copy /\ t # o.copy
    <2>1. CASE o.kind = "replace"
      BY <1>3, <1>4, <2>1
    <2>2. CASE o.kind = "restore"
      BY <1>3, <1>4, <2>2 DEF CopiesOf
    <2>3. QED
      BY <1>3, <2>1, <2>2
  <1>6. db' = [db EXCEPT ![o.copy] = db[t], ![t] = db[o.source], ![o.source] = Absent]
    BY <1>1, <1>4 DEF View
  <1>7. /\ db'[t] = db[o.source] /\ db'[o.copy] = db[t] /\ db'[o.source] = Absent
        /\ \A n \in Names \ {t, o.copy, o.source} : db'[n] = db[n]
    BY <1>3, <1>5, <1>6 DEF Inv, TypeOK
  <1>8. db[t] \in Contents /\ db[o.source] \in Contents
    BY <1>3, <1>4 DEF Inv, TypeOK, Exists
  <1>9. QED
    BY <1>3, <1>4, <1>7, <1>8 DEF Committed

(* That is a replacement or a restore of the promise.                       *)
LEMMA CommitKeepsPromise ==
  ASSUME NEW t \in Targets, NEW copy \in CopyNames, NEW source \in Names,
         NEW kind \in {"replace", "restore"}, Committed(kind, t, copy, source)
  PROVE  Promise!Next
  <1> USE TableNames, CopiesAreNames
  <1>0. PICK v \in Contents : v = db[source]
    BY DEF Committed
  <1>1. /\ copy.of = t /\ v \in Contents /\ db[Table(t)] \in Contents
        /\ db'[Table(t)] = v /\ db'[copy] = db[Table(t)] /\ db'[source] = Absent
        /\ \A n \in Names \ {Table(t), copy, source} : db'[n] = db[n]
        /\ copy \notin CopiesOf(db, t) /\ Absent \notin Contents
    BY <1>0 DEF Committed, CopiesOf
  <1>2. \/ source \in CopyNames /\ source.of = t
        \/ \E s \in Scratch : source = Table(s)
    BY DEF Committed, CopiesOf
  <1>3. \A u \in Targets \ {t} : db'[Table(u)] = db[Table(u)]
    BY <1>1, <1>2
  <1>4. Cur' = [Cur EXCEPT ![t] = v] /\ Cur[t] = db[Table(t)]
    BY <1>1, <1>3 DEF Cur
  <1>5. \A u \in Targets \ {t} : Recoverable(u)' = Recoverable(u)
    <2> TAKE u \in Targets \ {t}
    <2>1. \A n \in CopyNames : n.of = u => db'[n] = db[n]
      BY <1>1, <1>2
    <2>2. QED
      BY <2>1 DEF Recoverable, CopiesOf, Exists
  <1>6. CASE kind = "replace"
    <2>1. \A n \in CopyNames \ {copy} : db'[n] = db[n]
      BY <1>1, <1>6 DEF Committed
    <2>2. CopiesOf(db, t)' = CopiesOf(db, t) \cup {copy}
      BY <1>1, <2>1 DEF CopiesOf, Exists
    <2>3. Recoverable(t)' = Recoverable(t) \cup {Cur[t]}
      BY <1>1, <1>4, <2>1, <2>2 DEF Recoverable, CopiesOf
    <2>4. KeptCopies' = [KeptCopies EXCEPT ![t] = @ \cup {Cur[t]}]
      BY <1>5, <2>3 DEF KeptCopies
    <2>5. Promise!Replace(t, v)
      BY <1>1, <1>4, <2>4 DEF Promise!Replace, Cur, KeptCopies, Recoverable
    <2>6. QED
      BY <1>1, <2>5 DEF Promise!Next
  <1>7. CASE kind = "restore"
    <2> DEFINE left == CopiesOf(db, t) \ {source}
               rest == {db[n] : n \in left}
               consumed == {v} \ rest
    <2>1. source \in CopiesOf(db, t) /\ source \in CopyNames /\ source # copy
      BY <1>1, <1>7 DEF Committed, CopiesOf
    <2>2. \A n \in CopyNames \ {copy, source} : db'[n] = db[n]
      BY <1>1
    <2>3. CopiesOf(db, t)' = left \cup {copy}
      BY <1>1, <2>1, <2>2 DEF CopiesOf, Exists
    <2>4. Recoverable(t)' = rest \cup {Cur[t]}
      BY <1>1, <1>4, <2>2, <2>3 DEF Recoverable, CopiesOf
    <2>5. rest = Recoverable(t) \ consumed /\ v \in Recoverable(t)
      BY <1>0, <2>1 DEF Recoverable
    <2> HIDE DEF consumed
    <2>6. KeptCopies' = [KeptCopies EXCEPT ![t] = (@ \ consumed) \cup {Cur[t]}]
      BY <1>5, <2>4, <2>5 DEF KeptCopies
    <2>7. v \in KeptCopies[t] /\ consumed \in SUBSET {v}
      BY <2>5 DEF KeptCopies, consumed
    <2>8. Promise!Restore(t, v)
      BY <1>1, <1>4, <2>6, <2>7 DEF Promise!Restore, Cur, KeptCopies, Recoverable
    <2>9. QED
      BY <1>1, <2>8 DEF Promise!Next
  <1>8. QED
    BY <1>6, <1>7

(* So every step is a step of the promise or a stutter.                     *)
LEMMA StepKeepsPromise == Inv /\ [Next]_vars => [Promise!Next]_(Promise!vars)
  <1> SUFFICES ASSUME Inv, [Next]_vars PROVE [Promise!Next]_(Promise!vars)
    OBVIOUS
  <1> USE TableNames, CopiesAreNames
  <1>1. ASSUME UNCHANGED db PROVE [Promise!Next]_(Promise!vars)
    BY <1>1, SameTables, PromiseStutters
  <1>2. ASSUME NEW c \in Clients, NEW s \in Scratch, NEW v \in Contents, Stage(c, s, v)
        PROVE [Promise!Next]_(Promise!vars)
    <2>1. \A n \in Names \ {Table(s)} : db'[n] = db[n]
      BY <1>2 DEF Stage, Inv, TypeOK
    <2>2. \A t \in Targets : Table(t) # Table(s)
      OBVIOUS
    <2>3. QED
      BY <2>1, <2>2, SameTables, PromiseStutters
  <1>3. ASSUME NEW c \in Clients, NEW t \in Targets, NEW s \in Scratch, PublishNew(c, t, s)
        PROVE Promise!Next
    <2>1. /\ db[Table(t)] = Absent /\ db[Table(s)] \in Contents
          /\ db' = [db EXCEPT ![Table(t)] = db[Table(s)], ![Table(s)] = Absent]
          /\ Table(s) # Table(t)
      BY <1>3 DEF PublishNew, Exists, Inv, TypeOK
    <2>2. \A n \in CopyNames : db'[n] = db[n]
      BY <2>1 DEF Inv, TypeOK
    <2>3. \A u \in Targets : Recoverable(u)' = Recoverable(u)
      BY <2>2 DEF Recoverable, CopiesOf, Exists
    <2>4. Cur' = [Cur EXCEPT ![t] = db[Table(s)]] /\ Cur[t] = Absent
      <3>1. db'[Table(t)] = db[Table(s)]
        BY <2>1 DEF Inv, TypeOK
      <3>2. \A u \in Targets \ {t} : db'[Table(u)] = db[Table(u)]
        BY <2>1 DEF Inv, TypeOK
      <3>3. QED
        BY <2>1, <3>1, <3>2 DEF Cur
    <2>5. Promise!Publish(t, db[Table(s)])
      BY <2>3, <2>4 DEF Promise!Publish, Cur, Recoverable
    <2>6. QED
      BY <2>1, <2>5 DEF Promise!Next
  <1>4. ASSUME NEW c \in Clients, DropNext(c) PROVE Promise!Next
    <2>1. PICK n \in op[c].todo : db' = [db EXCEPT ![n] = Absent]
      BY <1>4 DEF DropNext
    <2>2. n \in CopyNames /\ n.of \in Targets
      BY <1>4, <2>1 DEF DropNext, At, Inv, StepFitsOp, Prunings, CopyNames
    <2>3. \A m \in Names \ {n} : db'[m] = db[m]
      BY <2>1 DEF Inv, TypeOK
    <2>4. db'[n] = Absent
      BY <2>1, <2>2 DEF Inv, TypeOK
    <2>5. \A u \in Targets \ {n.of} : Recoverable(u)' = Recoverable(u)
      BY <2>3 DEF Recoverable, CopiesOf, Exists
    <2>6. CopiesOf(db, n.of)' = CopiesOf(db, n.of) \ {n}
      BY <2>3, <2>4 DEF CopiesOf, Exists
    <2>7. Recoverable(n.of)' \subseteq Recoverable(n.of)
      BY <2>3, <2>6 DEF Recoverable, CopiesOf
    <2> DEFINE forgotten == Recoverable(n.of) \ Recoverable(n.of)'
    <2>8. KeptCopies' = [KeptCopies EXCEPT ![n.of] = @ \ forgotten]
      BY <2>2, <2>5, <2>7 DEF KeptCopies
    <2>9. forgotten \in SUBSET KeptCopies[n.of] /\ Cur' = Cur
      BY <2>2, <2>3 DEF KeptCopies, Cur
    <2>10. Promise!Prune(n.of)
      <3> HIDE DEF forgotten
      <3> QED
        BY <2>8, <2>9 DEF Promise!Prune, Cur, KeptCopies, Recoverable
    <2>11. QED
      BY <2>2, <2>10 DEF Promise!Next
  <1>5. ASSUME NEW c \in Clients, Continue(c), ~Commit(c), ~DropNext(c) PROVE UNCHANGED db
    BY <1>5 DEF Continue, CopyTarget, DropTarget, RenameReplacement, CopyBackup, DropBackup,
                Statement, ClosePrune, Audit
  <1>6. ASSUME NEW c \in Clients, Raise(c) \/ Crash(c) PROVE UNCHANGED db
    BY <1>6 DEF Raise, Crash
  <1>7. ASSUME NEW c \in Clients, Call(c)
        PROVE \/ UNCHANGED db
              \/ \E s \in Scratch, v \in Contents : Stage(c, s, v)
              \/ \E t \in Targets, s \in Scratch : PublishNew(c, t, s)
    BY <1>7 DEF Call, BeginReplace, BeginRestore, Begin, BeginPrune
  <1>8. CASE UNCHANGED vars
    BY <1>1, <1>8 DEF vars
  <1>9. QED
    BY <1>1, <1>2, <1>3, <1>4, <1>5, <1>6, <1>7, <1>8, CommitEffect, CommitKeepsPromise
    DEF Next

(* The sessions, transactions, drops and faults of the warehouse implement  *)
(* the toolkit's promise: no step shows a reader anything but a whole       *)
(* publication, replacement, restore or forgotten copy.                     *)
THEOREM Refinement == Spec => KeepsPromise
  BY InitInv, NextInv, PromiseInit, StepKeepsPromise, PTL
  DEF Spec, KeepsPromise, Promise!Spec

-----------------------------------------------------------------------------
(* Undo stays available: the clock is sane, and a caller that preserves a   *)
(* backup keeps room for a newer one.                                       *)

RoomForTheNewest == PassPreserve => \A k \in Keeps : k >= 2

(* A prune that has such room keeps the newest backup.                      *)
LEMMA NewestKept ==
  ASSUME RoomForTheNewest, NEW backups \in SUBSET CopyNames, NEW keep \in Keeps, NEW preserve,
         preserve # NoName => PassPreserve,
         NEW n \in backups, \A m \in backups : m.stamp <= n.stamp
  PROVE  n \in Kept(backups, keep, preserve)
  <1> DEFINE first == backups \cap {preserve}
             later == {m \in backups \ first : m.stamp > n.stamp}
  <1>1. later = {} /\ Cardinality(later) = 0
    <2>1. \A m \in backups : ~(m.stamp > n.stamp)
      BY DEF CopyNames
    <2>2. QED
      BY <2>1, FS_EmptySet
  <1>2. keep - Cardinality(first) > 0
    <2>1. keep \in Nat /\ keep >= 1
      <3>1. keep \in Nat \ {0}
        OBVIOUS
      <3>2. QED
        BY <3>1, AtLeastOne
    <2>2. CASE first = {}
      <3>1. Cardinality(first) = 0
        BY <2>2, FS_EmptySet
      <3>2. QED
        BY <2>1, <3>1
    <2>3. CASE first # {}
      <3>1. first = {preserve} /\ preserve # NoName
        BY <2>3, CopiesAreNames
      <3>2. Cardinality(first) = 1 /\ keep >= 2
        BY <3>1, FS_Singleton DEF RoomForTheNewest
      <3>3. QED
        BY <2>1, <3>2
    <2>4. QED
      BY <2>2, <2>3
  <1>3. n \in first \/ n \in {x \in backups \ first :
           Cardinality({m \in backups \ first : m.stamp > x.stamp}) < keep - Cardinality(first)}
    BY <1>1, <1>2, FS_EmptySet
  <1>4. QED
    BY <1>3 DEF Kept

(* With a sane clock later backups have later stamps.                       *)
LEMMA StampsKept == Inv /\ StampsInOrder /\ [Next]_vars => StampsInOrder'
  <1> SUFFICES ASSUME Inv, StampsInOrder, [Next]_vars, MonotonicClock PROVE StampsInOrder'
    BY DEF StampsInOrder
  <1> USE DEF Inv, TypeOK
  <1>0. ASSUME UNCHANGED <<used, clock>>,
               \A c \in Clients : pc'[c] \in InTransaction =>
                                   pc[c] \in InTransaction /\ op'[c] = op[c]
        PROVE StampsInOrder'
    BY <1>0 DEF StampsInOrder
  <1>1. ASSUME NEW c \in Clients, NEW kind, NEW purpose, NEW t, NEW source,
               Begin(c, kind, purpose, t, source)
        PROVE StampsInOrder'
    <2>1. PICK n \in 1..MaxStamp :
            /\ FreshStamp(n) /\ clock' = n
            /\ used' = used \cup {BackupName(t, purpose, n)}
            /\ op' = [op EXCEPT ![c] = Doing(kind, t, source, BackupName(t, purpose, n))]
      BY <1>1 DEF Begin
    <2>2. n = clock + 1
      BY <2>1 DEF FreshStamp
    <2>3. \A m \in used' : m.stamp <= clock'
      BY <2>1, <2>2 DEF StampsInOrder, BackupName, CopyNames
    <2>4. op'[c].copy.stamp = clock'
      BY <2>1 DEF Doing, BackupName
    <2>5. \A d \in Clients : pc'[d] \in InTransaction => d = c
      BY <1>1, FreeFile DEF Begin, Goto
    <2>6. QED
      BY <2>3, <2>4, <2>5 DEF StampsInOrder
  <1>2. ASSUME NEW c \in Clients,
               NEW t \in Targets, NEW s \in Scratch, PublishNew(c, t, s)
        PROVE StampsInOrder'
    BY <1>0, <1>2 DEF PublishNew, Goto, InTransaction
  <1>3. ASSUME NEW c \in Clients, NEW t \in Targets, NEW keep \in Keeps, BeginPrune(c, t, keep)
        PROVE StampsInOrder'
    <2>1. /\ UNCHANGED <<used, clock>> /\ pc' = [pc EXCEPT ![c] = "pruning"]
          /\ \A d \in Clients \ {c} : op'[d] = op[d]
      BY <1>3 DEF BeginPrune, Goto
    <2>2. QED
      BY <1>0, <2>1 DEF InTransaction
  <1>4. ASSUME NEW c \in Clients, NEW from \in InTransaction, NEW to, NEW tables,
               Statement(c, from, to, tables)
        PROVE StampsInOrder'
    BY <1>0, <1>4 DEF Statement, At, Goto
  <1>5. ASSUME NEW c \in Clients, Commit(c) \/ ClosePrune(c) PROVE StampsInOrder'
    BY <1>0, <1>5 DEF Commit, ClosePrune, Goto, InTransaction
  <1>6. ASSUME NEW c \in Clients, DropNext(c) PROVE StampsInOrder'
    <2>1. /\ UNCHANGED <<used, clock, pc>> /\ pc[c] = "pruning"
          /\ \A d \in Clients \ {c} : op'[d] = op[d]
      BY <1>6 DEF DropNext, At
    <2>2. QED
      BY <1>0, <2>1 DEF InTransaction
  <1>7. ASSUME NEW c \in Clients, Audit(c) \/ Raise(c) \/ Crash(c) PROVE StampsInOrder'
    <2>1. /\ UNCHANGED <<used, clock>> /\ pc' = [pc EXCEPT ![c] = "idle"]
          /\ op' = [op EXCEPT ![c] = NoOp]
      BY <1>7 DEF Audit, Raise, Crash, Goto
    <2>2. QED
      BY <1>0, <2>1 DEF InTransaction
  <1>8. ASSUME NEW c \in Clients, NEW s \in Scratch, NEW v \in Contents, Stage(c, s, v)
        PROVE StampsInOrder'
    BY <1>0, <1>8 DEF Stage
  <1>9. CASE UNCHANGED vars
    BY <1>0, <1>9 DEF vars
  <1>10. ASSUME NEW c \in Clients, Continue(c) PROVE StampsInOrder'
    BY <1>4, <1>5, <1>6, <1>7, <1>10
    DEF Continue, CopyTarget, DropTarget, RenameReplacement, CopyBackup, DropBackup,
        InTransaction
  <1>11. QED
    BY <1>1, <1>2, <1>3, <1>7, <1>8, <1>9, <1>10
    DEF Next, Call, BeginReplace, BeginRestore

(* A step that leaves the copies and undo alone and gives pruners no new    *)
(* work keeps every undo.                                                   *)
LEMMA UndoesKept ==
  ASSUME UndoKept, UNCHANGED undo, \A n \in CopyNames : db'[n] = db[n],
         \A d \in Clients : pc'[d] = "pruning" => pc[d] = "pruning" /\ op'[d].todo = op[d].todo
  PROVE  UndoKept'
  <1>1. \A n \in CopyNames, t \in Targets : Undoes(n, t) => Undoes(n, t)'
    BY DEF Undoes, BackupsOf, CopiesOf, Exists
  <1>2. QED
    BY <1>1 DEF UndoKept

(* A commit makes its own backup the undo, and it is the newest.            *)
LEMMA CommitKeepsUndo ==
  ASSUME Inv, StampsInOrder, MonotonicClock, UndoKept, NEW c \in Clients, Commit(c)
  PROVE  UndoKept'
  <1> USE TableNames, CopiesAreNames
  <1>1. PICK o \in Changes : o = op[c]
    BY DEF Commit, At, Inv, StepFitsOp, InTransaction
  <1> DEFINE t == o.table
  <1>2. /\ t \in Targets /\ o.copy \in CopyNames /\ o.source \in Names
        /\ o.kind \in {"replace", "restore"} /\ Committed(o.kind, t, o.copy, o.source)
    BY <1>1, CommitEffect
  <1>3. undo' = [undo EXCEPT ![t] = db[Table(t)]] /\ o.copy.stamp = clock
    BY <1>1 DEF Commit, At, StampsInOrder, InTransaction
  <1>4. \A d \in Clients : pc'[d] # "pruning"
    BY Exclusive DEF Commit, At, Goto, Inv, TypeOK, InTransaction
  <1>5. \A m \in CopyNames : Exists(db', m) => m.stamp <= clock
    <2>1. Inv'
      BY NextInv DEF Next, Continue
    <2>2. UNCHANGED used
      BY DEF Commit
    <2>3. QED
      BY <2>1, <2>2 DEF Inv, CopiesHaveNames, Exists, StampsInOrder
  <1>6. Undoes(o.copy, t)'
    <2>1. o.copy \in CopiesOf(db, t)' /\ db'[o.copy] = undo'[t]
      BY <1>2, <1>3 DEF Committed, CopiesOf, Exists, Inv, TypeOK
    <2>2. \A m \in BackupsOf(db, t)' : m.stamp <= o.copy.stamp
      BY <1>3, <1>5 DEF BackupsOf, CopiesOf, Exists
    <2>3. QED
      BY <1>4, <2>1, <2>2 DEF Undoes
  <1>7. ASSUME NEW u \in Targets \ {t}, NEW n \in CopyNames, Undoes(n, u)
        PROVE  Undoes(n, u)'
    <2>1. \A m \in CopyNames : m.of = u => db'[m] = db[m]
      BY <1>2 DEF Committed, CopiesOf
    <2>2. CopiesOf(db, u)' = CopiesOf(db, u) /\ BackupsOf(db, u)' = BackupsOf(db, u)
      BY <2>1 DEF CopiesOf, BackupsOf, Exists
    <2>3. undo'[u] = undo[u] /\ db'[n] = db[n]
      BY <1>3, <1>7, <2>1 DEF Undoes, CopiesOf, Inv, TypeOK
    <2>4. QED
      BY <1>4, <1>7, <2>2, <2>3 DEF Undoes
  <1>8. \A u \in Targets \ {t} : undo'[u] = undo[u]
    BY <1>3 DEF Inv, TypeOK
  <1>9. QED
    BY <1>2, <1>6, <1>7, <1>8 DEF UndoKept

(* A prune never lists an undo.                                             *)
LEMMA PruneKeepsUndo ==
  ASSUME RoomForTheNewest, Inv, UndoKept,
         NEW c \in Clients, NEW t \in Targets, NEW keep \in Keeps, BeginPrune(c, t, keep)
  PROVE  UndoKept'
  <1> DEFINE preserve == IF PassPreserve THEN promised[c] ELSE NoName
             backups == BackupsOf(db, t)
             todo == backups \ Kept(backups, keep, preserve)
  <1>1. /\ op' = [op EXCEPT ![c] = Pruning(t, keep, todo)]
        /\ UNCHANGED <<db, undo>> /\ pc' = [pc EXCEPT ![c] = "pruning"]
    BY DEF BeginPrune, Goto
  <1>2. /\ backups \in SUBSET CopyNames
        /\ preserve # NoName => PassPreserve
    BY DEF BackupsOf, CopiesOf
  <1>3. op'[c].todo = todo
    BY <1>1 DEF Pruning, Inv, TypeOK
  <1>4. \A d \in Clients : pc'[d] = "pruning" => d = c
    BY <1>1, FreeFile DEF BeginPrune, Inv
  <1>5. ASSUME NEW u \in Targets, NEW n \in CopyNames, Undoes(n, u) PROVE n \notin todo
    <2>1. CASE n \in backups
      <3>1. \A m \in backups : m.stamp <= n.stamp
        BY <1>5, <2>1 DEF Undoes, BackupsOf, CopiesOf
      <3>2. n \in Kept(backups, keep, preserve)
        <4> HIDE DEF backups, preserve
        <4> QED
          BY <1>2, <2>1, <3>1, NewestKept
      <3>3. QED
        BY <3>2
    <2>2. QED
      BY <2>1
  <1>6. \A n \in CopyNames, u \in Targets : Undoes(n, u) => Undoes(n, u)'
    BY <1>1, <1>3, <1>4, <1>5 DEF Undoes, BackupsOf, CopiesOf, Exists
  <1>7. QED
    BY <1>1, <1>6 DEF UndoKept

(* And drops only what it listed.                                           *)
LEMMA DropKeepsUndo ==
  ASSUME Inv, UndoKept, NEW c \in Clients, DropNext(c)
  PROVE  UndoKept'
  <1>1. PICK n \in op[c].todo :
          db' = [db EXCEPT ![n] = Absent] /\ op' = [op EXCEPT ![c].todo = @ \ {n}]
    BY DEF DropNext
  <1>2. op[c] \in Prunings /\ pc[c] = "pruning" /\ UNCHANGED <<pc, undo>>
    BY DEF DropNext, At, Inv, StepFitsOp
  <1>3. \A d \in Clients : pc'[d] = "pruning" => d = c
    BY <1>2, Exclusive DEF Inv
  <1>4. op'[c].todo = op[c].todo \ {n}
    BY <1>1, <1>2 DEF Inv, TypeOK, Prunings
  <1>5. \A m \in CopyNames : Exists(db', m) => Exists(db, m)
    BY <1>1, CopiesAreNames DEF Inv, TypeOK, Exists
  <1>6. ASSUME NEW m \in CopyNames, NEW u \in Targets, Undoes(m, u) PROVE Undoes(m, u)'
    <2>1. m # n
      BY <1>1, <1>2, <1>6 DEF Undoes
    <2>2. db'[m] = db[m]
      BY <1>1, <2>1, CopiesAreNames DEF Inv, TypeOK
    <2>3. BackupsOf(db, u)' \subseteq BackupsOf(db, u)
      BY <1>5 DEF BackupsOf, CopiesOf
    <2>4. QED
      BY <1>2, <1>3, <1>4, <1>6, <2>2, <2>3 DEF Undoes, CopiesOf, Exists
  <1>7. QED
    BY <1>2, <1>6 DEF UndoKept

(* Every step keeps every undo.                                             *)
LEMMA NextKeepsUndo ==
  ASSUME MonotonicClock, RoomForTheNewest
  PROVE  Inv /\ StampsInOrder /\ UndoKept /\ [Next]_vars => UndoKept'
  <1> SUFFICES ASSUME Inv, StampsInOrder, UndoKept, [Next]_vars PROVE UndoKept'
    OBVIOUS
  <1> USE TableNames, CopiesAreNames
  <1>1. ASSUME NEW c \in Clients, NEW s \in Scratch, NEW v \in Contents, Stage(c, s, v)
        PROVE UndoKept'
    <2>1. \A n \in CopyNames : db'[n] = db[n]
      BY <1>1 DEF Stage, Inv, TypeOK
    <2>2. QED
      BY <1>1, <2>1, UndoesKept DEF Stage
  <1>2. ASSUME NEW c \in Clients, NEW kind, NEW purpose, NEW t, NEW source,
               Begin(c, kind, purpose, t, source)
        PROVE UndoKept'
    <2>1. /\ UNCHANGED <<db, undo>> /\ pc' = [pc EXCEPT ![c] = "begun"]
          /\ \A d \in Clients \ {c} : op'[d] = op[d]
      BY <1>2 DEF Begin, Goto
    <2>2. QED
      BY <2>1, UndoesKept DEF Inv, TypeOK
  <1>3. ASSUME NEW c \in Clients, NEW t \in Targets, NEW s \in Scratch, PublishNew(c, t, s)
        PROVE UndoKept'
    <2>1. \A n \in CopyNames : db'[n] = db[n]
      BY <1>3 DEF PublishNew, Inv, TypeOK
    <2>2. /\ UNCHANGED undo /\ pc' = [pc EXCEPT ![c] = "audit"]
          /\ \A d \in Clients \ {c} : op'[d] = op[d]
      BY <1>3 DEF PublishNew, Goto
    <2>3. QED
      BY <2>1, <2>2, UndoesKept DEF Inv, TypeOK
  <1>4. ASSUME NEW c \in Clients, NEW from, NEW to \in InTransaction, NEW tables,
               Statement(c, from, to, tables)
        PROVE UndoKept'
    <2>1. UNCHANGED <<db, undo, op>> /\ pc' = [pc EXCEPT ![c] = to] /\ to # "pruning"
      BY <1>4 DEF Statement, Goto, InTransaction
    <2>2. QED
      BY <2>1, UndoesKept DEF Inv, TypeOK
  <1>5. ASSUME NEW c \in Clients, ClosePrune(c) PROVE UndoKept'
    <2>1. UNCHANGED <<db, undo, op>> /\ pc' = [pc EXCEPT ![c] = "audit"]
      BY <1>5 DEF ClosePrune, Goto
    <2>2. QED
      BY <2>1, UndoesKept DEF Inv, TypeOK
  <1>6. ASSUME NEW c \in Clients, Audit(c) \/ Raise(c) \/ Crash(c) PROVE UndoKept'
    <2>1. /\ UNCHANGED <<db, undo>> /\ pc' = [pc EXCEPT ![c] = "idle"]
          /\ op' = [op EXCEPT ![c] = NoOp]
      BY <1>6 DEF Audit, Raise, Crash, Goto
    <2>2. QED
      BY <2>1, UndoesKept DEF Inv, TypeOK
  <1>7. CASE UNCHANGED vars
    BY <1>7, UndoesKept DEF vars
  <1>8. ASSUME NEW c \in Clients, Commit(c) PROVE UndoKept'
    BY <1>8, CommitKeepsUndo
  <1>9. ASSUME NEW c \in Clients, DropNext(c) PROVE UndoKept'
    BY <1>9, DropKeepsUndo
  <1>10. ASSUME NEW c \in Clients, NEW t \in Targets, NEW keep \in Keeps,
                BeginPrune(c, t, keep)
         PROVE UndoKept'
    BY <1>10, PruneKeepsUndo
  <1>11. ASSUME NEW c \in Clients, Continue(c) PROVE UndoKept'
    BY <1>4, <1>5, <1>6, <1>8, <1>9, <1>11
    DEF Continue, CopyTarget, DropTarget, RenameReplacement, CopyBackup, DropBackup,
        InTransaction
  <1>12. QED
    BY <1>1, <1>2, <1>3, <1>6, <1>7, <1>10, <1>11
    DEF Next, Call, BeginReplace, BeginRestore

(* With a clock that never steps back, and room for the newest backup next  *)
(* to a preserved one, what the last change of a table displaced can always *)
(* be restored, whoever prunes, raises or dies in between.                  *)
THEOREM UndoAlwaysAvailable ==
  ASSUME MonotonicClock, RoomForTheNewest
  PROVE  Spec => []UndoAvailable
  <1>1. Init => StampsInOrder /\ UndoKept
    BY DEF Init, StampsInOrder, UndoKept, InTransaction
  <1>2. Inv /\ StampsInOrder /\ UndoKept /\ [Next]_vars
          => Inv' /\ StampsInOrder' /\ UndoKept'
    BY NextInv, StampsKept, NextKeepsUndo
  <1>3. UndoKept => UndoAvailable
    BY DEF UndoKept, UndoAvailable, Undoes
  <1>4. QED
    BY InitInv, <1>1, <1>2, <1>3, PTL DEF Spec

-----------------------------------------------------------------------------
(* A process that is alone and preserves its own backups needs neither the  *)
(* clock nor room: the backup it was told of last is the undo.              *)
AloneAndPreserving == PassPreserve /\ \A c, d \in Clients : c = d

\* The backup the caller of c has been told to preserve, or is about to be.
Holds(c) ==
  IF pc[c] # "audit" \/ op[c].kind = "prune" THEN promised[c]
  ELSE IF op[c].kind = "replace" THEN op[c].copy ELSE NoName

Guards(n, t) ==
  /\ n \in CopiesOf(db, t) /\ db[n] = undo[t]
  /\ \A c \in Clients :
       /\ pc[c] = "pruning" => n \notin op[c].todo
       /\ n.kind = "backup" /\ Holds(c) # NoName /\ Holds(c).of = t => Holds(c) = n

UndoHeld == \A t \in Targets : undo[t] # Absent => \E n \in CopyNames : Guards(n, t)

(* A step that leaves the copies and undo alone, gives pruners no new work  *)
(* and tells callers nothing new keeps every undo.                          *)
LEMMA HeldOn ==
  ASSUME UndoHeld, UNCHANGED undo, \A n \in CopyNames : db'[n] = db[n],
         \A d \in Clients : pc'[d] = "pruning" => pc[d] = "pruning" /\ op'[d].todo = op[d].todo,
         \A d \in Clients : Holds(d)' \in {Holds(d), NoName}
  PROVE  UndoHeld'
  <1>1. ASSUME NEW n \in CopyNames, NEW t \in Targets, Guards(n, t) PROVE Guards(n, t)'
    <2>1. n \in CopiesOf(db, t)' /\ db'[n] = undo'[t]
      BY <1>1 DEF Guards, CopiesOf, Exists
    <2>2. ASSUME NEW c \in Clients
          PROVE  /\ pc'[c] = "pruning" => n \notin op'[c].todo
                 /\ n.kind = "backup" /\ Holds(c)' # NoName /\ Holds(c)'.of = t => Holds(c)' = n
      <3>1. Holds(c)' = Holds(c) \/ Holds(c)' = NoName
        OBVIOUS
      <3>2. QED
        BY <1>1, <3>1 DEF Guards
    <2>3. QED
      BY <2>1, <2>2 DEF Guards
  <1>2. QED
    BY <1>1 DEF UndoHeld

(* A commit makes its own copy the undo, and that is what its caller is     *)
(* told.                                                                    *)
LEMMA CommitHolds ==
  ASSUME AloneAndPreserving, Inv, UndoHeld, NEW c \in Clients, Commit(c)
  PROVE  UndoHeld'
  <1> USE TableNames, CopiesAreNames
  <1>1. PICK o \in Changes : o = op[c]
    BY DEF Commit, At, Inv, StepFitsOp, InTransaction
  <1> DEFINE t == o.table
  <1>2. /\ t \in Targets /\ o.copy \in CopyNames /\ o.source \in Names
        /\ o.kind \in {"replace", "restore"} /\ Committed(o.kind, t, o.copy, o.source)
    BY <1>1, CommitEffect
  <1>3. /\ undo' = [undo EXCEPT ![t] = db[Table(t)]] /\ UNCHANGED <<op, promised>>
        /\ pc[c] = "ready" /\ pc' = [pc EXCEPT ![c] = "audit"]
    BY <1>1 DEF Commit, At, Goto
  <1>4. \A d \in Clients : d = c
    BY DEF AloneAndPreserving
  <1>5. /\ pc'[c] = "audit" /\ Holds(c) = promised[c]
        /\ Holds(c)' = IF o.kind = "replace" THEN o.copy ELSE NoName
    BY <1>1, <1>2, <1>3 DEF Holds, Inv, TypeOK
  <1>6. Guards(o.copy, t)'
    <2>1. o.copy \in CopiesOf(db, t)' /\ db'[o.copy] = undo'[t]
      BY <1>2, <1>3 DEF Committed, CopiesOf, Exists, Inv, TypeOK
    <2>2. Holds(c)' \in {o.copy, NoName}
      BY <1>5
    <2>3. QED
      BY <1>4, <1>5, <2>1, <2>2 DEF Guards
  <1>7. ASSUME NEW u \in Targets \ {t}, NEW n \in CopyNames, Guards(n, u)
        PROVE  Guards(n, u)'
    <2>1. \A m \in CopyNames : m.of = u => db'[m] = db[m]
      BY <1>2 DEF Committed, CopiesOf
    <2>2. undo'[u] = undo[u] /\ n.of = u
      BY <1>3, <1>7 DEF Guards, CopiesOf, Inv, TypeOK
    <2>3. n \in CopiesOf(db, u)' /\ db'[n] = undo'[u]
      BY <1>7, <2>1, <2>2 DEF Guards, CopiesOf, Exists
    <2>4. Holds(c)' # NoName => Holds(c)'.of # u
      BY <1>2, <1>5 DEF Committed
    <2>5. QED
      BY <1>4, <1>5, <2>3, <2>4 DEF Guards
  <1>8. \A u \in Targets \ {t} : undo'[u] = undo[u]
    BY <1>3 DEF Inv, TypeOK
  <1>9. QED
    BY <1>2, <1>6, <1>7, <1>8 DEF UndoHeld

(* A prune keeps what it is told to preserve, which is the undo.            *)
LEMMA PruneHolds ==
  ASSUME AloneAndPreserving, Inv, UndoHeld,
         NEW c \in Clients, NEW t \in Targets, NEW keep \in Keeps, BeginPrune(c, t, keep)
  PROVE  UndoHeld'
  <1> DEFINE backups == BackupsOf(db, t)
             todo == backups \ Kept(backups, keep, promised[c])
  <1>1. /\ op' = [op EXCEPT ![c] = Pruning(t, keep, todo)] /\ pc[c] = "idle"
        /\ UNCHANGED <<db, undo, promised>> /\ pc' = [pc EXCEPT ![c] = "pruning"]
        /\ promised[c] # NoName /\ promised[c].of = t
    BY DEF BeginPrune, CanOpen, Goto, AloneAndPreserving
  <1>2. \A d \in Clients : d = c
    BY DEF AloneAndPreserving
  <1>3. op'[c].todo = todo /\ Holds(c) = promised[c] /\ Holds(c)' = promised[c]
    BY <1>1 DEF Pruning, Holds, Inv, TypeOK
  <1>4. ASSUME NEW u \in Targets, NEW n \in CopyNames, Guards(n, u) PROVE n \notin todo
    <2>1. CASE n \in backups
      <3>1. n.kind = "backup" /\ u = t
        BY <1>4, <2>1 DEF Guards, BackupsOf, CopiesOf
      <3>2. n = promised[c]
        BY <1>1, <1>3, <1>4, <3>1 DEF Guards
      <3>3. n \in Kept(backups, keep, promised[c])
        BY <2>1, <3>2 DEF Kept
      <3>4. QED
        BY <3>3
    <2>2. QED
      BY <2>1
  <1>5. \A n \in CopyNames, u \in Targets : Guards(n, u) => Guards(n, u)'
    <2>1. ASSUME NEW n \in CopyNames, NEW u \in Targets, Guards(n, u) PROVE Guards(n, u)'
      <3>1. n \in CopiesOf(db, u)' /\ db'[n] = undo'[u]
        BY <1>1, <2>1 DEF Guards, CopiesOf, Exists
      <3>2. n \notin op'[c].todo
        BY <1>3, <1>4, <2>1
      <3>3. n.kind = "backup" /\ Holds(c)' # NoName /\ Holds(c)'.of = u => Holds(c)' = n
        BY <1>3, <2>1 DEF Guards
      <3>4. QED
        BY <1>2, <3>1, <3>2, <3>3 DEF Guards
    <2>2. QED
      BY <2>1
  <1>6. QED
    BY <1>1, <1>5 DEF UndoHeld

(* And drops only what it listed.                                           *)
LEMMA DropHolds ==
  ASSUME AloneAndPreserving, Inv, UndoHeld, NEW c \in Clients, DropNext(c)
  PROVE  UndoHeld'
  <1>1. PICK n \in op[c].todo :
          db' = [db EXCEPT ![n] = Absent] /\ op' = [op EXCEPT ![c].todo = @ \ {n}]
    BY DEF DropNext
  <1>2. op[c] \in Prunings /\ pc[c] = "pruning" /\ UNCHANGED <<pc, undo, promised>>
    BY DEF DropNext, At, Inv, StepFitsOp
  <1>3. \A d \in Clients : d = c
    BY DEF AloneAndPreserving
  <1>4. /\ op'[c].todo = op[c].todo \ {n}
        /\ Holds(c) = promised[c] /\ Holds(c)' = promised[c]
    BY <1>1, <1>2 DEF Inv, TypeOK, Prunings, Holds
  <1>5. ASSUME NEW m \in CopyNames, NEW u \in Targets, Guards(m, u) PROVE Guards(m, u)'
    <2>1. m # n
      BY <1>1, <1>2, <1>5 DEF Guards
    <2>2. db'[m] = db[m]
      BY <1>1, <2>1, CopiesAreNames DEF Inv, TypeOK
    <2>3. m \in CopiesOf(db, u)' /\ db'[m] = undo'[u]
      BY <1>2, <1>5, <2>2 DEF Guards, CopiesOf, Exists
    <2>4. /\ m \notin op'[c].todo
          /\ m.kind = "backup" /\ Holds(c)' # NoName /\ Holds(c)'.of = u => Holds(c)' = m
      BY <1>2, <1>4, <1>5 DEF Guards
    <2>5. QED
      BY <1>3, <2>3, <2>4 DEF Guards
  <1>6. QED
    BY <1>2, <1>5 DEF UndoHeld

(* Every step keeps every undo.                                             *)
LEMMA NextHolds ==
  ASSUME AloneAndPreserving
  PROVE  Inv /\ UndoHeld /\ [Next]_vars => UndoHeld'
  <1> SUFFICES ASSUME Inv, UndoHeld, [Next]_vars PROVE UndoHeld'
    OBVIOUS
  <1> USE TableNames, CopiesAreNames
  <1>0. \A c, d \in Clients : c = d
    BY DEF AloneAndPreserving
  <1>1. ASSUME NEW c \in Clients, NEW s \in Scratch, NEW v \in Contents, Stage(c, s, v)
        PROVE UndoHeld'
    <2>1. \A n \in CopyNames : db'[n] = db[n]
      BY <1>1 DEF Stage, Inv, TypeOK
    <2>2. \A d \in Clients : Holds(d)' = Holds(d)
      BY <1>1 DEF Stage, Holds
    <2>3. QED
      BY <1>1, <2>1, <2>2, HeldOn DEF Stage
  <1>2. ASSUME NEW c \in Clients, NEW kind, NEW purpose, NEW t, NEW source,
               Begin(c, kind, purpose, t, source)
        PROVE UndoHeld'
    <2>1. /\ UNCHANGED <<db, undo, promised>> /\ pc' = [pc EXCEPT ![c] = "begun"] /\ pc[c] = "idle"
      BY <1>2 DEF Begin, Goto, CanOpen
    <2>2. \A d \in Clients : pc'[d] = "begun" /\ Holds(d)' = Holds(d)
      BY <1>0, <2>1 DEF Holds, Inv, TypeOK
    <2>3. QED
      BY <2>1, <2>2, HeldOn
  <1>3. ASSUME NEW c \in Clients, NEW t \in Targets, NEW s \in Scratch, PublishNew(c, t, s)
        PROVE UndoHeld'
    <2>1. \A n \in CopyNames : db'[n] = db[n]
      BY <1>3 DEF PublishNew, Inv, TypeOK
    <2>2. /\ UNCHANGED undo /\ pc' = [pc EXCEPT ![c] = "audit"]
          /\ op' = [op EXCEPT ![c] = Doing("publish", t, NoName, NoName)]
      BY <1>3 DEF PublishNew, Goto
    <2>3. \A d \in Clients : pc'[d] = "audit" /\ Holds(d)' = NoName
      BY <1>0, <2>2 DEF Holds, Doing, Inv, TypeOK
    <2>4. QED
      BY <2>1, <2>2, <2>3, HeldOn
  <1>4. ASSUME NEW c \in Clients, NEW from \in InTransaction, NEW to \in InTransaction,
               NEW tables, Statement(c, from, to, tables)
        PROVE UndoHeld'
    <2>1. /\ UNCHANGED <<db, undo, op, promised>> /\ pc' = [pc EXCEPT ![c] = to]
          /\ pc[c] \notin {"audit", "pruning"} /\ to \notin {"audit", "pruning"}
      BY <1>4 DEF Statement, At, Goto, InTransaction
    <2>2. \A d \in Clients : pc'[d] # "pruning" /\ Holds(d)' = Holds(d)
      BY <1>0, <2>1 DEF Holds, Inv, TypeOK
    <2>3. QED
      BY <2>1, <2>2, HeldOn
  <1>5. ASSUME NEW c \in Clients, ClosePrune(c) PROVE UndoHeld'
    <2>1. /\ UNCHANGED <<db, undo, op, promised>> /\ pc' = [pc EXCEPT ![c] = "audit"]
          /\ pc[c] = "pruning" /\ op[c].kind = "prune"
      BY <1>5 DEF ClosePrune, At, Goto, Inv, StepFitsOp, Prunings
    <2>2. \A d \in Clients : pc'[d] # "pruning" /\ Holds(d)' = Holds(d)
      BY <1>0, <2>1 DEF Holds, Inv, TypeOK
    <2>3. QED
      BY <2>1, <2>2, HeldOn
  <1>6. ASSUME NEW c \in Clients, Audit(c) PROVE UndoHeld'
    <2>1. /\ UNCHANGED <<db, undo>> /\ pc' = [pc EXCEPT ![c] = "idle"] /\ pc[c] = "audit"
          /\ promised' = [promised EXCEPT ![c] =
               IF op[c].kind = "replace" THEN op[c].copy
               ELSE IF op[c].kind = "prune" THEN @ ELSE NoName]
      BY <1>6 DEF Audit, At, Goto
    <2>2. \A d \in Clients : pc'[d] # "pruning" /\ Holds(d)' = Holds(d)
      BY <1>0, <2>1 DEF Holds, Inv, TypeOK
    <2>3. QED
      BY <2>1, <2>2, HeldOn
  <1>7. ASSUME NEW c \in Clients, Raise(c) \/ Crash(c) PROVE UndoHeld'
    <2>1. /\ UNCHANGED <<db, undo>> /\ pc' = [pc EXCEPT ![c] = "idle"]
          /\ Crash(c) => promised' = [promised EXCEPT ![c] = NoName]
          /\ Raise(c) => UNCHANGED promised /\ session = c
      BY <1>7 DEF Raise, Crash, Goto
    <2>2. Raise(c) => pc[c] # "audit"
      BY <2>1 DEF Inv, SessionFitsStep, InTransaction
    <2>3. \A d \in Clients : pc'[d] # "pruning" /\ Holds(d)' \in {Holds(d), NoName}
      BY <1>0, <1>7, <2>1, <2>2 DEF Holds, Inv, TypeOK
    <2>4. QED
      BY <2>1, <2>3, HeldOn
  <1>8. CASE UNCHANGED vars
    <2>1. \A d \in Clients : Holds(d)' = Holds(d)
      BY <1>8 DEF vars, Holds
    <2>2. QED
      BY <1>8, <2>1, HeldOn DEF vars
  <1>9. ASSUME NEW c \in Clients, Continue(c) PROVE UndoHeld'
    BY <1>4, <1>5, <1>6, <1>9, CommitHolds, DropHolds
    DEF Continue, CopyTarget, DropTarget, RenameReplacement, CopyBackup, DropBackup,
        InTransaction
  <1>10. QED
    BY <1>1, <1>2, <1>3, <1>7, <1>8, <1>9, PruneHolds
    DEF Next, Call, BeginReplace, BeginRestore

(* A process that is alone on the warehouse and preserves the backup it was *)
(* told of last keeps its undo whatever the clock does and however few      *)
(* backups it keeps (runner.py, _prune; service.py, prune_backups).         *)
THEOREM UndoAvailableAlone ==
  ASSUME AloneAndPreserving
  PROVE  Spec => []UndoAvailable
  <1>1. Init => UndoHeld
    BY DEF Init, UndoHeld
  <1>2. Inv /\ UndoHeld /\ [Next]_vars => Inv' /\ UndoHeld'
    BY NextInv, NextHolds
  <1>3. UndoHeld => UndoAvailable
    BY DEF UndoHeld, UndoAvailable, Guards
  <1>4. QED
    BY InitInv, <1>1, <1>2, <1>3, PTL DEF Spec

-----------------------------------------------------------------------------
(* How many backups a finished prune leaves. A time-stamp is given out      *)
(* once, so the backups of a table are ordered by their stamps, whatever    *)
(* the clock does.                                                          *)
StampsDiffer == \A m, n \in used : m.stamp = n.stamp => m = n

\* The backups t will have left when the running prune is done.
Spared(o) == BackupsOf(db, o.table) \ o.todo

SparesEnough ==
  \A c \in Clients : pc[c] = "pruning" =>
    /\ Spared(op[c]) # {} /\ Cardinality(Spared(op[c])) <= op[c].keep
    /\ PassPreserve => promised[c] \notin op[c].dropped

(* A table has no more backups than there are stamps.                       *)
LEMMA BackupsAreFinite ==
  ASSUME NEW t \in Targets, NEW tables
  PROVE  IsFiniteSet(BackupsOf(tables, t))
  <1> DEFINE f == [n \in 1..MaxStamp |-> BackupName(t, "backup", n)]
             S == 1..MaxStamp
             T == {f[n] : n \in S}
  <1>1. IsFiniteSet(T)
    <2> HIDE DEF f
    <2>1. \A k \in Nat : IsFiniteSet(1..k)
      BY FS_Interval
    <2>2. IsFiniteSet(S)
      BY <2>1, WarehouseConstants
    <2> HIDE DEF S
    <2>3. QED
      BY <2>2, ValuesAreFinite
  <1>2. BackupsOf(tables, t) \subseteq T
    <2> SUFFICES ASSUME NEW n \in BackupsOf(tables, t) PROVE n \in T
      OBVIOUS
    <2>1. n \in CopyNames /\ n.of = t /\ n.kind = "backup"
      BY DEF BackupsOf, CopiesOf
    <2>2. n = f[n.stamp] /\ n.stamp \in S
      BY <2>1 DEF CopyNames, BackupName
    <2>3. QED
      BY <2>2
  <1>3. QED
    BY <1>1, <1>2, FS_Subset

(* Of backups with different stamps, prune_backups keeps the preserved one  *)
(* if it is there, and with it keep in all, or as many as there are.        *)
LEMMA KeptAreAsAsked ==
  ASSUME NEW B \in SUBSET CopyNames, IsFiniteSet(B),
         \A m, n \in B : m.stamp = n.stamp => m = n,
         NEW keep \in Nat \ {0}, NEW preserve
  PROVE  /\ preserve \in B => preserve \in Kept(B, keep, preserve)
         /\ Cardinality(Kept(B, keep, preserve)) =
              IF keep < Cardinality(B) THEN keep ELSE Cardinality(B)
  <1> DEFINE first == B \cap {preserve}
             others == B \ first
             before == {pair \in others \X others : pair[1].stamp > pair[2].stamp}
             k == keep - Cardinality(first)
             rest == First(others, before, k)
  <1>1. /\ IsFiniteSet(first) /\ IsFiniteSet(others)
        /\ Cardinality(first) \in {0, 1}
        /\ Cardinality(B) = Cardinality(first) + Cardinality(others)
        /\ Cardinality(B) \in Nat /\ Cardinality(others) \in Nat
    <2>1. first \subseteq B /\ others \subseteq B /\ first \cap others = {} /\ B = first \cup others
      OBVIOUS
    <2>2. IsFiniteSet(first) /\ IsFiniteSet(others)
      BY <2>1, FS_Subset
    <2>3. first = {} \/ first = {preserve}
      OBVIOUS
    <2>4. Cardinality(first) \in {0, 1}
      BY <2>3, FS_EmptySet, FS_Singleton
    <2>5. first \cup others = B /\ Cardinality(first \cap others) = 0
      BY <2>1, FS_EmptySet
    <2> HIDE DEF first, others
    <2>6. Cardinality(first \cup others)
            = Cardinality(first) + Cardinality(others) - Cardinality(first \cap others)
      BY <2>2, FS_Union
    <2>7. Cardinality(B) \in Nat /\ Cardinality(others) \in Nat
      BY <2>2, FS_CardinalityType
    <2>8. Cardinality(B) = Cardinality(first) + Cardinality(others) - 0
      BY <2>5, <2>6
    <2>9. QED
      BY <2>2, <2>4, <2>7, <2>8
  <1>2. k \in Nat
    BY <1>1, AtLeastOne
  <1>3. \A n \in others : n.stamp \in Nat
    BY DEF CopyNames
  <1>4. StrictlyOrders(before, others)
    <2>1. \A m, n \in others : m.stamp = n.stamp => m = n
      OBVIOUS
    <2> HIDE DEF others
    <2>2. QED
      BY <1>3, <2>1 DEF StrictlyOrders
  <1>5. Kept(B, keep, preserve) = first \cup rest
    <2>1. \A n \in others : Ahead(others, before, n) = {m \in others : m.stamp > n.stamp}
      BY DEF Ahead
    <2>2. QED
      BY <2>1 DEF Kept, First
  <1> HIDE DEF before
  <1>6. /\ IsFiniteSet(rest)
        /\ Cardinality(rest) = IF k < Cardinality(others) THEN k ELSE Cardinality(others)
    <2> HIDE DEF others, k
    <2>1. QED
      BY <1>1, <1>2, <1>4, FirstAreAsMany
  <1>7. first \cap rest = {}
    BY DEF First
  <1>8. Cardinality(first \cup rest) = Cardinality(first) + Cardinality(rest)
    <2> HIDE DEF first, rest
    <2>1. Cardinality(first \cap rest) = 0
      BY <1>7, FS_EmptySet
    <2>2. Cardinality(first \cup rest)
            = Cardinality(first) + Cardinality(rest) - Cardinality(first \cap rest)
      BY <1>1, <1>6, FS_Union
    <2>3. Cardinality(first) \in Nat /\ Cardinality(rest) \in Nat
      BY <1>1, <1>6, FS_CardinalityType
    <2>4. QED
      BY <2>1, <2>2, <2>3
  <1>9. Cardinality(first \cup rest) = IF keep < Cardinality(B) THEN keep ELSE Cardinality(B)
    <2> HIDE DEF first, rest, others
    <2>1. QED
      BY <1>1, <1>2, <1>6, <1>8 DEF k
  <1>10. QED
    BY <1>5, <1>9

(* A stamp is given out once: the name of a copy is new when it is taken.   *)
LEMMA StampsDifferKept == Inv /\ StampsDiffer /\ [Next]_vars => StampsDiffer'
  <1> SUFFICES ASSUME Inv, StampsDiffer, [Next]_vars PROVE StampsDiffer'
    OBVIOUS
  <1>1. ASSUME NEW c \in Clients, NEW kind, NEW purpose, NEW t, NEW source,
               Begin(c, kind, purpose, t, source)
        PROVE StampsDiffer'
    <2>1. PICK n \in 1..MaxStamp :
            FreshStamp(n) /\ used' = used \cup {BackupName(t, purpose, n)}
      BY <1>1 DEF Begin
    <2>2. BackupName(t, purpose, n).stamp = n /\ \A m \in used : m.stamp # n
      BY <2>1 DEF BackupName, FreshStamp
    <2>3. QED
      BY <2>1, <2>2 DEF StampsDiffer
  <1>2. CASE used' = used
    BY <1>2 DEF StampsDiffer
  <1>3. ASSUME NEW c \in Clients, Call(c) \/ Raise(c) \/ Crash(c)
        PROVE used' = used \/ \E kind, purpose, t, source : Begin(c, kind, purpose, t, source)
    BY <1>3 DEF Call, Stage, BeginReplace, BeginRestore, PublishNew, BeginPrune, Raise, Crash
  <1>4. ASSUME NEW c \in Clients, Continue(c) PROVE used' = used
    BY <1>4 DEF Continue, CopyTarget, DropTarget, RenameReplacement, CopyBackup, DropBackup,
                Statement, Commit, DropNext, ClosePrune, Audit
  <1>5. CASE UNCHANGED vars
    BY <1>2, <1>5 DEF vars
  <1>6. QED
    BY <1>1, <1>2, <1>3, <1>4, <1>5 DEF Next

(* The decision of a prune spares as many as it was asked to keep.          *)
LEMMA PruneDecides ==
  ASSUME Inv, StampsDiffer, NEW c \in Clients, NEW t \in Targets, NEW keep \in Keeps,
         BeginPrune(c, t, keep)
  PROVE  /\ op'[c].table = t /\ op'[c].keep = keep
         /\ Spared(op[c])' # {} /\ Cardinality(Spared(op[c])') <= keep
         /\ PassPreserve => promised[c] \notin op'[c].dropped
  <1> DEFINE preserve == IF PassPreserve THEN promised[c] ELSE NoName
             B == BackupsOf(db, t)
             K == Kept(B, keep, preserve)
  <1>1. /\ B \ K # {} /\ db' = db
        /\ op' = [op EXCEPT ![c] = Pruning(t, keep, B \ K)]
    BY DEF BeginPrune
  <1>2. op'[c] = Pruning(t, keep, B \ K)
    BY <1>1 DEF Inv, TypeOK
  <1>3. /\ op'[c].table = t /\ op'[c].keep = keep
        /\ op'[c].todo = B \ K /\ op'[c].dropped = B \ K
    BY <1>2 DEF Pruning
  <1>4. K \subseteq B
    BY DEF Kept
  <1>5. BackupsOf(db, t)' = B
    BY <1>1 DEF BackupsOf, CopiesOf, Exists
  <1>6. Spared(op[c])' = K
    BY <1>3, <1>4, <1>5 DEF Spared
  <1>7. B \in SUBSET CopyNames /\ \A m, n \in B : m.stamp = n.stamp => m = n
    BY DEF BackupsOf, CopiesOf, Inv, CopiesHaveNames, StampsDiffer
  <1>8. IsFiniteSet(B) /\ keep \in Nat \ {0}
    BY BackupsAreFinite, WarehouseConstants
  <1>9. Cardinality(B) \in Nat /\ B # {} /\ Cardinality(B) # 0
    BY <1>1, <1>8, FS_CardinalityType, FS_EmptySet
  <1> HIDE DEF B, preserve
  <1>10. /\ preserve \in B => preserve \in K
         /\ Cardinality(K) = IF keep < Cardinality(B) THEN keep ELSE Cardinality(B)
    BY <1>7, <1>8, KeptAreAsAsked
  <1>11. Cardinality(K) # 0 /\ Cardinality(K) <= keep
    BY <1>8, <1>9, <1>10
  <1>12. K # {}
    BY <1>11, FS_EmptySet
  <1>13. PassPreserve => promised[c] \notin op'[c].dropped
    BY <1>3, <1>10 DEF preserve
  <1>14. QED
    BY <1>3, <1>6, <1>11, <1>12, <1>13

(* Between the decision and the end the file is the pruner's own, and each  *)
(* drop takes away what it has left to do.                                  *)
LEMMA SparesEnoughKept ==
  Inv /\ StampsDiffer /\ SparesEnough /\ [Next]_vars => SparesEnough'
  <1> SUFFICES ASSUME Inv, StampsDiffer, SparesEnough, [Next]_vars PROVE SparesEnough'
    OBVIOUS
  <1> DEFINE NobodyPrunes == \A d \in Clients : pc'[d] # "pruning"
  <1>1. NobodyPrunes => SparesEnough'
    BY DEF SparesEnough
  <1>2. ASSUME db' = db, \A d \in Clients : pc'[d] = "pruning" =>
                           UNCHANGED <<pc[d], op[d], promised[d]>>
        PROVE SparesEnough'
    <2> SUFFICES ASSUME NEW d \in Clients, pc'[d] = "pruning"
                 PROVE  /\ Spared(op[d])' # {} /\ Cardinality(Spared(op[d])') <= op'[d].keep
                        /\ PassPreserve => promised'[d] \notin op'[d].dropped
      BY DEF SparesEnough
    <2>1. pc[d] = "pruning" /\ op'[d] = op[d] /\ promised'[d] = promised[d]
      BY <1>2
    <2>2. BackupsOf(db, op[d].table)' = BackupsOf(db, op[d].table)
      BY <1>2, <2>1 DEF BackupsOf, CopiesOf, Exists
    <2>3. Spared(op[d])' = Spared(op[d])
      BY <2>1, <2>2 DEF Spared
    <2>4. QED
      BY <2>1, <2>3 DEF SparesEnough
  <1> USE DEF Inv, TypeOK
  <1>3. ASSUME NEW c \in Clients, CanOpen(c), pc' = pc \/ \E s \in Steps \ {"pruning"} : Goto(c, s)
        PROVE SparesEnough'
    BY <1>1, <1>3, FreeFile DEF Goto
  <1>4. ASSUME NEW c \in Clients, NEW s \in Scratch, NEW v \in Contents, Stage(c, s, v)
        PROVE SparesEnough'
    BY <1>3, <1>4 DEF Stage
  <1>5. ASSUME NEW c \in Clients, NEW kind, NEW purpose, NEW t, NEW source,
               Begin(c, kind, purpose, t, source)
        PROVE SparesEnough'
    BY <1>3, <1>5 DEF Begin, Steps, InTransaction
  <1>6. ASSUME NEW c \in Clients, NEW t \in Targets, NEW s \in Scratch, PublishNew(c, t, s)
        PROVE SparesEnough'
    BY <1>3, <1>6 DEF PublishNew, Steps
  <1>7. ASSUME NEW c \in Clients, NEW t \in Targets, NEW keep \in Keeps, BeginPrune(c, t, keep)
        PROVE SparesEnough'
    <2>1. /\ \A d \in Clients : pc[d] # "pruning"
          /\ pc' = [pc EXCEPT ![c] = "pruning"] /\ promised' = promised
      BY <1>7, FreeFile DEF BeginPrune, Goto
    <2> SUFFICES ASSUME NEW d \in Clients, pc'[d] = "pruning"
                 PROVE  /\ Spared(op[d])' # {} /\ Cardinality(Spared(op[d])') <= op'[d].keep
                        /\ PassPreserve => promised'[d] \notin op'[d].dropped
      BY DEF SparesEnough
    <2>2. d = c
      BY <2>1
    <2>3. QED
      BY <1>7, <2>1, <2>2, PruneDecides
  <1>8. ASSUME NEW c \in Clients, pc[c] \in InTransaction, Goto(c, "audit") \/
               \E to \in InTransaction : Goto(c, to)
        PROVE SparesEnough'
    <2>1. \A d \in Clients : pc[d] # "pruning"
      BY <1>8, Exclusive DEF InTransaction
    <2>2. QED
      BY <1>1, <1>8, <2>1 DEF Goto, InTransaction
  <1>9. ASSUME NEW c \in Clients, NEW from \in InTransaction, NEW to \in InTransaction, NEW tables,
               Statement(c, from, to, tables)
        PROVE SparesEnough'
    BY <1>8, <1>9 DEF Statement, At
  <1>10. ASSUME NEW c \in Clients, Commit(c) PROVE SparesEnough'
    BY <1>8, <1>10 DEF Commit, At, InTransaction
  <1>11. ASSUME NEW c \in Clients, DropNext(c) PROVE SparesEnough'
    <2>1. PICK n \in op[c].todo :
            /\ db' = [db EXCEPT ![n] = Absent]
            /\ op' = [op EXCEPT ![c].todo = @ \ {n}]
      BY <1>11 DEF DropNext
    <2>2. pc[c] = "pruning" /\ op[c] \in Prunings /\ pc' = pc /\ promised' = promised
      BY <1>11 DEF DropNext, At, StepFitsOp
    <2>3. /\ op'[c].table = op[c].table /\ op'[c].keep = op[c].keep
          /\ op'[c].dropped = op[c].dropped /\ op'[c].todo = op[c].todo \ {n}
      BY <2>1, <2>2 DEF Prunings
    <2>4. \A d \in Clients : pc'[d] = "pruning" => d = c
      BY <2>2, Exclusive
    <2>5. BackupsOf(db, op[c].table)' = BackupsOf(db, op[c].table) \ {n}
      <3>1. n \in CopyNames
        BY <2>1, <2>2 DEF Prunings, BackupNames
      <3>2. \A m \in CopyNames : db'[m] = IF m = n THEN Absent ELSE db[m]
        BY <2>1, <3>1, CopiesAreNames
      <3>3. QED
        BY <2>3, <3>2 DEF BackupsOf, CopiesOf, Exists
    <2>6. Spared(op[c])' = Spared(op[c])
      BY <2>1, <2>3, <2>5 DEF Spared
    <2>7. QED
      BY <2>2, <2>3, <2>4, <2>6 DEF SparesEnough
  <1>12. ASSUME NEW c \in Clients, ClosePrune(c) PROVE SparesEnough'
    BY <1>2, <1>12 DEF ClosePrune, Goto
  <1>13. ASSUME NEW c \in Clients, Audit(c) \/ Raise(c) \/ Crash(c) PROVE SparesEnough'
    <2>1. /\ db' = db /\ pc' = [pc EXCEPT ![c] = "idle"] /\ op' = [op EXCEPT ![c] = NoOp]
          /\ \A d \in Clients \ {c} : promised'[d] = promised[d]
      BY <1>13 DEF Audit, Raise, Crash, Goto
    <2>2. \A d \in Clients : pc'[d] = "pruning" => d # c
      BY <2>1
    <2>3. QED
      BY <1>2, <2>1, <2>2
  <1>14. ASSUME NEW c \in Clients, Continue(c) PROVE SparesEnough'
    BY <1>9, <1>10, <1>11, <1>12, <1>13, <1>14
    DEF Continue, CopyTarget, DropTarget, RenameReplacement, CopyBackup, DropBackup,
        InTransaction
  <1>15. CASE UNCHANGED vars
    BY <1>2, <1>15 DEF vars
  <1>16. QED
    BY <1>4, <1>5, <1>6, <1>7, <1>13, <1>14, <1>15
    DEF Next, Call, BeginReplace, BeginRestore

(* A prune that runs to its end leaves at least one backup and at most as   *)
(* many as it was asked to keep, and not one of those it dropped was the    *)
(* one it was told to preserve: under any clock, with other pruners before  *)
(* it and faults and crashes anywhere.                                      *)
THEOREM PrunesReachKeep == Spec => PruneReachesKeep
  <1>1. Init => StampsDiffer /\ SparesEnough
    BY DEF Init, StampsDiffer, SparesEnough
  <1>2. Inv /\ StampsDiffer /\ SparesEnough /\ [Next]_vars => StampsDiffer' /\ SparesEnough'
    BY StampsDifferKept, SparesEnoughKept
  <1>3. SparesEnough =>
          \A c \in Clients : ClosePrune(c) =>
            LET left == BackupsOf(db, op[c].table)
            IN /\ left # {}
               /\ Cardinality(left) <= op[c].keep
               /\ promised[c] \notin op[c].dropped \/ ~PassPreserve
    <2> SUFFICES ASSUME SparesEnough, NEW c \in Clients, ClosePrune(c)
                 PROVE  /\ BackupsOf(db, op[c].table) # {}
                        /\ Cardinality(BackupsOf(db, op[c].table)) <= op[c].keep
                        /\ promised[c] \notin op[c].dropped \/ ~PassPreserve
      OBVIOUS
    <2>1. pc[c] = "pruning" /\ Spared(op[c]) = BackupsOf(db, op[c].table)
      BY DEF ClosePrune, At, Spared
    <2>2. QED
      BY <2>1 DEF SparesEnough
  <1>4. QED
    BY <1>1, <1>2, <1>3, Invariance, PTL DEF Spec, PruneReachesKeep
=============================================================================
