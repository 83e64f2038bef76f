---------------------------- MODULE StateDirectory ----------------------------
(***************************************************************************)
(* Who holds which file of a state directory. A server (`serve`, `mcp`) and *)
(* a pipeline command open the runtime repository first and hold its       *)
(* DuckDB file until they end; DuckDB gives a file to one process that may  *)
(* write or to several that only read. The warehouse is opened session by   *)
(* session: for writing by pipeline commands and by scripts that use        *)
(* EngineeringService alone, for reading by the dry runs of an MCP server.  *)
(***************************************************************************)
EXTENDS Integers, FiniteSets

CONSTANTS
  McpServers,    \* `mcp` processes
  Others,        \* `serve` processes, which leave the warehouse alone
  Commands,      \* `pipelines run`, `ingest`, `history` and `lineage`
  Scripts,       \* processes that change DEV tables without the runtime repository
  Sessions       \* bound: warehouse sessions of one command

Holders == McpServers \cup Others \cup Commands
Processes == Holders \cup Scripts

ASSUME StateConstants ==
  /\ Sessions \in Nat \ {0}
  /\ McpServers \cap (Others \cup Commands \cup Scripts) = {}
  /\ Commands \cap (Others \cup Scripts) = {} /\ Others \cap Scripts = {}

VARIABLES
  at,         \* at[p]: what p is doing
  history,    \* processes with runtime-history.duckdb open
  writing,    \* processes with a session on engineering.duckdb
  reading,    \* those with it attached READ_ONLY
  built,      \* engineering.duckdb is there
  open,       \* open[p]: sessions command p has still to make
  refused     \* history: dry runs that found the warehouse busy, and with whom

stateVars == <<at, history, writing, reading, built, open, refused>>

StateTypeOK ==
  /\ at \in [Processes -> {"off", "opening", "loading", "serving", "between", "session", "done"}]
  /\ history \in SUBSET Holders
  /\ writing \in SUBSET (Commands \cup Scripts)
  /\ reading \in SUBSET McpServers
  /\ built \in BOOLEAN
  /\ open \in [Commands -> 0..Sessions]
  /\ refused \in SUBSET (Commands \cup Scripts)

StateInit ==
  /\ at = [p \in Processes |-> "off"]
  /\ history = {} /\ writing = {} /\ reading = {}
  /\ built = FALSE
  /\ open = [p \in Commands |-> 0]
  /\ refused = {}

Moves(p, from, to) == at[p] = from /\ at' = [at EXCEPT ![p] = to]

\* What DuckDB gives to another process.
HistoryFree == history = {}
WarehouseWritable == writing = {} /\ reading = {}
WarehouseReadable == built /\ writing = {}

-----------------------------------------------------------------------------
\* The registry is read, for a command the project too, and the SQLite file
\* opened, which any number of processes may.
Launch(p) ==
  /\ p \in Holders /\ Moves(p, "off", "opening")
  /\ UNCHANGED <<history, writing, reading, built, open, refused>>

OpenRuntimeShared(p) ==   \* a slip: the file as if it could be shared
  /\ p \in Holders /\ Moves(p, "opening", "loading")
  /\ history' = history \cup {p}
  /\ UNCHANGED <<writing, reading, built, open, refused>>

\* DuckDBRuntimeHistoryStore(...) raises when another process has the file.
OpenRuntime(p) ==
  /\ p \in Holders /\ at[p] = "opening"
  /\ IF HistoryFree
     THEN history' = history \cup {p} /\ Moves(p, "opening", "loading")
     ELSE Moves(p, "opening", "off") /\ UNCHANGED history
  /\ UNCHANGED <<writing, reading, built, open, refused>>

\* A server loads the project and answers; a command has its runner made,
\* whose constructor is the first of its sessions.
Settle(p) ==
  /\ p \in Holders
  /\ IF p \in Commands
     THEN /\ Moves(p, "loading", "between")
          /\ \E n \in 1..Sessions : open' = [open EXCEPT ![p] = n]
     ELSE Moves(p, "loading", "serving") /\ UNCHANGED open
  /\ UNCHANGED <<history, writing, reading, built, refused>>

\* A session of ingest, of one pipeline, of the records or of a report; one
\* that finds the file taken raises, which ends a script.
BeginSession(p) ==
  /\ p \in Commands /\ open[p] > 0
  /\ IF WarehouseWritable
     THEN Moves(p, "between", "session") /\ writing' = writing \cup {p} /\ built' = TRUE
     ELSE Moves(p, "between", "done") /\ UNCHANGED <<writing, built>>
  /\ open' = [open EXCEPT ![p] = IF WarehouseWritable THEN @ - 1 ELSE 0]
  /\ UNCHANGED <<history, reading, refused>>

EndSession(p) ==
  /\ p \in Commands /\ Moves(p, "session", IF open[p] = 0 THEN "done" ELSE "between")
  /\ writing' = writing \ {p}
  /\ UNCHANGED <<history, reading, built, open, refused>>

BeginScript(p) ==
  /\ p \in Scripts /\ WarehouseWritable
  /\ Moves(p, "off", "session")
  /\ writing' = writing \cup {p} /\ built' = TRUE
  /\ UNCHANGED <<history, reading, open, refused>>

EndScript(p) ==
  /\ p \in Scripts /\ Moves(p, "session", "off")
  /\ writing' = writing \ {p}
  /\ UNCHANGED <<history, reading, built, open, refused>>

\* dry_run: attached, or CAPABILITY_UNAVAILABLE.
BeginDryRun(p) ==
  /\ p \in McpServers /\ at[p] = "serving"
  /\ IF WarehouseReadable
     THEN Moves(p, "serving", "session") /\ reading' = reading \cup {p} /\ UNCHANGED refused
     ELSE refused' = refused \cup writing /\ UNCHANGED <<at, reading>>
  /\ UNCHANGED <<history, writing, built, open>>

EndDryRun(p) ==
  /\ p \in McpServers /\ Moves(p, "session", "serving")
  /\ reading' = reading \ {p}
  /\ UNCHANGED <<history, writing, built, open, refused>>

-----------------------------------------------------------------------------
\* A command closes the stores when it ends and a server when it is stopped;
\* death at any other point leaves it to the operating system.
Leave(p) ==
  /\ at[p] \notin {"off"}
  /\ at' = [at EXCEPT ![p] = "off"]
  /\ history' = history \ {p}
  /\ writing' = writing \ {p} /\ reading' = reading \ {p}
  /\ open' = IF p \in Commands THEN [open EXCEPT ![p] = 0] ELSE open
  /\ UNCHANGED <<built, refused>>

StateNext ==
  \E p \in Processes :
    \/ Launch(p) \/ OpenRuntime(p) \/ Settle(p)
    \/ BeginSession(p) \/ EndSession(p)
    \/ BeginScript(p) \/ EndScript(p)
    \/ BeginDryRun(p) \/ EndDryRun(p)
    \/ Leave(p)

StateSpec == StateInit /\ [][StateNext]_stateVars

-----------------------------------------------------------------------------
\* A command that has begun: it may have published tables and not recorded
\* them, or landed some sources and not others.
HalfDone(p) == p \in Commands /\ at[p] \in {"between", "session"}

(* A dry run sees no invocation half-done, though the warehouse is free     *)
(* between two sessions of one: the runtime repository, which has nothing   *)
(* to do with the warehouse, keeps servers and commands apart. Only a       *)
(* script can stand in a dry run's way, and a dry run in a script's.        *)
DryRunsSeeSettledTables ==
  /\ \A p \in McpServers, q \in Commands : p \in reading => ~HalfDone(q)
  /\ refused \subseteq Scripts
  /\ \A p \in writing : writing = {p} /\ reading = {}
=============================================================================
