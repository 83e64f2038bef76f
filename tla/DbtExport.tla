------------------------------ MODULE DbtExport ------------------------------
(***************************************************************************)
(* export_dbt_project writes the files of a project into a directory,      *)
(* removes those its manifest remembers from the export before and the     *)
(* project no longer has, and rewrites the manifest. Specs change between  *)
(* exports, people keep files of their own in the directory, and an export *)
(* may stop between any two of its writes, or inside that of the manifest. *)
(***************************************************************************)
EXTENDS Integers, FiniteSets

CONSTANTS
  Paths,        \* paths in the output directory
  Generations,  \* the path sets that states of the project export to
  MaxExports,   \* bound: exports
  Missing,      \* no manifest
  Torn          \* one that is truncated and not yet written

ASSUME ExportConstants ==
  /\ Generations \subseteq SUBSET Paths
  /\ MaxExports \in Nat
  /\ \A g \in SUBSET Paths : g # Missing /\ g # Torn

VARIABLES
  owner,       \* owner[f]: who wrote the file at path f last
  recorded,    \* the paths of the manifest, or why there are none
  current,     \* the paths of the export under way, or of the last one
  pending,     \* of these, the ones still to be written
  stale,       \* files still to be unlinked
  stage,
  exports,     \* exports begun
  orphans      \* history: files of exports that stopped, in no manifest since

exportVars == <<owner, recorded, current, pending, stale, stage, exports, orphans>>

Nobody == "nobody"
Owners == {Nobody, "export", "user"}
Generated == {f \in Paths : owner[f] = "export"}

\* the paths a manifest gives, none if there is none or it cannot be read
Remembered == IF recorded \in {Missing, Torn} THEN {} ELSE recorded

ExportTypeOK ==
  /\ owner \in [Paths -> Owners]
  /\ recorded \in {Missing, Torn} \cup SUBSET Paths
  /\ current \in SUBSET Paths /\ pending \in SUBSET Paths /\ stale \in SUBSET Paths
  /\ stage \in {"rest", "writing", "pruning", "saving"}
  /\ exports \in 0..MaxExports
  /\ orphans \in SUBSET Paths

ExportInit ==
  /\ owner = [f \in Paths |-> Nobody]
  /\ recorded = Missing
  /\ current = {} /\ pending = {} /\ stale = {}
  /\ stage = "rest"
  /\ exports = 0
  /\ orphans = {}

StartExport ==
  /\ stage = "rest" /\ exports < MaxExports
  /\ \E g \in Generations : current' = g /\ pending' = g
  /\ stage' = "writing"
  /\ exports' = exports + 1
  /\ UNCHANGED <<owner, recorded, stale, orphans>>

\* write() replaces whatever is at the path.
WriteFile ==
  /\ stage = "writing"
  /\ \E f \in pending :
       /\ owner' = [owner EXCEPT ![f] = "export"]
       /\ pending' = pending \ {f}
  /\ UNCHANGED <<recorded, current, stale, stage, exports, orphans>>

\* if manifest.is_file(): json.loads raises on a torn one, after the writes.
FindStale ==
  /\ stage = "writing" /\ pending = {}
  /\ recorded # Torn
  /\ stale' = Remembered \ current
  /\ stage' = "pruning"
  /\ UNCHANGED <<owner, recorded, current, pending, exports, orphans>>

Unlink ==
  /\ stage = "pruning"
  /\ \E f \in stale :
       /\ owner' = [owner EXCEPT ![f] = Nobody]
       /\ stale' = stale \ {f}
  /\ UNCHANGED <<recorded, current, pending, stage, exports, orphans>>

OpenManifestFirst ==   \* a slip: the manifest before the files it drops
  /\ stage = "pruning"
  /\ recorded' = current
  /\ stage' = "saving"
  /\ UNCHANGED <<owner, current, pending, stale, exports, orphans>>

OpenManifest ==
  /\ stage = "pruning" /\ stale = {}
  /\ recorded' = Torn
  /\ stage' = "saving"
  /\ UNCHANGED <<owner, current, pending, stale, exports, orphans>>

SaveManifest ==
  /\ stage = "saving"
  /\ recorded' = current
  /\ orphans' = orphans \ current
  /\ stage' = "rest"
  /\ UNCHANGED <<owner, current, pending, stale, exports>>

\* The process dies or a call raises. What this export had written is known
\* to nobody unless the manifest of the export before names it.
StopExport ==
  /\ stage # "rest"
  /\ orphans' = orphans \cup (Generated \ Remembered)
  /\ pending' = {} /\ stale' = {}
  /\ stage' = "rest"
  /\ UNCHANGED <<owner, recorded, current, exports>>

\* Somebody adds, edits or removes a file between exports, or removes a
\* manifest that no export can read.
EditFile ==
  /\ stage = "rest"
  /\ \E f \in Paths : \E o \in {Nobody, "user"} : owner' = [owner EXCEPT ![f] = o]
  /\ UNCHANGED <<recorded, current, pending, stale, stage, exports, orphans>>

RemoveManifest ==
  /\ stage = "rest" /\ recorded = Torn
  /\ recorded' = Missing
  /\ UNCHANGED <<owner, current, pending, stale, stage, exports, orphans>>

ExportNext ==
  \/ StartExport \/ WriteFile \/ FindStale \/ Unlink
  \/ OpenManifest \/ SaveManifest
  \/ StopExport \/ EditFile \/ RemoveManifest

ExportSpec == ExportInit /\ [][ExportNext]_exportVars

-----------------------------------------------------------------------------
(* Nothing of a project that is gone stays behind: between exports every    *)
(* generated file is of the last export that the manifest tells of, or was  *)
(* left by one that stopped (dbt.py: "a renamed or deleted pipeline cannot  *)
(* leave stale models or tests behind").                                    *)
NoStaleModels ==
  stage = "rest" => Generated \subseteq orphans \cup Remembered

(* An export replaces or removes only what an export has written or the     *)
(* project now generates (dbt.py: "Other files are untouched").             *)
OthersUntouched ==
  [][\A f \in Paths : owner[f] = "user" /\ owner'[f] # "user" /\ stage # "rest" =>
       f \in current \cup Remembered]_exportVars
=============================================================================
