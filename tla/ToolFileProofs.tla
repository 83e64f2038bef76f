---------------------------- MODULE ToolFileProofs ----------------------------
(***************************************************************************)
(* Theorems about the four tools that write files one after another and    *)
(* may stop between any two of them (deployment, dbt export, crawler and    *)
(* sample data) and about the processes that share a state directory, for   *)
(* any files, any number of processes and any bounds.                       *)
(***************************************************************************)
EXTENDS Deployment, DbtExport, Crawler, SampleData, StateDirectory, FiniteSetTheorems, TLAPS

-----------------------------------------------------------------------------
(* Deployment. What an attempt has behind it at each step.                  *)
AttemptStands(c) ==
  /\ ~At(c, "idle") => attempt[c].call \in 1..MaxCalls
  /\ At(c, "tested") /\ attempt[c].profile = "unit" /\ attempt[c].ok /\ ~attempt[c].edited =>
       artifact \in Good
  /\ attempt[c].at \in {"validated", "digested", "written"} => Validated(attempt[c].call)
  /\ At(c, "validated") /\ attempt[c].profile = "unit" /\ ~attempt[c].edited => artifact \in Good
  /\ attempt[c].at \in {"digested", "written"} =>
       /\ attempt[c].digest \in Versions
       /\ attempt[c].profile = "unit" /\ ~attempt[c].edited => attempt[c].digest \in Good
  /\ At(c, "written") =>
       \E x \in manifests : x.call = attempt[c].call /\ x.digest = attempt[c].digest

DeploymentInv ==
  /\ DeploymentTypeOK /\ DeploymentHoldsUp
  /\ \A c \in Deployers : AttemptStands(c)

(* At first nobody has deployed anything.                                   *)
LEMMA DeploymentInitInv == DeploymentInit => DeploymentInv
  BY DeploymentConstants
     DEF DeploymentInit, DeploymentInv, DeploymentTypeOK, DeploymentHoldsUp, AttemptStands, At,
         Idle, Attempts, Held, Profiles, Manifests, AuditEntries, Validated

(* Every step keeps the types.                                              *)
LEMMA DeploymentTypeStep ==
  ASSUME DeploymentInv, [DeploymentNext]_deploymentVars
  PROVE  DeploymentTypeOK'
  <1> USE DeploymentConstants DEF DeploymentInv, DeploymentTypeOK, Attempts, Held, Idle, Profiles
  <1>1. CASE Edit
    <2>1. \A a \in Attempts : [a EXCEPT !.edited = TRUE] \in Attempts
      OBVIOUS
    <2>2. attempt' \in [Deployers -> Attempts]
      <3> HIDE DEF Attempts
      <3>1. \A c \in Deployers : attempt[c] \in Attempts
        OBVIOUS
      <3>2. attempt' = [c \in Deployers |->
              IF attempt[c].at \in {"tested", "validated"} THEN [attempt[c] EXCEPT !.edited = TRUE]
              ELSE attempt[c]]
        BY <1>1 DEF Edit
      <3>3. QED
        BY <2>1, <3>1, <3>2
    <2>3. artifact' \in Held /\ UNCHANGED <<attempts, manifests, log>>
      BY <1>1 DEF Edit
    <2>4. QED
      BY <2>2, <2>3
  <1>2. ASSUME NEW c \in Deployers, Request(c) PROVE DeploymentTypeOK'
    <2>1. PICK profile \in Profiles :
            attempt' = [attempt EXCEPT ![c] =
              [Idle EXCEPT !.at = "testing", !.call = attempts + 1, !.profile = profile]]
      BY <1>2 DEF Request
    <2>2. attempts + 1 \in 0..MaxCalls
      BY <1>2 DEF Request
    <2>3. [Idle EXCEPT !.at = "testing", !.call = attempts + 1, !.profile = profile] \in Attempts
      BY <2>2
    <2>4. attempt' \in [Deployers -> Attempts]
      BY <2>1, <2>3
    <2>5. QED
      BY <1>2, <2>2, <2>4 DEF Request
  <1>3. ASSUME NEW c \in Deployers, RunProfile(c) \/ TimeOut(c) \/ Digest(c) \/ Abandon(c)
        PROVE DeploymentTypeOK'
    <2>1. UNCHANGED <<artifact, attempts, manifests, log>>
      BY <1>3 DEF RunProfile, TimeOut, Digest, Abandon
    <2>2. CASE RunProfile(c)
      <3> DEFINE ok == attempt[c].profile = "registry" \/ artifact \in Good
      <3>1. attempt' = [attempt EXCEPT ![c] = [attempt[c] EXCEPT !.at = "tested", !.ok = ok]]
        BY <2>2 DEF RunProfile
      <3>2. attempt[c] \in Attempts /\ ok \in BOOLEAN
        OBVIOUS
      <3> HIDE DEF ok
      <3>3. [attempt[c] EXCEPT !.at = "tested", !.ok = ok] \in Attempts
        BY <3>2
      <3>4. QED
        BY <2>1, <3>1, <3>3
    <2>3. CASE TimeOut(c) \/ Abandon(c)
      <3>1. Idle \in Attempts
        OBVIOUS
      <3>2. attempt' = [attempt EXCEPT ![c] = Idle]
        BY <2>3 DEF TimeOut, Abandon
      <3>3. QED
        BY <2>1, <3>1, <3>2
    <2>4. CASE Digest(c)
      <3>1. attempt[c] \in Attempts /\ Idle \in Attempts
        OBVIOUS
      <3>2. [attempt[c] EXCEPT !.at = "digested", !.digest = artifact] \in Attempts
        BY <3>1
      <3>3. QED
        BY <2>1, <2>4, <3>1, <3>2 DEF Digest
    <2>5. QED
      BY <1>3, <2>2, <2>3, <2>4
  <1>4. ASSUME NEW c \in Deployers, AuditValidation(c) PROVE DeploymentTypeOK'
    <2>1. attempt[c].call \in 1..MaxCalls
      BY <1>4 DEF AuditValidation, AttemptStands, At
    <2>2. [action |-> "validation", call |-> attempt[c].call, ok |-> attempt[c].ok] \in AuditEntries
      BY <2>1 DEF AuditEntries
    <2>3. QED
      BY <1>4, <2>2 DEF AuditValidation
  <1>5. ASSUME NEW c \in Deployers, WriteManifest(c) PROVE DeploymentTypeOK'
    <2>1. attempt[c].call \in 1..MaxCalls /\ attempt[c].digest \in Versions
      BY <1>5 DEF WriteManifest, AttemptStands, At
    <2>2. [call |-> attempt[c].call, profile |-> attempt[c].profile,
           digest |-> attempt[c].digest, edited |-> attempt[c].edited] \in Manifests
      BY <2>1 DEF Manifests
    <2>3. QED
      BY <1>5, <2>2 DEF WriteManifest
  <1>6. ASSUME NEW c \in Deployers, AuditDeployment(c) PROVE DeploymentTypeOK'
    <2>1. attempt[c].call \in 1..MaxCalls /\ attempt[c].digest \in Versions
      BY <1>6 DEF AuditDeployment, AttemptStands, At
    <2>2. [action |-> "deployment", call |-> attempt[c].call, digest |-> attempt[c].digest]
            \in AuditEntries
      BY <2>1 DEF AuditEntries
    <2>3. QED
      BY <1>6, <2>2 DEF AuditDeployment
  <1>7. CASE UNCHANGED deploymentVars
    BY <1>7 DEF deploymentVars
  <1>8. QED
    BY <1>1, <1>2, <1>3, <1>4, <1>5, <1>6, <1>7 DEF DeploymentNext

(* The audit file and the manifests only grow, and what an attempt has      *)
(* behind it survives the steps of the others.                              *)
LEMMA DeploymentStep ==
  ASSUME DeploymentInv, [DeploymentNext]_deploymentVars
  PROVE  DeploymentInv'
  <1> USE DEF DeploymentInv
  <1>t. DeploymentTypeOK'
    BY DeploymentTypeStep
  <1>1. CASE Edit
    <2>1. \A c \in Deployers :
            /\ attempt'[c] \in Attempts
            /\ attempt'[c] = [attempt[c] EXCEPT !.edited = attempt'[c].edited]
            /\ attempt[c].at \in {"tested", "validated"} => attempt'[c].edited
            /\ attempt[c].at \notin {"tested", "validated"} => attempt'[c] = attempt[c]
      BY <1>1, <1>t DEF Edit, DeploymentTypeOK, Attempts
    <2>2. \A c \in Deployers : AttemptStands(c)'
      BY <1>1, <2>1 DEF Edit, AttemptStands, At, Validated, DeploymentTypeOK, Attempts
    <2>3. DeploymentHoldsUp'
      BY <1>1 DEF Edit, DeploymentHoldsUp, Validated
    <2>4. QED
      BY <1>t, <2>2, <2>3
  <1>2. ASSUME NEW c \in Deployers,
               Request(c) \/ RunProfile(c) \/ TimeOut(c) \/ Digest(c) \/ Abandon(c)
        PROVE DeploymentInv'
    <2> USE DEF Request, RunProfile, TimeOut, Digest, Abandon
    <2>1. UNCHANGED <<artifact, manifests, log>>
      BY <1>2
    <2>2. \A o \in Deployers \ {c} : attempt'[o] = attempt[o]
      BY <1>2 DEF DeploymentTypeOK
    <2>3. \A o \in Deployers \ {c} : AttemptStands(o)'
      BY <2>1, <2>2 DEF AttemptStands, At, Validated
    <2>4. AttemptStands(c)'
      <3> USE <1>t DEF AttemptStands, At, DeploymentTypeOK, Attempts
      <3>1. CASE Request(c)
        <4>1. attempt'[c].at = "testing" /\ attempt'[c].call = attempts + 1
          BY <3>1 DEF Idle
        <4>2. attempts + 1 \in 1..MaxCalls
          BY <3>1
        <4>3. QED
          BY <4>1, <4>2
      <3>2. CASE RunProfile(c)
        BY <2>1, <3>2
      <3>3. CASE TimeOut(c) \/ Abandon(c)
        <4>1. attempt'[c].at = "idle"
          BY <3>3 DEF Idle
        <4>2. QED
          BY <4>1
      <3>4. CASE Digest(c)
        <4>1. CASE artifact = Gone
          <5>1. attempt'[c].at = "idle"
            BY <3>4, <4>1 DEF Idle
          <5>2. QED
            BY <5>1
        <4>2. CASE artifact # Gone
          <5>1. attempt'[c] = [attempt[c] EXCEPT !.at = "digested", !.digest = artifact]
            BY <3>4, <4>2
          <5>2. artifact \in Versions
            BY <4>2 DEF Held
          <5>3. /\ attempt'[c].at = "digested" /\ attempt'[c].digest = artifact
                /\ attempt'[c].call = attempt[c].call
                /\ attempt'[c].profile = attempt[c].profile
                /\ attempt'[c].edited = attempt[c].edited
            BY <5>1
          <5>4. At(c, "validated")
            BY <3>4
          <5>5. Validated(attempt[c].call)'
            BY <2>1, <5>3, <5>4 DEF Validated
          <5>6. QED
            BY <2>1, <5>2, <5>3, <5>4, <5>5
        <4>3. QED
          BY <4>1, <4>2
      <3>5. QED
        BY <1>2, <3>1, <3>2, <3>3, <3>4
    <2>5. DeploymentHoldsUp'
      BY <2>1 DEF DeploymentHoldsUp, Validated
    <2>6. QED
      BY <1>t, <2>3, <2>4, <2>5
  <1>3. ASSUME NEW c \in Deployers, AuditValidation(c) PROVE DeploymentInv'
    <2>1. UNCHANGED <<artifact, manifests>> /\ log \subseteq log'
      BY <1>3 DEF AuditValidation
    <2>2. \A n : Validated(n) => Validated(n)'
      BY <2>1 DEF Validated
    <2>3. \A o \in Deployers \ {c} : attempt'[o] = attempt[o]
      BY <1>3 DEF AuditValidation, DeploymentTypeOK
    <2>4. \A o \in Deployers \ {c} : AttemptStands(o)'
      BY <2>1, <2>2, <2>3 DEF AttemptStands, At
    <2>5. attempt[c].ok => Validated(attempt[c].call)'
      BY <1>3 DEF AuditValidation, Validated, DeploymentTypeOK, Attempts
    <2>6. AttemptStands(c)'
      BY <1>3, <2>1, <2>5 DEF AuditValidation, AttemptStands, At, DeploymentTypeOK, Attempts, Idle
    <2>7. \A e \in log' : e.action = "deployment" => e \in log
      BY <1>3 DEF AuditValidation
    <2>8. DeploymentHoldsUp'
      BY <2>1, <2>2, <2>7 DEF DeploymentHoldsUp
    <2>9. QED
      BY <1>t, <2>4, <2>6, <2>8
  <1>4. ASSUME NEW c \in Deployers, WriteManifest(c) PROVE DeploymentInv'
    <2> DEFINE new == [call |-> attempt[c].call, profile |-> attempt[c].profile,
                       digest |-> attempt[c].digest, edited |-> attempt[c].edited]
    <2>1. UNCHANGED <<artifact, log>> /\ manifests' = manifests \cup {new}
      BY <1>4 DEF WriteManifest
    <2>2. attempt' = [attempt EXCEPT ![c].at = "written"] /\ At(c, "digested")
      BY <1>4 DEF WriteManifest
    <2>3. \A o \in Deployers \ {c} : attempt'[o] = attempt[o]
      BY <2>2 DEF DeploymentTypeOK
    <2>4. \A o \in Deployers \ {c} : AttemptStands(o)'
      BY <2>1, <2>3 DEF AttemptStands, At, Validated
    <2>5. AttemptStands(c)'
      <3>1. attempt'[c] = [attempt[c] EXCEPT !.at = "written"]
        BY <2>2 DEF DeploymentTypeOK
      <3>2. new \in manifests' /\ new.call = attempt'[c].call /\ new.digest = attempt'[c].digest
        BY <2>1, <3>1 DEF DeploymentTypeOK, Attempts
      <3>3. QED
        BY <2>1, <2>2, <3>1, <3>2 DEF AttemptStands, At, Validated, DeploymentTypeOK, Attempts
    <2>6. /\ Validated(new.call)
          /\ new.profile = "unit" /\ ~new.edited => new.digest \in Good
      BY <2>2 DEF AttemptStands, At, DeploymentTypeOK, Attempts
    <2>7. DeploymentHoldsUp'
      BY <2>1, <2>6 DEF DeploymentHoldsUp, Validated
    <2>8. QED
      BY <1>t, <2>4, <2>5, <2>7
  <1>5. ASSUME NEW c \in Deployers, AuditDeployment(c) PROVE DeploymentInv'
    <2> DEFINE new == [action |-> "deployment", call |-> attempt[c].call,
                       digest |-> attempt[c].digest]
    <2>1. UNCHANGED <<artifact, manifests>> /\ log' = log \cup {new}
      BY <1>5 DEF AuditDeployment
    <2>2. attempt' = [attempt EXCEPT ![c] = Idle] /\ At(c, "written")
      BY <1>5 DEF AuditDeployment
    <2>3. \A n : Validated(n) => Validated(n)'
      BY <2>1 DEF Validated
    <2>4. \A o \in Deployers : o # c => attempt'[o] = attempt[o]
      BY <2>2 DEF DeploymentTypeOK
    <2>5. \A o \in Deployers : AttemptStands(o)'
      BY <2>1, <2>2, <2>3, <2>4 DEF AttemptStands, At, DeploymentTypeOK, Idle
    <2>6. \E x \in manifests : x.call = new.call /\ x.digest = new.digest
      BY <2>2 DEF AttemptStands, At
    <2>7. DeploymentHoldsUp'
      BY <2>1, <2>3, <2>6 DEF DeploymentHoldsUp
    <2>8. QED
      BY <1>t, <2>5, <2>7
  <1>6. CASE UNCHANGED deploymentVars
    BY <1>6 DEF deploymentVars, DeploymentTypeOK, DeploymentHoldsUp, AttemptStands, At, Validated
  <1>7. QED
    BY <1>1, <1>2, <1>3, <1>4, <1>5, <1>6 DEF DeploymentNext

(* A deployment is only ever recorded over a validation that succeeded and  *)
(* an artifact that was the one tested unless somebody edited it, for any   *)
(* number of processes and calls (deploy_pipeline_to_dev).                  *)
THEOREM DeploymentsHoldUp == DeploymentSpec => [](DeploymentTypeOK /\ DeploymentHoldsUp)
  <1>1. DeploymentInv => DeploymentTypeOK /\ DeploymentHoldsUp
    BY DEF DeploymentInv
  <1>2. QED
    BY DeploymentInitInv, DeploymentStep, <1>1, PTL DEF DeploymentSpec

-----------------------------------------------------------------------------
(* dbt export. Where the generated files are accounted for, at each stage:  *)
(* until the manifest is opened it tells of the last export, afterwards     *)
(* only the files of this one are left.                                     *)
FilesAccountedFor ==
  /\ pending \subseteq current /\ stale \subseteq Remembered
  /\ stage # "writing" => pending = {}
  /\ stage # "pruning" => stale = {}
  /\ stage = "rest" => Generated \subseteq orphans \cup Remembered
  /\ stage = "writing" => Generated \subseteq orphans \cup Remembered \cup (current \ pending)
  /\ stage = "pruning" => Generated \subseteq orphans \cup current \cup stale
  /\ stage = "saving" => Generated \subseteq orphans \cup current

ExportInv == ExportTypeOK /\ FilesAccountedFor

(* At first nothing is generated.                                           *)
LEMMA ExportInitInv == ExportInit => ExportInv
  BY ExportConstants
     DEF ExportInit, ExportInv, ExportTypeOK, FilesAccountedFor, Generated, Remembered, Nobody, Owners

(* A manifest that could be read names paths, and no path set is a torn or  *)
(* a missing manifest.                                                      *)
LEMMA RememberedPaths == ASSUME ExportTypeOK PROVE Remembered \subseteq Paths
  BY DEF ExportTypeOK, Remembered

(* Every step of an export, a stop and an edit keep the files accounted for.*)
LEMMA ExportStep ==
  ASSUME ExportInv, [ExportNext]_exportVars
  PROVE  ExportInv'
  <1> USE RememberedPaths DEF ExportInv, ExportTypeOK, FilesAccountedFor, Generated, Owners, Nobody
  <1>1. CASE StartExport
    <2>1. Remembered' = Remembered
      BY <1>1 DEF StartExport, Remembered
    <2>2. QED
      BY <1>1, <2>1, ExportConstants DEF StartExport
  <1>2. CASE WriteFile
    <2>1. Remembered' = Remembered
      BY <1>2 DEF WriteFile, Remembered
    <2>2. QED
      BY <1>2, <2>1 DEF WriteFile
  <1>3. CASE FindStale
    <2>1. Remembered' = Remembered
      BY <1>3 DEF FindStale, Remembered
    <2>2. QED
      BY <1>3, <2>1 DEF FindStale
  <1>4. CASE Unlink
    <2>1. Remembered' = Remembered
      BY <1>4 DEF Unlink, Remembered
    <2>2. QED
      BY <1>4, <2>1 DEF Unlink
  <1>5. CASE OpenManifest
    BY <1>5 DEF OpenManifest, Remembered
  <1>6. CASE SaveManifest
    <2>1. Remembered' = current
      BY <1>6, ExportConstants DEF SaveManifest, Remembered
    <2>2. QED
      BY <1>6, <2>1 DEF SaveManifest
  <1>7. CASE StopExport
    <2>1. Remembered' = Remembered
      BY <1>7 DEF StopExport, Remembered
    <2>2. QED
      BY <1>7, <2>1 DEF StopExport
  <1>8. CASE EditFile
    <2>1. Remembered' = Remembered
      BY <1>8 DEF EditFile, Remembered
    <2>2. QED
      BY <1>8, <2>1 DEF EditFile
  <1>9. CASE RemoveManifest
    <2>1. Remembered' = Remembered
      BY <1>9 DEF RemoveManifest, Remembered
    <2>2. QED
      BY <1>9, <2>1 DEF RemoveManifest
  <1>10. CASE UNCHANGED exportVars
    <2>1. Remembered' = Remembered
      BY <1>10 DEF exportVars, Remembered
    <2>2. QED
      BY <1>10, <2>1 DEF exportVars
  <1>11. QED
    BY <1>1, <1>2, <1>3, <1>4, <1>5, <1>6, <1>7, <1>8, <1>9, <1>10 DEF ExportNext

LEMMA ExportInvariance == ExportSpec => []ExportInv
  BY ExportInitInv, ExportStep, PTL DEF ExportSpec

(* Between exports no generated file is left of a project that is gone,     *)
(* except those of an export that stopped (export_dbt_project's manifest).  *)
THEOREM NoModelIsStale == ExportSpec => []NoStaleModels
  <1>1. ExportInv => NoStaleModels
    BY DEF ExportInv, FilesAccountedFor, NoStaleModels
  <1>2. QED
    BY ExportInvariance, <1>1, PTL

(* No export touches a file that is neither generated by the project nor    *)
(* in the manifest of the export before.                                    *)
THEOREM OthersStayUntouched == ExportSpec => OthersUntouched
  <1> DEFINE Spared ==
        \A f \in Paths : owner[f] = "user" /\ owner'[f] # "user" /\ stage # "rest" =>
          f \in current \cup Remembered
  <1>1. ASSUME ExportInv, [ExportNext]_exportVars PROVE [Spared]_exportVars
    <2> USE DEF ExportInv, ExportTypeOK, FilesAccountedFor
    <2>1. CASE WriteFile
      BY <1>1, <2>1 DEF WriteFile
    <2>2. CASE Unlink
      BY <1>1, <2>2 DEF Unlink
    <2>3. CASE EditFile
      BY <2>3 DEF EditFile
    <2>4. CASE StartExport \/ FindStale \/ OpenManifest \/ SaveManifest \/ StopExport \/ RemoveManifest
      BY <2>4 DEF StartExport, FindStale, OpenManifest, SaveManifest, StopExport, RemoveManifest
    <2>5. QED
      BY <1>1, <2>1, <2>2, <2>3, <2>4 DEF ExportNext
  <1>2. QED
    BY ExportInvariance, <1>1, PTL DEF ExportSpec, OthersUntouched

-----------------------------------------------------------------------------
(* Numbers have a least one in every set: what the loops take first exists. *)
LEMMA HasLeast ==
  ASSUME NEW S \in SUBSET Nat, S # {}
  PROVE  \E n \in S : \A k \in S : n <= k
  <1> DEFINE Less == {ss \in Nat \X Nat : ss[1] < ss[2]}
  <1>1. IsWellFoundedOn(Less, Nat)
    BY NatLessThanWellFounded DEF OpToRel
  <1> HIDE DEF Less
  <1>2. PICK n \in S : \A k \in S : <<k, n>> \notin Less
    BY <1>1, WFMin, Zenon
  <1>3. \A k \in S : n <= k
    <2> SUFFICES ASSUME NEW k \in S, ~(n <= k) PROVE FALSE
      OBVIOUS
    <2>1. n \in Nat /\ k \in Nat /\ k < n
      OBVIOUS
    <2>2. <<k, n>> \in Less
      BY <2>1 DEF Less
    <2>3. QED
      BY <1>2, <2>2
  <1>4. QED
    BY <1>3

-----------------------------------------------------------------------------
(* Crawler. The file a table is drafted into, the tables that have one, and *)
(* what is so while a crawl writes: it has written one file of its own for  *)
(* each table it is through with, and there are no others.                  *)
FileOf(t) == FileName[TableId[t]]
Drafted == schema \ undrafted

OneFileEach(S) ==
  /\ FilesIn(area) = {FileOf(t) : t \in S}
  /\ \A t, u \in S : FileOf(t) = FileOf(u) => t = u
  /\ \A t \in S : Holds(FileOf(t), TableId[t])

CrawlStands ==
  /\ undrafted \subseteq schema
  /\ ~made => FilesIn(area) = {} /\ report = {}
  /\ crawl = "drafting" => ~made /\ used = {} /\ undrafted = schema
  /\ crawl \in {"writing", "reporting"} =>
       made /\ report = {} /\ used = FilesIn(area) /\ OneFileEach(Drafted)
  /\ crawl = "reporting" => undrafted = {}
  /\ report # {} => (\A t \in schema : ReviewOf(TableId[t]) \in report) /\ OneFileEach(schema)

CrawlerInv == CrawlerTypeOK /\ CrawlStands

(* At first the area is empty.                                              *)
LEMMA CrawlerInitInv == CrawlerInit => CrawlerInv
  BY DEF CrawlerInit, CrawlerInv, CrawlerTypeOK, CrawlStands, FilesIn

(* What a table is drafted into, and with what.                             *)
LEMMA DraftTypes ==
  ASSUME CrawlerTypeOK, NEW t \in Tables
  PROVE  /\ TableId[t] \in DraftIds /\ FileOf(t) \in DraftFiles
         /\ ContractFor(TableId[t]) \in Contracts
         /\ ReviewOf(TableId[t]) \in Reviews
  BY CrawlerConstants DEF CrawlerTypeOK, FileOf, ContractFor, ReviewOf, Contracts, Reviews

(* A step that leaves the area, its history and the crawl's argument alone  *)
(* leaves the files as they are.                                            *)
LEMMA FilesStay ==
  ASSUME UNCHANGED <<area, touched, comparing>>, NEW S
  PROVE  FilesIn(area)' = FilesIn(area) /\ (OneFileEach(S) => OneFileEach(S)')
  BY DEF FilesIn, OneFileEach, Holds, ContractFor, FileOf

(* One more draft, into a file that is not there yet.                       *)
LEMMA DraftWritten ==
  ASSUME CrawlerInv, crawl = "writing", undrafted # {},
         ~NameTaken(FileName[TableId[NextTable]]), WriteDraft
  PROVE  /\ NextTable \in undrafted
         /\ used' = FilesIn(area)' /\ OneFileEach(Drafted)' /\ CrawlerTypeOK'
         /\ \A f \in FilesIn(area) : area'[f] = area[f]
  <1>1. undrafted \in SUBSET Tables /\ Tables \subseteq Nat /\ undrafted \subseteq schema
    BY CrawlerConstants DEF CrawlerInv, CrawlerTypeOK, CrawlStands
  <1>2. PICK t \in undrafted : t = NextTable
    <2>1. \E n \in undrafted : \A k \in undrafted : n <= k
      BY <1>1, HasLeast
    <2>2. QED
      BY <2>1 DEF NextTable
  <1> DEFINE f == FileOf(t)
             id == TableId[t]
  <1>3. f \in DraftFiles /\ id \in DraftIds /\ ContractFor(id) \in Contracts
    BY <1>1, <1>2, DraftTypes DEF CrawlerInv
  <1>4. /\ undrafted' = undrafted \ {t} /\ used' = used \cup {f}
        /\ area' = [area EXCEPT ![f] = ContractFor(id)]
        /\ UNCHANGED <<schema, comparing, made, report, touched, verdict>>
        /\ crawl' \in {"reporting", "writing"}
    BY <1>2 DEF WriteDraft, FileOf
  <1>5. CrawlerTypeOK'
    BY <1>3, <1>4 DEF CrawlerInv, CrawlerTypeOK
  <1>6. /\ used = FilesIn(area) /\ OneFileEach(Drafted) /\ f \notin used
    BY <1>2 DEF CrawlerInv, CrawlStands, NameTaken, FileOf
  <1>7. FilesIn(area)' = FilesIn(area) \cup {f}
    BY <1>3, <1>4, CrawlerConstants DEF FilesIn, CrawlerInv, CrawlerTypeOK
  <1>8. Drafted' = Drafted \cup {t}
    BY <1>1, <1>2, <1>4 DEF Drafted
  <1>9. \A g \in FilesIn(area) : area'[g] = area[g]
    BY <1>4, <1>6 DEF FilesIn, CrawlerInv, CrawlerTypeOK
  <1>10. OneFileEach(Drafted)'
    <2>1. FilesIn(area)' = {FileOf(u) : u \in Drafted'}
      BY <1>6, <1>7, <1>8 DEF OneFileEach
    <2>2. \A u \in Drafted : FileOf(u) \in used
      BY <1>6 DEF OneFileEach
    <2>3. \A u, v \in Drafted' : FileOf(u) = FileOf(v) => u = v
      BY <1>6, <1>8, <2>2 DEF OneFileEach
    <2>4. Holds(f, id)'
      BY <1>3, <1>4 DEF Holds, ContractFor, CrawlerInv, CrawlerTypeOK
    <2>5. \A u \in Drafted : Holds(FileOf(u), TableId[u])'
      BY <1>4, <1>6, <1>9, <2>2 DEF OneFileEach, Holds, ContractFor
    <2>6. QED
      BY <1>8, <2>1, <2>3, <2>4, <2>5 DEF OneFileEach, FileOf
  <1>11. QED
    BY <1>2, <1>4, <1>5, <1>6, <1>7, <1>9, <1>10

(* An edit keeps every file and marks it.                                   *)
LEMMA EditKeepsFiles ==
  ASSUME CrawlerInv, EditDraft, NEW S
  PROVE  /\ CrawlerTypeOK' /\ FilesIn(area)' = FilesIn(area)
         /\ OneFileEach(S) => OneFileEach(S)'
         /\ \A f \in FilesIn(area) : area'[f] = area[f] \/ area'[f].body = "curated"
  <1>1. PICK f \in FilesIn(area), id \in DraftIds, refs \in BOOLEAN :
          /\ area' = [area EXCEPT ![f] = [id |-> id, body |-> "curated", refs |-> refs]]
          /\ touched' = touched \cup {f}
    BY DEF EditDraft
  <1>2. [id |-> id, body |-> "curated", refs |-> refs] \in Contracts /\ f \in DraftFiles
    BY DEF Contracts, FilesIn
  <1>3. UNCHANGED <<schema, comparing, crawl, undrafted, used, made, report>> /\ verdict' = "none"
    BY DEF EditDraft
  <1>4. CrawlerTypeOK'
    BY <1>1, <1>2, <1>3 DEF CrawlerInv, CrawlerTypeOK
  <1>5. FilesIn(area)' = FilesIn(area)
    BY <1>1, <1>2, CrawlerConstants DEF FilesIn, CrawlerInv, CrawlerTypeOK
  <1>6. ASSUME OneFileEach(S) PROVE OneFileEach(S)'
    <2>1. \A g \in DraftFiles : \A i : Holds(g, i) => Holds(g, i)'
      BY <1>1, <1>3 DEF Holds, ContractFor, CrawlerInv, CrawlerTypeOK
    <2>2. \A t \in S : FileOf(t) \in DraftFiles
      BY <1>6 DEF OneFileEach, FilesIn
    <2>3. \A t \in S : Holds(FileOf(t), TableId[t])'
      BY <1>6, <2>1, <2>2 DEF OneFileEach
    <2>4. QED
      BY <1>5, <1>6, <2>3 DEF OneFileEach, FileOf
  <1>7. \A g \in FilesIn(area) : area'[g] = area[g] \/ area'[g].body = "curated"
    BY <1>1, <1>2 DEF FilesIn, CrawlerInv, CrawlerTypeOK
  <1>8. QED
    BY <1>4, <1>5, <1>6, <1>7

(* Every step of a crawl, a stop, an edit and a clearing keep its files.    *)
LEMMA CrawlerStep ==
  ASSUME CrawlerInv, [CrawlerNext]_crawlerVars
  PROVE  CrawlerInv'
  <1> USE DEF CrawlerInv
  <1>1. CASE StartCrawl
    BY <1>1 DEF StartCrawl, CrawlerTypeOK, CrawlStands, FilesIn
  <1>2. CASE DraftTables
    <2>1. FilesIn(area)' = FilesIn(area)
      BY <1>2, FilesStay DEF DraftTables
    <2>2. OneFileEach(Drafted)'
      <3>1. Drafted' = {} /\ FilesIn(area)' = {}
        BY <1>2, <2>1 DEF DraftTables, CrawlStands, Drafted
      <3>2. QED
        BY <3>1 DEF OneFileEach
    <2>3. QED
      BY <1>2, <2>1, <2>2 DEF DraftTables, CrawlerTypeOK, CrawlStands
  <1>3. CASE WriteDraft
    <2>1. CASE NameTaken(FileName[TableId[NextTable]])
      <3>1. crawl' = "none" /\ UNCHANGED <<schema, comparing, undrafted, used, area, made, report, touched, verdict>>
        BY <1>3, <2>1 DEF WriteDraft
      <3>2. FilesIn(area)' = FilesIn(area) /\ report = {}
        BY <1>3, <3>1, FilesStay DEF WriteDraft, CrawlStands
      <3>3. QED
        BY <3>1, <3>2 DEF CrawlerTypeOK, CrawlStands
    <2>2. CASE ~NameTaken(FileName[TableId[NextTable]])
      <3>1. crawl = "writing" /\ undrafted # {}
        BY <1>3 DEF WriteDraft
      <3>2. /\ NextTable \in undrafted
            /\ used' = FilesIn(area)' /\ OneFileEach(Drafted)' /\ CrawlerTypeOK'
        BY <1>3, <2>2, <3>1, DraftWritten
      <3>3. /\ undrafted' = undrafted \ {NextTable}
            /\ crawl' = IF undrafted = {NextTable} THEN "reporting" ELSE "writing"
            /\ UNCHANGED <<schema, made, report>>
        BY <1>3, <2>2 DEF WriteDraft
      <3>4. QED
        BY <3>1, <3>2, <3>3 DEF CrawlStands
    <2>3. QED
      BY <2>1, <2>2
  <1>4. CASE WriteReport
    <2>1. /\ schema' = schema /\ Drafted = schema /\ undrafted' = undrafted /\ made' = made /\ made
          /\ report' = {ReviewOf(TableId[t]) : t \in schema} /\ crawl' = "none"
          /\ comparing' = comparing
      BY <1>4 DEF WriteReport, CrawlStands, Drafted
    <2>2. OneFileEach(schema)'
      BY <1>4, <2>1, FilesStay DEF WriteReport, CrawlStands, OneFileEach
    <2>3. report' \in SUBSET Reviews
      BY <2>1, DraftTypes DEF CrawlerTypeOK
    <2>4. CrawlerTypeOK'
      BY <1>4, <2>3 DEF WriteReport, CrawlerTypeOK
    <2>5. \A t \in schema' : ReviewOf(TableId[t])' \in report'
      BY <2>1 DEF ReviewOf
    <2>6. QED
      BY <2>1, <2>2, <2>4, <2>5 DEF CrawlStands
  <1>5. CASE StopCrawl
    <2>1. FilesIn(area)' = FilesIn(area) /\ (OneFileEach(schema) => OneFileEach(schema)')
      BY <1>5, FilesStay DEF StopCrawl
    <2>2. QED
      BY <1>5, <2>1 DEF StopCrawl, CrawlerTypeOK, CrawlStands, ReviewOf, OneFileEach, FileOf
  <1>6. CASE EditDraft
    <2>1. /\ CrawlerTypeOK' /\ FilesIn(area)' = FilesIn(area)
          /\ OneFileEach(schema) => OneFileEach(schema)'
          /\ OneFileEach(Drafted) => OneFileEach(Drafted)'
      <3>1. PICK S, D : S = schema /\ S = schema' /\ D = Drafted /\ D = Drafted'
        BY <1>6 DEF EditDraft, Drafted
      <3>2. /\ CrawlerTypeOK' /\ FilesIn(area)' = FilesIn(area)
            /\ OneFileEach(S) => OneFileEach(S)'
            /\ OneFileEach(D) => OneFileEach(D)'
        BY <1>6, EditKeepsFiles
      <3>3. QED
        BY <3>1, <3>2 DEF OneFileEach
    <2>2. QED
      BY <1>6, <2>1 DEF EditDraft, CrawlStands, ReviewOf
  <1>7. CASE ClearArea
    BY <1>7 DEF ClearArea, CrawlerTypeOK, CrawlStands, FilesIn
  <1>8. CASE ValidateDrafts \/ UNCHANGED crawlerVars
    <2>1. UNCHANGED <<schema, comparing, crawl, undrafted, used, area, made, report, touched>>
      BY <1>8 DEF ValidateDrafts, crawlerVars
    <2>2. verdict' \in {"none", "valid", "invalid"}
      BY <1>8 DEF ValidateDrafts, crawlerVars, CrawlerTypeOK
    <2>3. /\ FilesIn(area)' = FilesIn(area)
          /\ OneFileEach(schema) => OneFileEach(schema)'
          /\ OneFileEach(Drafted) => OneFileEach(Drafted)'
      BY <2>1 DEF FilesIn, OneFileEach, Holds, ContractFor, FileOf, Drafted
    <2>4. CrawlerTypeOK'
      BY <2>1, <2>2 DEF CrawlerTypeOK
    <2>5. QED
      BY <2>1, <2>3, <2>4 DEF CrawlStands, ReviewOf
  <1>9. QED
    BY <1>1, <1>2, <1>3, <1>4, <1>5, <1>6, <1>7, <1>8 DEF CrawlerNext

LEMMA CrawlerInvariance == CrawlerSpec => []CrawlerInv
  BY CrawlerInitInv, CrawlerStep, PTL DEF CrawlerSpec

(* A report is there only over an area that holds one file for every table  *)
(* of the schema and no other, for any schema (generate_registry writes     *)
(* crawl_report.yaml last and stops at a file name it has used).            *)
THEOREM AreaIsComplete == CrawlerSpec => []ReviewAreaComplete
  <1>1. ASSUME CrawlerInv PROVE ReviewAreaComplete
    <2> SUFFICES ASSUME report # {} PROVE ReviewAreaComplete
      BY DEF ReviewAreaComplete
    <2>1. (\A t \in schema : ReviewOf(TableId[t]) \in report) /\ OneFileEach(schema)
      BY <1>1 DEF CrawlerInv, CrawlStands
    <2>2. IsFiniteSet(schema)
      BY <1>1, CrawlerConstants, FS_Subset DEF CrawlerInv, CrawlerTypeOK
    <2> DEFINE file == [t \in schema |-> FileOf(t)]
    <2>3. file \in Surjection(schema, FilesIn(area)) /\ file \in Injection(schema, FilesIn(area))
      BY <2>1 DEF OneFileEach, Surjection, Injection, IsInjective
    <2>4. Cardinality(FilesIn(area)) = Cardinality(schema)
      BY <2>2, <2>3, FS_Surjection
    <2>5. QED
      BY <2>1, <2>4 DEF ReviewAreaComplete, OneFileEach, FileOf
  <1>2. QED
    BY CrawlerInvariance, <1>1, PTL

(* A crawl never writes over what a curator has written.                    *)
THEOREM CuratedAlwaysSurvives == CrawlerSpec => CuratedSurvives
  <1> DEFINE Kept ==
        \A f \in FilesIn(area) : area[f].body = "curated" /\ area'[f] # area[f] =>
          area'[f] = NoContract \/ area'[f].body = "curated"
  <1>1. ASSUME CrawlerInv, [CrawlerNext]_crawlerVars PROVE [Kept]_crawlerVars
    <2>1. CASE WriteDraft
      <3>1. CASE NameTaken(FileName[TableId[NextTable]])
        BY <2>1, <3>1 DEF WriteDraft
      <3>2. CASE ~NameTaken(FileName[TableId[NextTable]])
        <4>1. \A f \in FilesIn(area) : area'[f] = area[f]
          BY <1>1, <2>1, <3>2, DraftWritten DEF WriteDraft
        <4>2. QED
          BY <4>1
      <3>3. QED
        BY <3>1, <3>2
    <2>2. CASE EditDraft
      BY <1>1, <2>2, EditKeepsFiles
    <2>3. CASE ClearArea
      BY <2>3 DEF ClearArea, FilesIn
    <2>4. CASE StartCrawl \/ DraftTables \/ WriteReport \/ StopCrawl \/ ValidateDrafts
      BY <2>4 DEF StartCrawl, DraftTables, WriteReport, StopCrawl, ValidateDrafts
    <2>5. QED
      BY <1>1, <2>1, <2>2, <2>3, <2>4 DEF CrawlerNext
  <1>2. QED
    BY CrawlerInvariance, <1>1, PTL DEF CrawlerSpec, CuratedSurvives

-----------------------------------------------------------------------------
(* Sample data. A file under its own name is whole from the start; the      *)
(* directory that was cleared fills up with those of this download; and     *)
(* while one is under way the manifest is of an earlier one, or gone.       *)
WholeSince(n, months) ==
  \A m \in Months : trips[m] = IF m \in months THEN [of |-> n, whole |-> TRUE] ELSE NoFile

DownloadStands ==
  /\ \A m \in Months : trips[m] = NoFile \/ trips[m].whole
  /\ \A r \in landed : r[2].whole
  /\ manifest.of <= downloads
  /\ download.at # "none" => manifest.of < downloads
  /\ manifest # NoManifest /\ downloads = manifest.of => WholeSince(manifest.of, manifest.months)
  /\ download.at \in {"fetching", "writing", "listing"} =>
       WholeSince(downloads, download.asked \ download.left)
  /\ download.left \subseteq download.asked
  /\ download.at = "clearing" => download.left = download.asked
  /\ download.at = "writing" => download.left # {}
  /\ download.at = "listing" => download.left = {}

SampleInv == SampleTypeOK /\ DownloadStands

(* At first the directory is empty.                                         *)
LEMMA SampleInitInv == SampleInit => SampleInv
  BY SampleConstants
     DEF SampleInit, SampleInv, SampleTypeOK, DownloadStands, WholeSince, NoneUnderWay, NoManifest,
         NoFile, NoDownload, Files

(* The month that comes next is one of those that are left.                 *)
LEMMA EarliestLeft ==
  ASSUME NEW S \in SUBSET Months, S # {}
  PROVE  Earliest(S) \in S
  <1>1. \E m \in S : \A n \in S : m <= n
    BY HasLeast, SampleConstants
  <1>2. QED
    BY <1>1 DEF Earliest

(* Every step of a download and of an ingest beside it keeps files whole.   *)
LEMMA SampleStep ==
  ASSUME SampleInv, [SampleNext]_sampleVars
  PROVE  SampleInv'
  <1> USE SampleConstants DEF SampleInv, SampleTypeOK, DownloadStands, ingesting
  <1>1. CASE BeginDownload
    <2>1. PICK force \in BOOLEAN, asked \in (SUBSET Months) \ {{}} :
            download' = [at |-> "clearing", asked |-> asked, left |-> asked]
      BY <1>1 DEF BeginDownload
    <2>2. /\ downloads' = downloads + 1 /\ downloads' \in 0..MaxDownloads
          /\ UNCHANGED <<partial, manifest, matched, landed>> /\ trips' = trips
      BY <1>1 DEF BeginDownload
    <2>3. trips' \in [Months -> Files]
      BY <2>2
    <2>4. manifest.of \in Nat
      OBVIOUS
    <2>5. QED
      BY <2>1, <2>2, <2>3, <2>4 DEF WholeSince
  <1>2. CASE RemoveEntry
    <2>1. CASE DirectoryEmpty
      <3>1. /\ download' = [download EXCEPT !.at = "fetching"] /\ download.at = "clearing"
            /\ UNCHANGED <<trips, partial, manifest, downloads, matched, landed>>
        BY <1>2, <2>1 DEF RemoveEntry
      <3>2. \A m \in Months : trips[m] = NoFile
        BY <2>1 DEF DirectoryEmpty, Present
      <3>3. manifest = NoManifest
        BY <2>1 DEF DirectoryEmpty
      <3>4. /\ download' \in [at : {"fetching"}, asked : SUBSET Months, left : SUBSET Months]
            /\ download'.left = download'.asked
        BY <3>1
      <3>5. QED
        BY <3>1, <3>2, <3>3, <3>4 DEF WholeSince
    <2>2. CASE ~DirectoryEmpty
      <3>1. /\ Removed /\ download' = download /\ download.at = "clearing"
            /\ UNCHANGED <<downloads, matched, landed>>
        BY <1>2, <2>2 DEF RemoveEntry
      <3>2. CASE \E m \in Present : trips' = [trips EXCEPT ![m] = NoFile] /\ UNCHANGED <<partial, manifest>>
        <4>1. PICK m \in Present : trips' = [trips EXCEPT ![m] = NoFile]
          BY <3>2
        <4>2. UNCHANGED <<partial, manifest>> /\ NoFile \in Files
          BY <3>2 DEF NoFile, Files, NoDownload
        <4>3. \A o \in Months : trips'[o] = NoFile \/ trips'[o] = trips[o]
          BY <4>1
        <4>4. trips' \in [Months -> Files]
          BY <4>1, <4>2
        <4>5. downloads # manifest.of
          BY <3>1
        <4>6. QED
          BY <3>1, <4>2, <4>3, <4>4, <4>5
      <3>3. CASE \E m \in partial : partial' = partial \ {m} /\ UNCHANGED <<trips, manifest>>
        BY <3>1, <3>3 DEF WholeSince
      <3>4. CASE manifest' = NoManifest /\ UNCHANGED <<trips, partial>>
        BY <3>1, <3>4 DEF NoManifest, NoDownload, WholeSince
      <3>5. QED
        BY <3>1, <3>2, <3>3, <3>4 DEF Removed
    <2>3. QED
      BY <2>1, <2>2
  <1>3. CASE OpenPartial
    <2>1. UNCHANGED <<trips, manifest, downloads, matched, landed>> /\ download.at = "fetching"
      BY <1>3 DEF OpenPartial
    <2>2. CASE download.left = {}
      BY <1>3, <2>1, <2>2 DEF OpenPartial, WholeSince
    <2>3. CASE download.left # {}
      <3>1. Earliest(download.left) \in Months
        BY <2>3, EarliestLeft
      <3>2. QED
        BY <1>3, <2>1, <2>3, <3>1 DEF OpenPartial, WholeSince
    <2>4. QED
      BY <2>2, <2>3
  <1>4. CASE ReplaceByPartial
    <2>1. PICK m \in download.left : m = Earliest(download.left)
      BY <1>4, EarliestLeft DEF ReplaceByPartial
    <2>2. /\ download.at = "writing" /\ UNCHANGED <<manifest, downloads, matched, landed>>
          /\ trips' = [trips EXCEPT ![m] = [of |-> downloads, whole |-> TRUE]]
          /\ partial' = partial \ {m}
          /\ download' = [download EXCEPT !.at = "fetching", !.left = @ \ {m}]
      BY <1>4, <2>1 DEF ReplaceByPartial
    <2>3. m \in Months /\ [of |-> downloads, whole |-> TRUE] \in Files
      BY DEF Files
    <2>4. trips' \in [Months -> Files]
      BY <2>2, <2>3
    <2>5. \A o \in Months :
            trips'[o] = IF o \in download.asked \ (download.left \ {m})
                        THEN [of |-> downloads, whole |-> TRUE] ELSE NoFile
      BY <2>2, <2>3 DEF WholeSince
    <2>6. /\ download'.at = "fetching" /\ download'.asked = download.asked
          /\ download'.left = download.left \ {m}
          /\ download' \in [at : {"fetching"}, asked : SUBSET Months, left : SUBSET Months]
      BY <2>2
    <2>7. \A o \in Months : trips'[o] = NoFile \/ trips'[o].whole
      BY <2>2
    <2>8. SampleTypeOK'
      BY <2>2, <2>4, <2>6
    <2>9. DownloadStands'
      <3>1. WholeSince(downloads, download.asked \ download.left)'
        BY <2>2, <2>5, <2>6 DEF WholeSince
      <3>2. downloads' # manifest'.of /\ manifest'.of < downloads'
        BY <2>2
      <3>3. download'.left \subseteq download'.asked
        BY <2>6
      <3>4. QED
        BY <2>2, <2>6, <2>7, <3>1, <3>2, <3>3
    <2>10. QED
      BY <2>8, <2>9
  <1>5. CASE WriteDataManifest
    <2>1. /\ download.at = "listing" /\ download.left = {} /\ download' = NoneUnderWay
          /\ manifest' = [of |-> downloads, months |-> download.asked]
          /\ UNCHANGED <<trips, partial, downloads, matched, landed>>
      BY <1>5 DEF WriteDataManifest
    <2>2. \A m \in Months :
            trips'[m] = IF m \in download.asked THEN [of |-> downloads, whole |-> TRUE] ELSE NoFile
      BY <2>1 DEF WholeSince
    <2>3. manifest'.of = downloads /\ manifest'.months = download.asked
      BY <2>1
    <2>4. QED
      BY <2>1, <2>2, <2>3 DEF NoneUnderWay, WholeSince
  <1>6. CASE FailDownload
    <2>1. /\ download' = NoneUnderWay /\ partial' \in SUBSET Months
          /\ UNCHANGED <<trips, manifest, downloads, matched, landed>>
      BY <1>6 DEF FailDownload
    <2>2. QED
      BY <2>1 DEF NoneUnderWay, WholeSince
  <1>7. CASE MatchFiles
    BY <1>7 DEF MatchFiles, WholeSince, Present
  <1>8. CASE ReadFile
    <2>1. PICK m \in matched : m = Earliest(matched)
      BY <1>8, EarliestLeft DEF ReadFile
    <2>2. UNCHANGED <<trips, partial, manifest, download, downloads>>
      BY <1>8 DEF ReadFile
    <2>3. landed' \in SUBSET (Months \X Files) /\ matched' \in SUBSET Months
      <3>1. <<m, trips[m]>> \in Months \X Files
        OBVIOUS
      <3>2. /\ landed' = {} \/ landed' = landed \cup {<<m, trips[m]>>}
            /\ matched' = {} \/ matched' = matched \ {m}
        BY <1>8, <2>1 DEF ReadFile
      <3>3. QED
        BY <3>1, <3>2
    <2>4. \A r \in landed' : r[2].whole
      BY <1>8, <2>1 DEF ReadFile
    <2>5. QED
      BY <2>2, <2>3, <2>4 DEF WholeSince
  <1>9. CASE UNCHANGED sampleVars
    BY <1>9 DEF sampleVars, WholeSince
  <1>10. QED
    BY <1>1, <1>2, <1>3, <1>4, <1>5, <1>6, <1>7, <1>8, <1>9 DEF SampleNext

(* What the manifest tells of is whole, and so is what an ingest lands, for *)
(* any months and any number of downloads (_download writes into a .partial *)
(* and renames it).                                                         *)
THEOREM WholeFiles == SampleSpec => []FilesAreWhole
  <1>1. SampleInv => FilesAreWhole
    BY DEF SampleInv, DownloadStands, WholeSince, FilesAreWhole
  <1>2. QED
    BY SampleInitInv, SampleStep, <1>1, PTL DEF SampleSpec

-----------------------------------------------------------------------------
(* The state directory. Who has the runtime history open holds DuckDB's     *)
(* lock on it.                                                              *)
USE StateConstants

Kept == {"loading", "serving", "between", "session", "done"}

\* Who has which file follows from where the processes are, and a file that
\* somebody may write is theirs alone.
FilesFollow ==
  /\ history = {p \in Holders : at[p] \in Kept}
  /\ writing = {p \in Commands \cup Scripts : at[p] = "session"}
  /\ reading = {p \in McpServers : at[p] = "session"}
FilesGuarded ==
  /\ \A p, q \in history : p = q
  /\ \A p \in writing : writing = {p} /\ reading = {}
ScriptsPlaced == \A p \in Scripts : at[p] \in {"off", "session"}

StateInv ==
  /\ StateTypeOK /\ FilesFollow /\ FilesGuarded /\ ScriptsPlaced
  /\ refused \subseteq Scripts

(* At first nothing runs and nothing is open.                               *)
LEMMA StateInitInv == StateInit => StateInv
  <1> SUFFICES ASSUME StateInit PROVE StateInv
    OBVIOUS
  <1>1. 0 \in 0..Sessions
    OBVIOUS
  <1>2. StateTypeOK
    BY <1>1 DEF StateInit, StateTypeOK
  <1>3. \A p \in Processes : at[p] = "off"
    BY DEF StateInit
  <1>4. FilesFollow
    BY <1>3 DEF StateInit, FilesFollow, Processes, Holders, Kept
  <1>5. QED
    BY <1>2, <1>3, <1>4 DEF StateInit, StateInv, FilesGuarded, ScriptsPlaced, Processes

(* A process that moves without a session on the warehouse, and keeps or    *)
(* lacks the runtime history as before.                                     *)
LEMMA MovesAside ==
  ASSUME StateInv, NEW p \in Holders, NEW to \in {"off", "opening", "loading", "serving", "between", "done"},
         at[p] # "session", at' = [at EXCEPT ![p] = to],
         UNCHANGED <<history, writing, reading>>, to \in Kept <=> at[p] \in Kept
  PROVE  FilesFollow' /\ FilesGuarded' /\ ScriptsPlaced'
  BY DEF StateInv, StateTypeOK, FilesFollow, FilesGuarded, ScriptsPlaced, Processes, Holders, Kept

(* Where p goes, the others stay.                                           *)
LEMMA StateStep ==
  ASSUME StateInv, [StateNext]_stateVars
  PROVE  StateInv'
  <1> USE DEF StateInv, Moves
  <1>1. ASSUME NEW p \in Processes, Launch(p) PROVE StateInv'
    <2>1. StateTypeOK'
      BY <1>1 DEF Launch, StateTypeOK
    <2>2. QED
      BY <1>1, <2>1, MovesAside DEF Launch, Kept
  <1>2. ASSUME NEW p \in Processes, OpenRuntime(p) PROVE StateInv'
    <2>1. /\ p \in Holders /\ at[p] = "opening"
          /\ UNCHANGED <<writing, reading, built, open, refused>>
      BY <1>2 DEF OpenRuntime
    <2>2. CASE HistoryFree
      <3>1. history' = {p} /\ history = {} /\ at' = [at EXCEPT ![p] = "loading"]
        BY <1>2, <2>2 DEF OpenRuntime, HistoryFree
      <3>2. StateTypeOK'
        BY <2>1, <3>1 DEF StateTypeOK
      <3>3. FilesFollow'
        BY <2>1, <3>1 DEF FilesFollow, StateTypeOK, Processes, Holders, Kept
      <3>4. QED
        BY <2>1, <3>1, <3>2, <3>3 DEF FilesGuarded, ScriptsPlaced, StateTypeOK, Processes, Holders
    <2>3. CASE ~HistoryFree
      <3>1. UNCHANGED history /\ at' = [at EXCEPT ![p] = "off"]
        BY <1>2, <2>3 DEF OpenRuntime
      <3>2. StateTypeOK'
        BY <2>1, <3>1 DEF StateTypeOK
      <3>3. QED
        BY <2>1, <3>1, <3>2, MovesAside DEF Kept
    <2>4. QED
      BY <2>2, <2>3
  <1>3. ASSUME NEW p \in Processes, Settle(p) PROVE StateInv'
    <2>1. /\ p \in Holders /\ at[p] = "loading"
          /\ \/ at' = [at EXCEPT ![p] = "between"]
             \/ at' = [at EXCEPT ![p] = "serving"]
          /\ UNCHANGED <<history, writing, reading, built, refused>>
      BY <1>3 DEF Settle
    <2>2. open' \in [Commands -> 0..Sessions]
      <3>1. CASE p \in Commands
        <4>1. PICK n \in 1..Sessions : open' = [open EXCEPT ![p] = n]
          BY <1>3, <3>1 DEF Settle
        <4>2. n \in 0..Sessions
          OBVIOUS
        <4>3. QED
          BY <4>1, <4>2 DEF StateTypeOK
      <3>2. CASE p \notin Commands
        BY <1>3, <3>2 DEF Settle, StateTypeOK
      <3>3. QED
        BY <3>1, <3>2
    <2>3. StateTypeOK'
      BY <2>1, <2>2 DEF StateTypeOK
    <2>4. QED
      BY <2>1, <2>3, MovesAside DEF Kept
  <1>4. ASSUME NEW p \in Processes, BeginSession(p) PROVE StateInv'
    <2>1. /\ p \in Commands /\ at[p] = "between" /\ open[p] \in 0..Sessions /\ open[p] > 0
          /\ UNCHANGED <<history, reading, refused>>
          /\ open' = [open EXCEPT ![p] = IF WarehouseWritable THEN @ - 1 ELSE 0]
      BY <1>4 DEF BeginSession, StateTypeOK
    <2>2. open' \in [Commands -> 0..Sessions]
      BY <2>1 DEF StateTypeOK
    <2>3. CASE WarehouseWritable
      <3>1. /\ at' = [at EXCEPT ![p] = "session"] /\ writing' = {p} /\ built' = TRUE
            /\ writing = {} /\ reading = {}
        BY <1>4, <2>3 DEF BeginSession, WarehouseWritable
      <3>2. StateTypeOK'
        BY <2>1, <2>2, <3>1 DEF StateTypeOK
      <3>3. FilesFollow'
        BY <2>1, <3>1 DEF FilesFollow, StateTypeOK, Processes, Holders, Kept
      <3>4. QED
        BY <2>1, <3>1, <3>2, <3>3 DEF FilesGuarded, ScriptsPlaced, StateTypeOK, Processes, Holders
    <2>4. CASE ~WarehouseWritable
      <3>1. at' = [at EXCEPT ![p] = "done"] /\ UNCHANGED <<writing, built>>
        BY <1>4, <2>4 DEF BeginSession
      <3>2. StateTypeOK'
        BY <2>1, <2>2, <3>1 DEF StateTypeOK
      <3>3. p \in Holders
        BY <2>1 DEF Holders
      <3>4. QED
        BY <2>1, <3>1, <3>2, <3>3, MovesAside DEF Kept
    <2>5. QED
      BY <2>3, <2>4
  <1>5. ASSUME NEW p \in Processes, EndSession(p) PROVE StateInv'
    <2>1. /\ p \in Commands /\ at[p] = "session" /\ writing' = writing \ {p}
          /\ at' = [at EXCEPT ![p] = "done"] \/ at' = [at EXCEPT ![p] = "between"]
          /\ UNCHANGED <<history, reading, built, open, refused>>
      BY <1>5 DEF EndSession
    <2>2. StateTypeOK'
      BY <2>1 DEF StateTypeOK
    <2>3. FilesFollow'
      BY <2>1 DEF FilesFollow, StateTypeOK, Processes, Holders, Kept
    <2>4. QED
      BY <2>1, <2>2, <2>3 DEF FilesGuarded, ScriptsPlaced, StateTypeOK, Processes, Holders
  <1>6. ASSUME NEW p \in Processes, BeginScript(p) PROVE StateInv'
    <2>1. /\ p \in Scripts /\ at[p] = "off" /\ writing' = {p} /\ built' = TRUE
          /\ writing = {} /\ reading = {}
          /\ at' = [at EXCEPT ![p] = "session"]
          /\ UNCHANGED <<history, reading, open, refused>>
      BY <1>6 DEF BeginScript, WarehouseWritable
    <2>2. StateTypeOK'
      BY <2>1 DEF StateTypeOK
    <2>3. FilesFollow'
      BY <2>1 DEF FilesFollow, StateTypeOK, Processes, Holders, Kept
    <2>4. QED
      BY <2>1, <2>2, <2>3 DEF FilesGuarded, ScriptsPlaced, StateTypeOK, Processes, Holders
  <1>7. ASSUME NEW p \in Processes, EndScript(p) PROVE StateInv'
    <2>1. /\ p \in Scripts /\ at[p] = "session" /\ writing' = writing \ {p}
          /\ at' = [at EXCEPT ![p] = "off"]
          /\ UNCHANGED <<history, reading, built, open, refused>>
      BY <1>7 DEF EndScript
    <2>2. StateTypeOK'
      BY <2>1 DEF StateTypeOK
    <2>3. FilesFollow'
      BY <2>1 DEF FilesFollow, StateTypeOK, Processes, Holders, Kept
    <2>4. QED
      BY <2>1, <2>2, <2>3 DEF FilesGuarded, ScriptsPlaced, StateTypeOK, Processes, Holders
  <1>8. ASSUME NEW p \in Processes, BeginDryRun(p) PROVE StateInv'
    <2>1. /\ p \in McpServers /\ at[p] = "serving"
          /\ UNCHANGED <<history, writing, built, open>>
      BY <1>8 DEF BeginDryRun
    <2>2. CASE WarehouseReadable
      <3>1. /\ at' = [at EXCEPT ![p] = "session"] /\ reading' = reading \cup {p}
            /\ UNCHANGED refused /\ writing = {}
        BY <1>8, <2>2 DEF BeginDryRun, WarehouseReadable
      <3>2. StateTypeOK'
        BY <2>1, <3>1 DEF StateTypeOK
      <3>3. FilesFollow'
        BY <2>1, <3>1 DEF FilesFollow, StateTypeOK, Processes, Holders, Kept
      <3>4. QED
        BY <2>1, <3>1, <3>2, <3>3 DEF FilesGuarded, ScriptsPlaced, StateTypeOK, Processes, Holders
    <2>3. CASE ~WarehouseReadable
      <3>1. refused' = refused \cup writing /\ UNCHANGED <<at, reading>>
        BY <1>8, <2>3 DEF BeginDryRun
      <3>2. p \in history
        BY <2>1 DEF FilesFollow, Holders, Kept
      <3>3. ASSUME NEW q \in writing PROVE q \in Scripts
        <4>1. SUFFICES ASSUME q \in Commands PROVE FALSE
          BY DEF StateTypeOK
        <4>2. q \in history
          BY <4>1 DEF FilesFollow, Holders, Kept
        <4>3. QED
          BY <2>1, <3>2, <4>1, <4>2 DEF FilesGuarded
      <3>4. StateTypeOK' /\ refused' \subseteq Scripts
        BY <2>1, <3>1, <3>3 DEF StateTypeOK
      <3>5. QED
        BY <2>1, <3>1, <3>4 DEF FilesFollow, FilesGuarded, ScriptsPlaced
    <2>4. QED
      BY <2>2, <2>3
  <1>9. ASSUME NEW p \in Processes, EndDryRun(p) PROVE StateInv'
    <2>1. /\ p \in McpServers /\ at[p] = "session" /\ reading' = reading \ {p}
          /\ at' = [at EXCEPT ![p] = "serving"]
          /\ UNCHANGED <<history, writing, built, open, refused>>
      BY <1>9 DEF EndDryRun
    <2>2. StateTypeOK'
      BY <2>1 DEF StateTypeOK
    <2>3. FilesFollow'
      BY <2>1 DEF FilesFollow, StateTypeOK, Processes, Holders, Kept
    <2>4. QED
      BY <2>1, <2>2, <2>3 DEF FilesGuarded, ScriptsPlaced, StateTypeOK, Processes, Holders
  <1>10. ASSUME NEW p \in Processes, Leave(p) PROVE StateInv'
    <2>1. /\ at' = [at EXCEPT ![p] = "off"] /\ history' = history \ {p}
          /\ writing' = writing \ {p} /\ reading' = reading \ {p}
          /\ UNCHANGED <<built, refused>>
      BY <1>10 DEF Leave
    <2>2. open' \in [Commands -> 0..Sessions]
      BY <1>10 DEF Leave, StateTypeOK
    <2>3. StateTypeOK'
      BY <2>1, <2>2 DEF StateTypeOK
    <2>4. FilesFollow'
      BY <2>1 DEF FilesFollow, StateTypeOK, Processes, Holders, Kept
    <2>5. QED
      BY <2>1, <2>3, <2>4 DEF FilesGuarded, ScriptsPlaced, StateTypeOK, Processes, Holders
  <1>11. CASE UNCHANGED stateVars
    BY <1>11 DEF stateVars, StateTypeOK, FilesFollow, FilesGuarded, ScriptsPlaced
  <1>12. QED
    BY <1>1, <1>2, <1>3, <1>4, <1>5, <1>6, <1>7, <1>8, <1>9, <1>10, <1>11 DEF StateNext

(* No dry run ever sees an invocation half-done, and only scripts stand in  *)
(* its way: the lock on the runtime history orders servers and commands     *)
(* (build_runtime_components, PipelineAuthoringService.dry_run).            *)
THEOREM DryRunsAreSettled == StateSpec => [](StateTypeOK /\ DryRunsSeeSettledTables)
  <1>1. ASSUME StateInv PROVE StateTypeOK /\ DryRunsSeeSettledTables
    <2> USE <1>1 DEF StateInv
    <2>1. ASSUME NEW p \in McpServers, NEW q \in Commands, p \in reading, HalfDone(q) PROVE FALSE
      <3>1. p \in history /\ q \in history
        BY <2>1 DEF FilesFollow, HalfDone, Holders, Kept
      <3>2. QED
        BY <2>1, <3>1 DEF FilesGuarded
    <2>2. QED
      BY <2>1 DEF DryRunsSeeSettledTables, FilesGuarded
  <1>2. QED
    BY StateInitInv, StateStep, <1>1, PTL DEF StateSpec
=============================================================================
