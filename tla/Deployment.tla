------------------------------ MODULE Deployment ------------------------------
(***************************************************************************)
(* deploy_pipeline_to_dev and the run_dev_validation it calls: a profile is *)
(* run, its outcome audited, the artifact digested, a manifest written and  *)
(* the deployment audited, while people edit the artifact and processes     *)
(* stop. The unit profile runs the repository's tests, which fail when the  *)
(* artifact is bad; the registry profile looks at the loaded registry only. *)
(***************************************************************************)
EXTENDS Integers, FiniteSets

CONSTANTS
  Deployers,   \* processes with an EngineeringService
  Versions,    \* contents of the artifact
  Good,        \* those the repository's tests pass with
  FirstVersion,
  Gone,        \* there is no artifact
  MaxCalls     \* bound: calls of deploy_pipeline_to_dev

ASSUME DeploymentConstants ==
  /\ Good \subseteq Versions /\ FirstVersion \in Versions
  /\ Gone \notin Versions
  /\ MaxCalls \in Nat

VARIABLES
  artifact,    \* what the artifact file holds
  attempt,     \* attempt[c]: where c is, in which call, with what in hand
  attempts,    \* calls begun
  manifests,   \* deployment-*.json in the state directory
  log          \* engineering-audit.jsonl, the records about deployments

deploymentVars == <<artifact, attempt, attempts, manifests, log>>

Profiles == {"registry", "unit"}
Held == Versions \cup {Gone}

\* edited is history: the artifact was touched since the tests read it.
Attempts == [at : {"idle", "testing", "tested", "validated", "digested", "written"},
             call : 0..MaxCalls, profile : Profiles, ok : BOOLEAN, digest : Held,
             edited : BOOLEAN]
Idle == [at |-> "idle", call |-> 0, profile |-> "unit", ok |-> FALSE, digest |-> Gone,
         edited |-> FALSE]
Manifests == [call : 1..MaxCalls, profile : Profiles, digest : Versions, edited : BOOLEAN]
AuditEntries ==
  [action : {"validation"}, call : 1..MaxCalls, ok : BOOLEAN]
    \cup [action : {"deployment"}, call : 1..MaxCalls, digest : Versions]

DeploymentTypeOK ==
  /\ artifact \in Held
  /\ attempt \in [Deployers -> Attempts]
  /\ attempts \in 0..MaxCalls
  /\ manifests \in SUBSET Manifests
  /\ log \in SUBSET AuditEntries

DeploymentInit ==
  /\ artifact = FirstVersion
  /\ attempt = [c \in Deployers |-> Idle]
  /\ attempts = 0
  /\ manifests = {} /\ log = {}

At(c, where) == attempt[c].at = where

\* A request for DEV whose artifact exists, inside the repository and of an
\* approved type; every other one is turned down and changes nothing.
Request(c) ==
  /\ At(c, "idle") /\ attempts < MaxCalls
  /\ artifact # Gone
  /\ \E profile \in Profiles :
       attempt' = [attempt EXCEPT ![c] =
         [Idle EXCEPT !.at = "testing", !.call = attempts + 1, !.profile = profile]]
  /\ attempts' = attempts + 1
  /\ UNCHANGED <<artifact, manifests, log>>

\* The profile runs to its end; subprocess.run raises after 120 s, past the
\* audit record.
RunProfile(c) ==
  /\ At(c, "testing")
  /\ attempt' = [attempt EXCEPT ![c].at = "tested",
                   ![c].ok = (attempt[c].profile = "registry" \/ artifact \in Good)]
  /\ UNCHANGED <<artifact, attempts, manifests, log>>

TimeOut(c) ==
  /\ At(c, "testing") /\ attempt[c].profile = "unit"
  /\ attempt' = [attempt EXCEPT ![c] = Idle]
  /\ UNCHANGED <<artifact, attempts, manifests, log>>

AuditValidationAnyway(c) ==   \* a slip: the status is not looked at
  /\ At(c, "tested")
  /\ log' = log \cup {[action |-> "validation", call |-> attempt[c].call, ok |-> attempt[c].ok]}
  /\ attempt' = [attempt EXCEPT ![c].at = "validated"]
  /\ UNCHANGED <<artifact, attempts, manifests>>

AuditValidation(c) ==
  /\ At(c, "tested")
  /\ log' = log \cup {[action |-> "validation", call |-> attempt[c].call, ok |-> attempt[c].ok]}
  /\ attempt' = [attempt EXCEPT ![c] = IF @.ok THEN [@ EXCEPT !.at = "validated"] ELSE Idle]
  /\ UNCHANGED <<artifact, attempts, manifests>>

\* read_bytes: the second time the file is read.
Digest(c) ==
  /\ At(c, "validated")
  /\ attempt' = [attempt EXCEPT ![c] =
       IF artifact = Gone THEN Idle ELSE [@ EXCEPT !.at = "digested", !.digest = artifact]]
  /\ UNCHANGED <<artifact, attempts, manifests, log>>

WriteManifest(c) ==
  /\ At(c, "digested")
  /\ manifests' = manifests \cup
       {[call |-> attempt[c].call, profile |-> attempt[c].profile,
         digest |-> attempt[c].digest, edited |-> attempt[c].edited]}
  /\ attempt' = [attempt EXCEPT ![c].at = "written"]
  /\ UNCHANGED <<artifact, attempts, log>>

AuditDeployment(c) ==
  /\ At(c, "written")
  /\ log' = log \cup {[action |-> "deployment", call |-> attempt[c].call,
                       digest |-> attempt[c].digest]}
  /\ attempt' = [attempt EXCEPT ![c] = Idle]
  /\ UNCHANGED <<artifact, attempts, manifests>>

\* The process dies or a write raises; another one starts in its place.
Abandon(c) ==
  /\ ~At(c, "idle")
  /\ attempt' = [attempt EXCEPT ![c] = Idle]
  /\ UNCHANGED <<artifact, attempts, manifests, log>>

\* Somebody edits the artifact; what is digested afterwards is not what was tested.
Edit ==
  /\ artifact' \in Held \ {artifact}
  /\ attempt' = [c \in Deployers |->
       IF attempt[c].at \in {"tested", "validated"} THEN [attempt[c] EXCEPT !.edited = TRUE]
       ELSE attempt[c]]
  /\ UNCHANGED <<attempts, manifests, log>>

DeploymentNext ==
  \/ Edit
  \/ \E c \in Deployers :
       \/ Request(c) \/ RunProfile(c) \/ TimeOut(c) \/ AuditValidation(c)
       \/ Digest(c) \/ WriteManifest(c) \/ AuditDeployment(c) \/ Abandon(c)

DeploymentSpec == DeploymentInit /\ [][DeploymentNext]_deploymentVars

-----------------------------------------------------------------------------
Validated(n) == [action |-> "validation", call |-> n, ok |-> TRUE] \in log

(* A manifest is there only after its call's validation succeeded and was   *)
(* audited; under the unit profile it is of a content the tests pass with,  *)
(* unless the artifact was edited between the tests and the digest; and a   *)
(* deployment is audited only with its manifest in place                    *)
(* (milestone-6-ai-native-engineering.md, "records a content-hashed          *)
(* deployment manifest only after a configured validation profile           *)
(* succeeds").                                                              *)
DeploymentHoldsUp ==
  /\ \A x \in manifests :
       /\ Validated(x.call)
       /\ x.profile = "unit" /\ ~x.edited => x.digest \in Good
  /\ \A e \in log : e.action = "deployment" =>
       \E x \in manifests : x.call = e.call /\ x.digest = e.digest
=============================================================================
