------------------------------ MODULE Authoring ------------------------------
(***************************************************************************)
(* PipelineAuthoringService: an agent offers a spec and perhaps a contract *)
(* to a server, which validates them against the project it loaded when it *)
(* started, tries them in a sandbox under a deadline, and writes a package *)
(* that a reviewer may copy to the repository, where CI validates the      *)
(* whole project again. The repository moves on while servers run, and a   *)
(* server may stop between any two files of a package.                     *)
(*                                                                         *)
(* A project that can be ordered is one without a tangle, which is what    *)
(* PipelineGraph shows of execution_order.                                 *)
(***************************************************************************)
EXTENDS Integers, FiniteSets

CONSTANTS
  Servers,       \* MCP server processes on one repository
  RepoIds,       \* pipeline ids
  RepoDatasets,  \* dataset ids
  FirstProject,  \* the project in the repository at first
  FirstContracts,\* datasets with a contract in the registry at first
  Offers,        \* specs that agents offer
  MaxPackages,   \* bound: directories under proposals/
  Statements,    \* bound: statements of a dry run
  NoOffer

RepoSpecs == [id : RepoIds, output : RepoDatasets, inputs : SUBSET RepoDatasets]
Projects == SUBSET RepoSpecs

\* What may come as contract_yaml: nothing, a contract as proposals need it,
\* or one with another id or layer, one that certifies or breaks the registry.
ContractTexts == {"none", "proper", "improper"}

ASSUME AuthoringConstants ==
  /\ Offers \subseteq RepoSpecs
  /\ FirstProject \in Projects
  /\ FirstContracts \subseteq RepoDatasets
  /\ Statements \in Nat \ {0} /\ MaxPackages \in Nat
  /\ NoOffer \notin Offers

VARIABLES
  repository,  \* specs in pipelines/specs
  registry,    \* datasets with a contract in registry/datasets
  known,       \* known[s]: the project s loaded at start
  governed,    \* governed[s]: the contracts it loaded
  step,        \* where s is with the call it serves
  call,        \* call[s]: what that call is about and how far its dry run is
  package,     \* package[n]: the files of a proposal, what and when it is of
  audited      \* packages with a submit_pipeline_proposal record

authoringVars == <<repository, registry, known, governed, step, call, package, audited>>
loaded == <<repository, registry, known, governed>>
queue == <<package, audited>>

AuthoringSteps == {"idle", "validating", "opening", "between", "statement", "passed",
                   "spec", "contract", "review", "audit", "down"}

\* left: statements still to execute; deadline: the timer; lost: its interrupt
\* fell between two statements; writes: the package it writes to.
Calls == [offer : Offers \cup {NoOffer}, text : ContractTexts, left : 0..Statements,
          deadline : {"off", "armed"}, lost : BOOLEAN, writes : 0..MaxPackages]
NoCall == [offer |-> NoOffer, text |-> "none", left |-> 0, deadline |-> "off",
           lost |-> FALSE, writes |-> 0]

PackageFiles == {"pipeline.yaml", "contract.yaml", "review.json"}
Packages == [files : SUBSET PackageFiles, spec : Offers \cup {NoOffer}, text : ContractTexts,
             project : Projects, contracts : SUBSET RepoDatasets]
NoPackage == [files |-> {}, spec |-> NoOffer, text |-> "none", project |-> {}, contracts |-> {}]

AuthoringTypeOK ==
  /\ repository \in Projects /\ registry \in SUBSET RepoDatasets
  /\ known \in [Servers -> Projects] /\ governed \in [Servers -> SUBSET RepoDatasets]
  /\ step \in [Servers -> AuthoringSteps]
  /\ call \in [Servers -> Calls]
  /\ package \in [1..MaxPackages -> Packages]
  /\ audited \in SUBSET (1..MaxPackages)

-----------------------------------------------------------------------------
Outputs(pr) == {sp.output : sp \in pr}
Reads(pr, sp) == {other \in pr : other.output \in sp.inputs}
RepoTangle(pr) == \E C \in (SUBSET pr) \ {{}} : \A sp \in C : Reads(C, sp) # {}

\* spec_errors
Sound(sp, available, contracts) ==
  /\ sp.output \in contracts
  /\ sp.output \notin sp.inputs
  /\ sp.inputs \subseteq available

\* validate_pipeline_project, as CI runs it on the repository
CIAccepts(pr, contracts) ==
  /\ \A a, b \in pr : a.id = b.id \/ a.output = b.output => a = b
  /\ \A sp \in pr : Sound(sp, Outputs(pr), contracts)
  /\ ~RepoTangle(pr)

ASSUME FirstProjectSound == CIAccepts(FirstProject, FirstContracts)

\* The project after promotion: the proposal replaces the current producer.
Promoted(pr, sp) == {other \in pr : other.output # sp.output /\ other.id # sp.id} \cup {sp}

\* _parse: a contract for a dataset that has one is refused.
ContractsWith(contracts, sp, txt) == IF txt = "none" THEN contracts ELSE contracts \cup {sp.output}
TextAllowed(contracts, sp, txt) ==
  txt = "none" \/ (txt = "proper" /\ sp.output \notin contracts)

IdIsFree(pr, sp) == \A other \in pr : other.id = sp.id => other.output = sp.output

ProposalValidAsItStands(pr, contracts, sp, txt) ==   \* a slip: orders the project without it
  /\ TextAllowed(contracts, sp, txt)
  /\ IdIsFree(pr, sp)
  /\ Sound(sp, Outputs(pr), ContractsWith(contracts, sp, txt))
  /\ ~RepoTangle(pr)

\* validate_proposal
ProposalValid(pr, contracts, sp, txt) ==
  /\ TextAllowed(contracts, sp, txt)
  /\ IdIsFree(pr, sp)
  /\ Sound(sp, Outputs(pr), ContractsWith(contracts, sp, txt))
  /\ ~RepoTangle(Promoted(pr, sp))

-----------------------------------------------------------------------------
AuthoringInit ==
  /\ repository = FirstProject /\ registry = FirstContracts
  /\ known = [s \in Servers |-> FirstProject]
  /\ governed = [s \in Servers |-> FirstContracts]
  /\ step = [s \in Servers |-> "idle"]
  /\ call = [s \in Servers |-> NoCall]
  /\ package = [n \in 1..MaxPackages |-> NoPackage]
  /\ audited = {}

Goes(s, from, to) == step[s] = from /\ step' = [step EXCEPT ![s] = to]
Ends(s, from) ==
  /\ Goes(s, from, "idle")
  /\ call' = [call EXCEPT ![s] = NoCall]

\* An agent calls submit_proposal, or dry_run, which ends earlier.
Call(s) ==
  /\ Goes(s, "idle", "validating")
  /\ \E sp \in Offers, txt \in ContractTexts :
       call' = [call EXCEPT ![s] = [NoCall EXCEPT !.offer = sp, !.text = txt]]
  /\ UNCHANGED <<loaded, queue>>

Accept(s) ==
  /\ Goes(s, "validating", "opening")
  /\ ProposalValid(known[s], governed[s], call[s].offer, call[s].text)
  /\ UNCHANGED <<loaded, call, queue>>

\* The proposal is invalid, or the warehouse is missing, busy or lacks an input.
TurnAway(s) ==
  /\ \/ /\ Ends(s, "validating")
        /\ ~ProposalValid(known[s], governed[s], call[s].offer, call[s].text)
     \/ Ends(s, "opening")
  /\ UNCHANGED <<loaded, queue>>

StartTrial(s) ==
  /\ Goes(s, "opening", "between")
  /\ call' = [call EXCEPT ![s].left = Statements, ![s].deadline = "armed"]
  /\ UNCHANGED <<loaded, queue>>

ExecuteUntimed(s) ==   \* a slip: the timer is cancelled too early
  /\ call[s].left > 0
  /\ Goes(s, "between", "statement")
  /\ call' = [call EXCEPT ![s].left = @ - 1, ![s].deadline = "off"]
  /\ UNCHANGED <<loaded, queue>>

Execute(s) ==
  /\ call[s].left > 0
  /\ Goes(s, "between", "statement")
  /\ call' = [call EXCEPT ![s].left = @ - 1]
  /\ UNCHANGED <<loaded, queue>>

\* A statement ends, or raises and ends the trial with it.
EndStatement(s) ==
  /\ \/ Goes(s, "statement", "between") /\ UNCHANGED call
     \/ Ends(s, "statement")
  /\ UNCHANGED <<loaded, queue>>

\* connection.interrupt() stops the statement under way; with none under way
\* it is forgotten when the next one starts.
Interrupt(s) ==
  /\ call[s].deadline = "armed"
  /\ \/ Ends(s, "statement")
     \/ /\ step[s] = "between"
        /\ call' = [call EXCEPT ![s].deadline = "off", ![s].lost = TRUE]
        /\ UNCHANGED step
  /\ UNCHANGED <<loaded, queue>>

\* All statements are through and the timer is cancelled: the gates have
\* passed or not.
EndTrial(s) ==
  /\ call[s].left = 0
  /\ \/ Goes(s, "between", "passed") /\ call' = [call EXCEPT ![s].deadline = "off"]
     \/ Ends(s, "between")
  /\ UNCHANGED <<loaded, queue>>

-----------------------------------------------------------------------------
AnswerDryRun(s) ==
  /\ Ends(s, "passed")
  /\ UNCHANGED <<loaded, queue>>

Begun == {n \in 1..MaxPackages : package[n].spec # NoOffer}

MakeDirectory(s) ==
  /\ Goes(s, "passed", "spec")
  /\ \E n \in (1..MaxPackages) \ Begun :
       /\ \A m \in 1..(n - 1) : m \in Begun
       /\ package' = [package EXCEPT ![n].spec = call[s].offer, ![n].text = call[s].text,
                        ![n].project = known[s], ![n].contracts = governed[s]]
       /\ call' = [call EXCEPT ![s].writes = n]
  /\ UNCHANGED <<loaded, audited>>

Adds(s, file) ==
  /\ package' = [package EXCEPT ![call[s].writes].files = @ \cup {file}]
  /\ UNCHANGED <<loaded, call, audited>>

WriteSpec(s) ==
  /\ Goes(s, "spec", IF call[s].text = "none" THEN "review" ELSE "contract")
  /\ Adds(s, "pipeline.yaml")

WriteContract(s) == Goes(s, "contract", "review") /\ Adds(s, "contract.yaml")

WriteReview(s) == Goes(s, "review", "audit") /\ Adds(s, "review.json")

\* A slip: the review before the contract.
WriteReviewEarly(s) ==
  \/ WriteSpec(s)
  \/ Goes(s, "contract", "review") /\ Adds(s, "review.json")
  \/ /\ Goes(s, "review", "audit")
     /\ Adds(s, IF call[s].text = "none" THEN "review.json" ELSE "contract.yaml")

WriteFiles(s) == WriteSpec(s) \/ WriteContract(s) \/ WriteReview(s)

AuditSubmission(s) ==
  /\ Ends(s, "audit")
  /\ audited' = audited \cup {call[s].writes}
  /\ UNCHANGED <<loaded, package>>

-----------------------------------------------------------------------------
Writing == {"spec", "contract", "review", "audit"}

\* A file cannot be written: the call fails, the server goes on.
FailToWrite(s) ==
  /\ \E from \in Writing : Ends(s, from)
  /\ UNCHANGED <<loaded, queue>>

StopServer(s) ==
  /\ step[s] # "down"
  /\ step' = [step EXCEPT ![s] = "down"]
  /\ call' = [call EXCEPT ![s] = NoCall]
  /\ UNCHANGED <<loaded, queue>>

\* The server loads registry and project once, when it starts.
StartServer(s) ==
  /\ Goes(s, "down", "idle")
  /\ known' = [known EXCEPT ![s] = repository]
  /\ governed' = [governed EXCEPT ![s] = registry]
  /\ UNCHANGED <<repository, registry, call, queue>>

\* A reviewer copies a reviewed package to the repository and removes the
\* spec it replaces; CI validates the outcome before it is merged.
Promote(n) ==
  /\ "review.json" \in package[n].files
  /\ "contract.yaml" \in package[n].files => package[n].spec.output \notin registry
  /\ repository' = Promoted(repository, package[n].spec)
  /\ registry' = IF "contract.yaml" \in package[n].files
                 THEN registry \cup {package[n].spec.output} ELSE registry
  /\ CIAccepts(repository', registry')
  /\ UNCHANGED <<known, governed, step, call, queue>>

Serve(s) ==
  \/ Accept(s) \/ TurnAway(s) \/ StartTrial(s)
  \/ Execute(s) \/ EndTrial(s)
  \/ AnswerDryRun(s) \/ MakeDirectory(s)
  \/ WriteFiles(s) \/ AuditSubmission(s)

AuthoringNext ==
  \/ \E s \in Servers :
       \/ Call(s) \/ Serve(s) \/ EndStatement(s) \/ Interrupt(s)
       \/ FailToWrite(s) \/ StopServer(s) \/ StartServer(s)
  \/ \E n \in Begun : Promote(n)

AuthoringSpec == AuthoringInit /\ [][AuthoringNext]_authoringVars

\* The server and its timer are scheduled; a statement need not end.
FairAuthoring ==
  \A s \in Servers : WF_authoringVars(Serve(s)) /\ WF_authoringVars(Interrupt(s))

-----------------------------------------------------------------------------
Whole(n) ==
  /\ {"pipeline.yaml", "review.json"} \subseteq package[n].files
  /\ package[n].text # "none" => "contract.yaml" \in package[n].files

(* What a reviewer finds: a package with a review holds all it is about,    *)
(* whenever its server stopped, and the audit file names only such packages *)
(* (submit_proposal writes review.json last, and the record after it).      *)
PackageIsWhole ==
  \A n \in Begun :
    "review.json" \in package[n].files \/ n \in audited => Whole(n)

\* The repository has moved since the server loaded it, and a promotion in
\* between took the id of the package's pipeline, or the producer of one of its
\* inputs, or closes a cycle with it, or brought a contract for its dataset.
Outrun(n) ==
  LET sp == package[n].spec IN
  /\ package[n].project # repository \/ package[n].contracts # registry
  /\ \/ ~IdIsFree(repository, sp)
     \/ ~(sp.inputs \subseteq Outputs(repository))
     \/ RepoTangle(Promoted(repository, sp))
     \/ ~TextAllowed(registry, sp, package[n].text)

(* Wherever the repository has gone since its server loaded it, a package   *)
(* that was submitted passes CI there unless a promotion in between outran  *)
(* it; on an unmoved repository it always passes: the checks that           *)
(* validate_proposal makes on an old project leave CI nothing else to find. *)
SubmittedPassesReview ==
  \A n \in Begun :
    "review.json" \in package[n].files =>
      \/ /\ TextAllowed(registry, package[n].spec, package[n].text)
         /\ CIAccepts(Promoted(repository, package[n].spec),
                      ContractsWith(registry, package[n].spec, package[n].text))
      \/ Outrun(n)

(* A dry run ends, however long its statements would run, unless the        *)
(* interrupt of the deadline fell between two of them                       *)
(* (docs/governed-pipelines.md, "bounded by a 120 s deadline").             *)
DeadlineBinds ==
  \A s \in Servers :
    step[s] = "between" ~> step[s] \notin {"between", "statement"} \/ call[s].lost
=============================================================================
