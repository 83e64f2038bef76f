--------------------------- MODULE AuthoringProofs ---------------------------
(***************************************************************************)
(* Theorems about Authoring for any number of servers and packages, any    *)
(* offers, and any first project that CI accepts (FirstProjectSound).      *)
(***************************************************************************)
EXTENDS Authoring, TLAPS

USE AuthoringConstants, FirstProjectSound

-----------------------------------------------------------------------------
(* A spec that is sound in a project that CI accepts, CI accepts promoted,  *)
(* if its id is free and it closes no cycle: the other specs keep their     *)
(* inputs, because the producer that goes has the output of the one that    *)
(* comes.                                                                   *)
LEMMA ProposalsPromote ==
  ASSUME NEW pr \in Projects, NEW contracts \in SUBSET RepoDatasets, NEW sp \in RepoSpecs,
         NEW txt \in ContractTexts,
         CIAccepts(pr, contracts), IdIsFree(pr, sp), ~RepoTangle(Promoted(pr, sp)),
         Sound(sp, Outputs(pr), ContractsWith(contracts, sp, txt))
  PROVE  CIAccepts(Promoted(pr, sp), ContractsWith(contracts, sp, txt))
  <1> DEFINE new == Promoted(pr, sp)
             with == ContractsWith(contracts, sp, txt)
  <1>1. \A other \in new : other = sp \/ (other \in pr /\ other.output # sp.output /\ other.id # sp.id)
    BY DEF Promoted
  <1>2. \A a, b \in new : a.id = b.id \/ a.output = b.output => a = b
    BY <1>1 DEF CIAccepts
  <1>3. Outputs(pr) \subseteq Outputs(new)
    <2> SUFFICES ASSUME NEW old \in pr PROVE old.output \in Outputs(new)
      BY DEF Outputs
    <2>1. sp \in new
      BY DEF Promoted
    <2>2. CASE old.output = sp.output
      BY <2>1, <2>2 DEF Outputs
    <2>3. CASE old.output # sp.output
      <3>1. old.id # sp.id
        BY <2>3 DEF IdIsFree
      <3>2. old \in new
        BY <2>3, <3>1 DEF Promoted
      <3>3. QED
        BY <3>2 DEF Outputs
    <2>4. QED
      BY <2>2, <2>3
  <1>4. contracts \subseteq with
    BY DEF ContractsWith
  <1>5. \A other \in new : Sound(other, Outputs(new), with)
    <2>1. Sound(sp, Outputs(pr), with)
      OBVIOUS
    <2>2. Sound(sp, Outputs(new), with)
      BY <1>3, <2>1 DEF Sound
    <2>3. ASSUME NEW other \in pr PROVE Sound(other, Outputs(new), with)
      BY <1>3, <1>4 DEF CIAccepts, Sound
    <2>4. QED
      BY <1>1, <2>2, <2>3
  <1>6. ~RepoTangle(new)
    OBVIOUS
  <1>7. QED
    BY <1>2, <1>5, <1>6 DEF CIAccepts

-----------------------------------------------------------------------------
(* The inductive invariant: what a server has checked before it goes on,    *)
(* what is in the package it writes, and what a package is about.           *)
Checked(s) ==
  /\ step[s] \notin {"idle", "down"} => call[s].offer \in Offers
  /\ step[s] \notin {"idle", "down", "validating"} =>
       ProposalValid(known[s], governed[s], call[s].offer, call[s].text)

WritesTo(s) ==
  LET n == call[s].writes IN
  /\ step[s] \in Writing => n \in Begun /\ package[n].text = call[s].text
  /\ step[s] \in {"contract", "review", "audit"} => "pipeline.yaml" \in package[n].files
  /\ step[s] \in {"review", "audit"} /\ call[s].text # "none" => "contract.yaml" \in package[n].files
  /\ step[s] = "audit" => "review.json" \in package[n].files

PackageStands(n) ==
  /\ n \notin Begun => package[n] = NoPackage
  /\ n \in Begun => ProposalValid(package[n].project, package[n].contracts,
                                  package[n].spec, package[n].text)
  /\ "review.json" \in package[n].files => Whole(n)
  /\ n \in audited => "review.json" \in package[n].files

AuthoringInv ==
  /\ AuthoringTypeOK
  /\ CIAccepts(repository, registry)
  /\ \A s \in Servers : Checked(s) /\ WritesTo(s)
  /\ \A n \in 1..MaxPackages : PackageStands(n)

(* No call is a call, and no package a package.                             *)
LEMMA Nothings == NoCall \in Calls /\ NoPackage \in Packages
  <1>1. 0 \in 0..Statements /\ 0 \in 0..MaxPackages
    OBVIOUS
  <1>2. NoCall \in Calls
    BY <1>1 DEF NoCall, Calls, ContractTexts
  <1>3. NoPackage \in Packages
    BY DEF NoPackage, Packages, ContractTexts, Projects
  <1>4. QED
    BY <1>2, <1>3

(* At first every server is idle and there is no package.                   *)
LEMMA AuthoringInitInv == AuthoringInit => AuthoringInv
  <1> SUFFICES ASSUME AuthoringInit PROVE AuthoringInv
    OBVIOUS
  <1>1. AuthoringTypeOK
    BY Nothings DEF AuthoringInit, AuthoringTypeOK, AuthoringSteps
  <1>2. \A s \in Servers : Checked(s) /\ WritesTo(s)
    BY DEF AuthoringInit, Checked, WritesTo, Writing
  <1>3. \A n \in 1..MaxPackages : PackageStands(n)
    BY DEF AuthoringInit, PackageStands, Begun, NoPackage
  <1>4. QED
    BY <1>1, <1>2, <1>3 DEF AuthoringInit, AuthoringInv

(* A server goes on with its call, or ends it, before it writes.            *)
LEMMA ServerMoves ==
  ASSUME AuthoringInv, NEW s \in Servers, NEW to \in AuthoringSteps \ Writing, NEW c \in Calls,
         step' = [step EXCEPT ![s] = to], call' = [call EXCEPT ![s] = c],
         UNCHANGED <<loaded, queue>>,
         to \notin {"idle", "down"} => c.offer \in Offers,
         to \notin {"idle", "down", "validating"} =>
           ProposalValid(known[s], governed[s], c.offer, c.text)
  PROVE  AuthoringInv'
  <1> USE DEF AuthoringInv, loaded, queue
  <1>1. AuthoringTypeOK'
    BY DEF AuthoringTypeOK
  <1>2. step'[s] = to /\ call'[s] = c
    BY DEF AuthoringTypeOK
  <1>3. Checked(s)' /\ WritesTo(s)'
    BY <1>2 DEF Checked, WritesTo, Writing
  <1>4. \A o \in Servers \ {s} : step'[o] = step[o] /\ call'[o] = call[o]
    BY DEF AuthoringTypeOK
  <1>5. Begun' = Begun
    BY DEF Begun
  <1>6. \A o \in Servers \ {s} : Checked(o)' /\ WritesTo(o)'
    BY <1>4, <1>5 DEF Checked, WritesTo
  <1>7. \A n \in 1..MaxPackages : PackageStands(n)'
    BY <1>5 DEF PackageStands, Whole
  <1>8. QED
    BY <1>1, <1>3, <1>6, <1>7

(* Two fields of a call change.                                             *)
LEMMA CallUpdated ==
  ASSUME NEW s \in Servers, NEW v, NEW b, call \in [Servers -> Calls]
  PROVE  [call EXCEPT ![s].deadline = v, ![s].lost = b]
           = [call EXCEPT ![s] = [call[s] EXCEPT !.deadline = v, !.lost = b]]
  BY DEF Calls

(* The steps of a call up to its package.                                   *)
LEMMA TrialSteps ==
  ASSUME AuthoringInv, NEW s \in Servers,
         \/ Call(s) \/ Accept(s) \/ TurnAway(s) \/ StartTrial(s) \/ Execute(s) \/ EndStatement(s)
         \/ Interrupt(s) \/ EndTrial(s) \/ AnswerDryRun(s) \/ FailToWrite(s) \/ StopServer(s)
  PROVE  AuthoringInv'
  <1> USE DEF Goes
  <1>t. /\ step \in [Servers -> AuthoringSteps] /\ call \in [Servers -> Calls]
        /\ call[s] \in Calls /\ Checked(s)
    BY DEF AuthoringInv, AuthoringTypeOK
  <1>0. ASSUME step' = [step EXCEPT ![s] = "idle"] \/ step' = [step EXCEPT ![s] = "down"],
               call' = [call EXCEPT ![s] = NoCall], UNCHANGED <<loaded, queue>>
        PROVE AuthoringInv'
    <2>1. "idle" \in AuthoringSteps \ Writing /\ "down" \in AuthoringSteps \ Writing
      BY DEF AuthoringSteps, Writing
    <2>2. QED
      BY <1>0, <2>1, Nothings, ServerMoves
  <1>1. CASE Call(s)
    <2>1. PICK sp \in Offers, txt \in ContractTexts :
            call' = [call EXCEPT ![s] = [NoCall EXCEPT !.offer = sp, !.text = txt]]
      BY <1>1 DEF Call
    <2>2. [NoCall EXCEPT !.offer = sp, !.text = txt] \in Calls
      BY Nothings DEF Calls
    <2>3. [NoCall EXCEPT !.offer = sp, !.text = txt].offer = sp
      BY DEF NoCall
    <2>4. "validating" \in AuthoringSteps \ Writing
      BY DEF AuthoringSteps, Writing
    <2>5. QED
      BY <1>1, <2>1, <2>2, <2>3, <2>4, ServerMoves DEF Call
  <1>2. CASE Accept(s)
    <2>1. "opening" \in AuthoringSteps \ Writing /\ call' = [call EXCEPT ![s] = call[s]]
      BY <1>2, <1>t DEF AuthoringSteps, Writing, Accept
    <2>2. QED
      BY <1>2, <1>t, <2>1, ServerMoves DEF Accept, Checked
  <1>3. CASE TurnAway(s)
    BY <1>0, <1>3 DEF TurnAway, Ends
  <1>4. CASE StartTrial(s)
    <2> DEFINE c == [call[s] EXCEPT !.left = Statements, !.deadline = "armed"]
    <2>0. Statements \in 0..Statements
      OBVIOUS
    <2>1. "between" \in AuthoringSteps \ Writing /\ c \in Calls
      BY <1>t, <2>0 DEF AuthoringSteps, Writing, Calls
    <2>2. c.offer = call[s].offer /\ c.text = call[s].text
      BY <1>t DEF Calls
    <2>3. call' = [call EXCEPT ![s] = c]
      BY <1>4, <1>t DEF StartTrial, Calls
    <2> HIDE DEF c
    <2>4. QED
      BY <1>4, <1>t, <2>1, <2>2, <2>3, ServerMoves DEF StartTrial, Checked
  <1>5. CASE Execute(s)
    <2> DEFINE c == [call[s] EXCEPT !.left = call[s].left - 1]
    <2>1. call[s].left \in 0..Statements /\ call[s].left > 0
      BY <1>5, <1>t DEF Execute, Calls
    <2>2. "statement" \in AuthoringSteps \ Writing /\ c \in Calls
      BY <1>t, <2>1 DEF AuthoringSteps, Writing, Calls
    <2>3. c.offer = call[s].offer /\ c.text = call[s].text
      BY <1>t DEF Calls
    <2>4. call' = [call EXCEPT ![s] = c]
      BY <1>5, <1>t DEF Execute, Calls
    <2> HIDE DEF c
    <2>5. QED
      BY <1>5, <1>t, <2>2, <2>3, <2>4, ServerMoves DEF Execute, Checked
  <1>6. CASE EndStatement(s)
    <2>1. "between" \in AuthoringSteps \ Writing
      BY DEF AuthoringSteps, Writing
    <2>2. CASE Goes(s, "statement", "between") /\ UNCHANGED call
      <3>1. call' = [call EXCEPT ![s] = call[s]]
        BY <1>t, <2>2
      <3>2. QED
        BY <1>6, <1>t, <2>1, <2>2, <3>1, ServerMoves DEF EndStatement, Checked
    <2>3. QED
      BY <1>0, <1>6, <2>2 DEF EndStatement, Ends
  <1>7. CASE Interrupt(s)
    <2>1. CASE /\ step[s] = "between"
               /\ call' = [call EXCEPT ![s].deadline = "off", ![s].lost = TRUE]
               /\ UNCHANGED step
      <3>1. PICK lost :
              /\ lost \in BOOLEAN
              /\ call' = [call EXCEPT ![s].deadline = "off", ![s].lost = lost]
        BY <2>1, Zenon
      <3> DEFINE c == [call[s] EXCEPT !.deadline = "off", !.lost = lost]
      <3>2. "between" \in AuthoringSteps \ Writing /\ c \in Calls
        BY <1>t, <3>1 DEF AuthoringSteps, Writing, Calls
      <3>3. c.offer = call[s].offer /\ c.text = call[s].text
        BY <1>t DEF Calls
      <3>4. call' = [call EXCEPT ![s] = c]
        <4>1. call' = [call EXCEPT ![s].deadline = "off", ![s].lost = lost]
          BY <3>1
        <4>2. call \in [Servers -> Calls]
          BY <1>t
        <4>3. [call EXCEPT ![s].deadline = "off", ![s].lost = lost] = [call EXCEPT ![s] = c]
          BY <4>2, CallUpdated
        <4>4. QED
          BY <4>1, <4>3, Zenon
      <3>5. step' = [step EXCEPT ![s] = "between"]
        BY <1>t, <2>1
      <3> HIDE DEF c
      <3>6. step[s] = "between" /\ UNCHANGED <<loaded, queue>>
        BY <1>7, <2>1 DEF Interrupt
      <3>7. QED
        BY <1>t, <3>2, <3>3, <3>4, <3>5, <3>6, ServerMoves DEF Checked
    <2>2. QED
      BY <1>0, <1>7, <2>1 DEF Interrupt, Ends
  <1>8. CASE EndTrial(s)
    <2> DEFINE c == [call[s] EXCEPT !.deadline = "off"]
    <2>1. CASE Goes(s, "between", "passed") /\ call' = [call EXCEPT ![s].deadline = "off"]
      <3>1. "passed" \in AuthoringSteps \ Writing /\ c \in Calls
        BY <1>t DEF AuthoringSteps, Writing, Calls
      <3>2. c.offer = call[s].offer /\ c.text = call[s].text
        BY <1>t DEF Calls
      <3>3. call' = [call EXCEPT ![s] = c]
        BY <1>t, <2>1 DEF Calls
      <3> HIDE DEF c
      <3>4. QED
        BY <1>8, <1>t, <2>1, <3>1, <3>2, <3>3, ServerMoves DEF EndTrial, Checked
    <2>2. QED
      BY <1>0, <1>8, <2>1 DEF EndTrial, Ends
  <1>9. CASE AnswerDryRun(s) \/ FailToWrite(s) \/ StopServer(s)
    BY <1>0, <1>9 DEF AnswerDryRun, FailToWrite, StopServer, Ends
  <1>10. QED
    BY <1>1, <1>2, <1>3, <1>4, <1>5, <1>6, <1>7, <1>8, <1>9

-----------------------------------------------------------------------------
(* A new package is about the call and empty.                               *)
LEMMA DirectoryMade ==
  ASSUME AuthoringInv, NEW s \in Servers, MakeDirectory(s)
  PROVE  AuthoringInv'
  <1> USE DEF AuthoringInv
  <1>1. PICK n \in (1..MaxPackages) \ Begun :
          /\ package' = [package EXCEPT ![n].spec = call[s].offer, ![n].text = call[s].text,
                           ![n].project = known[s], ![n].contracts = governed[s]]
          /\ call' = [call EXCEPT ![s].writes = n]
    BY DEF MakeDirectory
  <1>2. /\ step[s] = "passed" /\ step' = [step EXCEPT ![s] = "spec"]
        /\ UNCHANGED <<repository, registry, known, governed, audited>>
    BY DEF MakeDirectory, Goes, loaded
  <1>3. /\ call[s] \in Calls /\ call[s].offer \in Offers
        /\ ProposalValid(known[s], governed[s], call[s].offer, call[s].text)
        /\ call[s].text \in ContractTexts
        /\ known[s] \in Projects /\ governed[s] \in SUBSET RepoDatasets
    BY <1>2 DEF AuthoringTypeOK, Checked, Calls
  <1>4. package[n] = NoPackage /\ package[n].files = {}
    BY DEF PackageStands, NoPackage
  <1> DEFINE new == [package[n] EXCEPT !.spec = call[s].offer, !.text = call[s].text,
                                       !.project = known[s], !.contracts = governed[s]]
  <1>5. package' = [package EXCEPT ![n] = new]
    BY <1>1
  <1>6. /\ new \in Packages
        /\ new.files = {} /\ new.spec = call[s].offer /\ new.text = call[s].text
        /\ new.project = known[s] /\ new.contracts = governed[s]
    BY <1>3, <1>4, Nothings DEF Packages
  <1> HIDE DEF new
  <1>7. call' = [call EXCEPT ![s] = [call[s] EXCEPT !.writes = n]]
        /\ [call[s] EXCEPT !.writes = n] \in Calls
    BY <1>1, <1>3 DEF Calls
  <1>8. package'[n] = new /\ \A m \in (1..MaxPackages) \ {n} : package'[m] = package[m]
    BY <1>5 DEF AuthoringTypeOK
  <1>9. AuthoringTypeOK'
    BY <1>2, <1>5, <1>6, <1>7 DEF AuthoringTypeOK, AuthoringSteps
  <1>10. Begun' = Begun \cup {n}
    BY <1>3, <1>6, <1>8 DEF Begun
  <1>11. \A m \in 1..MaxPackages : PackageStands(m)'
    <2>1. ASSUME NEW m \in (1..MaxPackages) \ {n} PROVE PackageStands(m)'
      BY <1>2, <1>8, <1>10, <2>1 DEF PackageStands, Whole
    <2>2. PackageStands(n)'
      <3>1. n \notin audited
        BY <1>4 DEF PackageStands
      <3>2. QED
        BY <1>2, <1>3, <1>6, <1>8, <1>10, <3>1 DEF PackageStands
    <2>3. QED
      BY <2>1, <2>2
  <1>12. /\ step'[s] = "spec" /\ call'[s].writes = n /\ call'[s].offer = call[s].offer
         /\ call'[s].text = call[s].text
    BY <1>2, <1>3, <1>7 DEF AuthoringTypeOK, Calls
  <1>13. Checked(s)' /\ WritesTo(s)'
    BY <1>2, <1>3, <1>6, <1>8, <1>10, <1>12 DEF Checked, WritesTo
  <1>14. ASSUME NEW o \in Servers \ {s} PROVE Checked(o)' /\ WritesTo(o)'
    <2>1. step'[o] = step[o] /\ call'[o] = call[o]
      BY <1>2, <1>7 DEF AuthoringTypeOK
    <2>2. step[o] \in Writing => call[o].writes \in Begun
      BY DEF WritesTo
    <2>3. step[o] \in Writing => package'[call[o].writes] = package[call[o].writes]
      BY <1>8, <2>2 DEF Begun
    <2>4. QED
      BY <1>2, <1>10, <2>1, <2>2, <2>3 DEF Checked, WritesTo, Writing
  <1>15. QED
    BY <1>2, <1>9, <1>11, <1>13, <1>14

(* A file more in the package of a call, and the call one step further: the *)
(* package is whole if it was, or if the file completes it.                 *)
LEMMA FileAdded ==
  ASSUME AuthoringInv, NEW s \in Servers, NEW file \in PackageFiles,
         NEW to \in {"contract", "review", "audit"},
         step[s] \in {"spec", "contract", "review"},
         step' = [step EXCEPT ![s] = to], Adds(s, file),
         file = "review.json" =>
           /\ to = "audit" /\ "pipeline.yaml" \in package[call[s].writes].files
           /\ call[s].text # "none" => "contract.yaml" \in package[call[s].writes].files,
         "pipeline.yaml" \in package[call[s].writes].files \cup {file},
         to \in {"review", "audit"} /\ call[s].text # "none" =>
           "contract.yaml" \in package[call[s].writes].files \cup {file},
         to = "audit" => file = "review.json"
  PROVE  AuthoringInv'
  <1> USE DEF AuthoringInv
  <1>1. PICK n \in Begun : n = call[s].writes
    BY DEF WritesTo, Writing
  <1>2. n \in 1..MaxPackages /\ package[n].text = call[s].text /\ package[n] \in Packages
    BY <1>1 DEF WritesTo, Writing, Begun, AuthoringTypeOK
  <1> DEFINE new == [package[n] EXCEPT !.files = @ \cup {file}]
  <1>3. /\ package' = [package EXCEPT ![n] = new]
        /\ UNCHANGED <<repository, registry, known, governed, call, audited>>
    BY <1>1 DEF Adds, loaded
  <1>4. new \in Packages
    BY <1>2 DEF Packages
  <1>5. /\ package'[n] = new /\ \A m \in (1..MaxPackages) \ {n} : package'[m] = package[m]
    BY <1>2, <1>3 DEF AuthoringTypeOK
  <1>6. /\ new.files = package[n].files \cup {file} /\ new.spec = package[n].spec
        /\ new.text = package[n].text /\ new.project = package[n].project
        /\ new.contracts = package[n].contracts
    BY <1>2 DEF Packages
  <1> HIDE DEF new
  <1>7. AuthoringTypeOK'
    BY <1>3, <1>4 DEF AuthoringTypeOK, AuthoringSteps
  <1>8. Begun' = Begun
    BY <1>2, <1>5, <1>6 DEF Begun
  <1>9. \A m \in 1..MaxPackages : package[m].files \subseteq package'[m].files
    BY <1>5, <1>6
  <1>10. \A m \in 1..MaxPackages : PackageStands(m)'
    <2>1. ASSUME NEW m \in (1..MaxPackages) \ {n} PROVE PackageStands(m)'
      BY <1>3, <1>5, <1>8, <2>1 DEF PackageStands, Whole
    <2>2. PackageStands(n)'
      <3>1. "review.json" \in new.files => Whole(n)'
        BY <1>1, <1>2, <1>5, <1>6 DEF PackageStands, Whole
      <3>2. QED
        BY <1>2, <1>3, <1>5, <1>6, <1>8, <3>1 DEF PackageStands
    <2>3. QED
      BY <2>1, <2>2
  <1>11. step'[s] = to /\ \A o \in Servers \ {s} : step'[o] = step[o]
    BY DEF AuthoringTypeOK
  <1>12. \A o \in Servers : Checked(o)'
    BY <1>3, <1>11 DEF Checked
  <1>13. WritesTo(s)'
    BY <1>1, <1>2, <1>3, <1>5, <1>6, <1>8, <1>11 DEF WritesTo
  <1>14. ASSUME NEW o \in Servers \ {s} PROVE WritesTo(o)'
    <2>1. step[o] \in Writing => call[o].writes \in 1..MaxPackages
      BY DEF WritesTo, Begun
    <2>2. step[o] \in Writing => package'[call[o].writes].text = package[call[o].writes].text
      BY <1>5, <1>6, <2>1
    <2>3. QED
      BY <1>3, <1>8, <1>9, <1>11, <2>1, <2>2 DEF WritesTo, Writing
  <1>15. QED
    BY <1>3, <1>7, <1>10, <1>12, <1>13, <1>14

(* The files of a package, in the order submit_proposal writes them.        *)
LEMMA FilesWritten ==
  ASSUME AuthoringInv, NEW s \in Servers, WriteFiles(s)
  PROVE  AuthoringInv'
  <1> USE DEF Goes, PackageFiles
  <1>t. WritesTo(s)
    BY DEF AuthoringInv
  <1>1. CASE WriteSpec(s)
    <2>1. CASE call[s].text = "none"
      BY <1>1, <2>1, FileAdded DEF WriteSpec
    <2>2. CASE call[s].text # "none"
      BY <1>1, <2>2, FileAdded DEF WriteSpec
    <2>3. QED
      BY <2>1, <2>2
  <1>2. CASE WriteContract(s)
    BY <1>2, <1>t, FileAdded DEF WriteContract, WritesTo
  <1>3. CASE WriteReview(s)
    BY <1>3, <1>t, FileAdded DEF WriteReview, WritesTo
  <1>4. QED
    BY <1>1, <1>2, <1>3 DEF WriteFiles

(* The record of a submission comes after its review.                       *)
LEMMA SubmissionAudited ==
  ASSUME AuthoringInv, NEW s \in Servers, AuditSubmission(s)
  PROVE  AuthoringInv'
  <1> USE DEF AuthoringInv
  <1>1. PICK n \in Begun : n = call[s].writes /\ "review.json" \in package[n].files
    BY DEF AuditSubmission, Ends, Goes, WritesTo, Writing
  <1>2. /\ audited' = audited \cup {n} /\ step' = [step EXCEPT ![s] = "idle"]
        /\ call' = [call EXCEPT ![s] = NoCall]
        /\ UNCHANGED <<repository, registry, known, governed, package>>
    BY <1>1 DEF AuditSubmission, Ends, Goes, loaded
  <1>3. AuthoringTypeOK'
    BY <1>2, Nothings DEF AuthoringTypeOK, AuthoringSteps, Begun
  <1>4. Begun' = Begun
    BY <1>2 DEF Begun
  <1>5. \A m \in 1..MaxPackages : PackageStands(m)'
    BY <1>1, <1>2, <1>4 DEF PackageStands, Whole
  <1>6. step'[s] = "idle" /\ \A o \in Servers \ {s} : step'[o] = step[o] /\ call'[o] = call[o]
    BY <1>2 DEF AuthoringTypeOK
  <1>7. \A o \in Servers : Checked(o)' /\ WritesTo(o)'
    BY <1>2, <1>4, <1>6 DEF Checked, WritesTo, Writing
  <1>8. QED
    BY <1>2, <1>3, <1>5, <1>7

-----------------------------------------------------------------------------
(* A server that starts has checked nothing yet.                            *)
LEMMA ServerStarted ==
  ASSUME AuthoringInv, NEW s \in Servers, StartServer(s)
  PROVE  AuthoringInv'
  <1> USE DEF AuthoringInv
  <1>1. /\ step' = [step EXCEPT ![s] = "idle"] /\ known' = [known EXCEPT ![s] = repository]
        /\ governed' = [governed EXCEPT ![s] = registry]
        /\ UNCHANGED <<repository, registry, call, package, audited>>
    BY DEF StartServer, Goes, queue
  <1>2. AuthoringTypeOK'
    BY <1>1 DEF AuthoringTypeOK, AuthoringSteps
  <1>3. Begun' = Begun
    BY <1>1 DEF Begun
  <1>4. /\ step'[s] = "idle"
        /\ \A o \in Servers \ {s} :
             step'[o] = step[o] /\ known'[o] = known[o] /\ governed'[o] = governed[o]
    BY <1>1 DEF AuthoringTypeOK
  <1>5. \A o \in Servers : Checked(o)' /\ WritesTo(o)'
    BY <1>1, <1>3, <1>4 DEF Checked, WritesTo, Writing
  <1>6. \A n \in 1..MaxPackages : PackageStands(n)'
    BY <1>1, <1>3 DEF PackageStands, Whole
  <1>7. QED
    BY <1>1, <1>2, <1>5, <1>6

(* Promotion moves the repository and nothing else, and CI has looked.      *)
LEMMA PackagePromoted ==
  ASSUME AuthoringInv, NEW n \in Begun, Promote(n)
  PROVE  AuthoringInv'
  <1> USE DEF AuthoringInv
  <1>1. package[n].spec \in RepoSpecs
    BY DEF Begun, AuthoringTypeOK, Packages
  <1>2. package[n].spec.output \in RepoDatasets
    BY <1>1 DEF RepoSpecs
  <1>3. /\ repository' = Promoted(repository, package[n].spec)
        /\ registry' \in {registry, registry \cup {package[n].spec.output}}
        /\ CIAccepts(repository', registry')
        /\ UNCHANGED <<known, governed, step, call, package, audited>>
    BY DEF Promote, queue
  <1>4. AuthoringTypeOK'
    BY <1>1, <1>2, <1>3 DEF AuthoringTypeOK, Promoted, Projects
  <1>5. Begun' = Begun
    BY <1>3 DEF Begun
  <1>6. \A s \in Servers : Checked(s)' /\ WritesTo(s)'
    BY <1>3, <1>5 DEF Checked, WritesTo
  <1>7. \A m \in 1..MaxPackages : PackageStands(m)'
    BY <1>3, <1>5 DEF PackageStands, Whole
  <1>8. CIAccepts(repository, registry)'
    BY <1>3 DEF CIAccepts
  <1>9. QED
    BY <1>4, <1>6, <1>7, <1>8

LEMMA AuthoringStep ==
  ASSUME AuthoringInv, [AuthoringNext]_authoringVars
  PROVE  AuthoringInv'
  <1>1. CASE UNCHANGED authoringVars
    BY <1>1 DEF authoringVars, AuthoringInv, AuthoringTypeOK, Checked, WritesTo, PackageStands,
                Begun, Whole, CIAccepts
  <1>2. ASSUME NEW s \in Servers, Serve(s) \/ Call(s) \/ EndStatement(s) \/ Interrupt(s)
                                  \/ FailToWrite(s) \/ StopServer(s)
        PROVE AuthoringInv'
    BY <1>2, TrialSteps, DirectoryMade, FilesWritten, SubmissionAudited DEF Serve
  <1>3. QED
    BY <1>1, <1>2, ServerStarted, PackagePromoted DEF AuthoringNext

LEMMA AuthoringInvariance == AuthoringSpec => []AuthoringInv
  BY AuthoringInitInv, AuthoringStep, PTL DEF AuthoringSpec

(* A package with a review or an audit record is whole, whenever and        *)
(* wherever its server stopped (submit_proposal).                           *)
THEOREM PackagesAreWhole == AuthoringSpec => [](AuthoringTypeOK /\ PackageIsWhole)
  <1>1. AuthoringInv => AuthoringTypeOK /\ PackageIsWhole
    BY DEF AuthoringInv, PackageStands, PackageIsWhole, Begun
  <1>2. QED
    BY AuthoringInvariance, <1>1, PTL

(* The registry only grows: what a server or a package was judged by is     *)
(* still there.                                                             *)
ContractsStay ==
  /\ \A s \in Servers : governed[s] \subseteq registry
  /\ \A n \in Begun : package[n].contracts \subseteq registry

LEMMA ContractsStayStep ==
  ASSUME AuthoringInv, ContractsStay, [AuthoringNext]_authoringVars
  PROVE  ContractsStay'
  <1> USE DEF AuthoringInv, AuthoringTypeOK, loaded, queue
  <1>0. ASSUME registry \subseteq registry', UNCHANGED <<governed, package>>
        PROVE ContractsStay'
    BY <1>0 DEF ContractsStay, Begun
  <1>1. CASE UNCHANGED authoringVars
    BY <1>0, <1>1 DEF authoringVars
  <1>2. ASSUME NEW s \in Servers, MakeDirectory(s) PROVE ContractsStay'
    <2>1. PICK n \in (1..MaxPackages) \ Begun :
            package' = [package EXCEPT ![n].spec = call[s].offer, ![n].text = call[s].text,
                          ![n].project = known[s], ![n].contracts = governed[s]]
      BY <1>2 DEF MakeDirectory
    <2>2. /\ package'[n].contracts = governed[s]
          /\ \A m \in (1..MaxPackages) \ {n} : package'[m] = package[m]
      BY <2>1 DEF Packages
    <2>3. UNCHANGED <<registry, governed>>
      BY <1>2 DEF MakeDirectory
    <2>4. QED
      BY <2>2, <2>3 DEF ContractsStay, Begun
  <1>3. ASSUME NEW s \in Servers, WriteFiles(s) PROVE ContractsStay'
    <2>1. PICK file : Adds(s, file)
      BY <1>3 DEF WriteFiles, WriteSpec, WriteContract, WriteReview
    <2>2. \A n \in 1..MaxPackages : /\ package'[n].contracts = package[n].contracts
                                   /\ package'[n].spec = package[n].spec
      BY <2>1 DEF Adds, Packages
    <2>3. QED
      BY <2>1, <2>2 DEF Adds, ContractsStay, Begun
  <1>4. ASSUME NEW s \in Servers, StartServer(s) PROVE ContractsStay'
    BY <1>4 DEF StartServer, ContractsStay, Begun
  <1>5. ASSUME NEW n \in Begun, Promote(n) PROVE ContractsStay'
    BY <1>0, <1>5 DEF Promote
  <1>6. ASSUME NEW s \in Servers,
               \/ Call(s) \/ Accept(s) \/ TurnAway(s) \/ StartTrial(s) \/ Execute(s)
               \/ EndStatement(s) \/ Interrupt(s) \/ EndTrial(s) \/ AnswerDryRun(s)
               \/ AuditSubmission(s) \/ FailToWrite(s) \/ StopServer(s)
        PROVE ContractsStay'
    BY <1>0, <1>6
    DEF Call, Accept, TurnAway, StartTrial, Execute, EndStatement, Interrupt, EndTrial,
        AnswerDryRun, AuditSubmission, FailToWrite, StopServer
  <1>7. QED
    BY <1>1, <1>2, <1>3, <1>4, <1>5, <1>6 DEF AuthoringNext, Serve

(* What was submitted passes CI wherever the repository has gone, unless a  *)
(* promotion in between took its id or an input, closes a cycle with it or  *)
(* has its contract (validate_proposal against validate_pipeline_project).  *)
THEOREM SubmissionsPassReview == AuthoringSpec => []SubmittedPassesReview
  <1>1. ASSUME AuthoringInv, ContractsStay PROVE SubmittedPassesReview
    <2> SUFFICES ASSUME NEW n \in Begun, ~Outrun(n)
                 PROVE  /\ TextAllowed(registry, package[n].spec, package[n].text)
                        /\ CIAccepts(Promoted(repository, package[n].spec),
                                     ContractsWith(registry, package[n].spec, package[n].text))
      BY DEF SubmittedPassesReview
    <2> DEFINE sp == package[n].spec
               txt == package[n].text
    <2>1. /\ ProposalValid(package[n].project, package[n].contracts, sp, txt)
          /\ repository \in Projects /\ registry \in SUBSET RepoDatasets
          /\ sp \in RepoSpecs /\ txt \in ContractTexts
          /\ CIAccepts(repository, registry) /\ package[n].contracts \subseteq registry
      BY <1>1 DEF AuthoringInv, AuthoringTypeOK, PackageStands, Begun, Packages, ContractsStay
    <2>2. /\ IdIsFree(repository, sp) /\ sp.inputs \subseteq Outputs(repository)
          /\ ~RepoTangle(Promoted(repository, sp)) /\ TextAllowed(registry, sp, txt)
      <3>1. CASE package[n].project = repository /\ package[n].contracts = registry
        BY <2>1, <3>1 DEF ProposalValid, Sound
      <3>2. CASE ~(package[n].project = repository /\ package[n].contracts = registry)
        BY <3>2 DEF Outrun
      <3>3. QED
        BY <3>1, <3>2
    <2>3. Sound(sp, Outputs(repository), ContractsWith(registry, sp, txt))
      BY <2>1, <2>2 DEF ProposalValid, Sound, ContractsWith
    <2> HIDE DEF sp, txt
    <2>4. CIAccepts(Promoted(repository, sp), ContractsWith(registry, sp, txt))
      BY <2>1, <2>2, <2>3, ProposalsPromote
    <2>5. QED
      BY <2>2, <2>4 DEF sp, txt
  <1>2. AuthoringInit => ContractsStay
    BY DEF AuthoringInit, ContractsStay, Begun, NoPackage
  <1>3. QED
    BY AuthoringInitInv, AuthoringStep, ContractsStayStep, <1>1, <1>2, PTL DEF AuthoringSpec
=============================================================================
