---------------------------- MODULE VerifySession ----------------------------
(***************************************************************************)
(* VERIFY inside the session protocol, over the findings and the paged     *)
(* details of one store (src/deepthought/sessions/verify.py and            *)
(* store/filestore.py).  A process running VERIFY reads the finding before *)
(* the sandbox runs and writes it afterwards; get and save are separate    *)
(* file operations of transition_finding too.  Meanwhile other processes   *)
(* run sessions, people call Store.transition_finding and edit references. *)
(***************************************************************************)
EXTENDS SessionProtocol, FindingLifecycle

CONSTANTS Findings,     \* ids of the stored findings
          ProjectOf,    \* the project field of each
          MaxLog,       \* BOUND: attempts on a log before a new one starts
          NoDetail      \* a detail file that does not exist

ASSUME VerifyAssumption ==
    /\ Findings # {}
    /\ ProjectOf \in [Findings -> Projects]
    /\ MaxLog \in Nat
    /\ NoDetail \notin [finding : Findings, reproduced : BOOLEAN]

VARIABLES findings,     \* findings/<id>.md
          details,      \* detail/<session>/verify-result.txt, by session
          work          \* each process's local variables in VERIFY and in
                        \* transition_finding

vars == <<projects, sessions, pc, run, findings, details, work>>

\* held: the finding in memory; was: the evidence_ref it came with;
\* target: the status asked of transition_finding.
NoWork == [finding |-> CHOOSE f \in Findings : TRUE, held |-> NewCandidate,
           was |-> 0, target |-> "candidate"]

Init ==
    /\ ProtocolInit
    /\ findings = [f \in Findings |-> NewCandidate]
    /\ details = [s \in SessionIds |-> NoDetail]
    /\ work = [p \in Procs |-> NoWork]

\* detail_exists
Resolving == {s \in SessionIds : details[s] # NoDetail}

SaveFinding(p, record) == findings' = [findings EXCEPT ![work[p].finding] = record]

Forget(p) == work' = [work EXCEPT ![p] = NoWork]

\* The session returns an outcome, which always names next steps.
Return(p) == /\ run' = [run EXCEPT ![p].steps = TRUE]
             /\ Goto(p, "returned")
             /\ Forget(p)
-----------------------------------------------------------------------------
\* VERIFY names a finding that is not stored: NotFoundError.
FindingMissing(p) ==
    /\ pc[p] = "running"
    /\ Raise(p)
    /\ UNCHANGED <<findings, details, work>>

\* The finding belongs to another project, is no candidate, or the sandbox is
\* signed off for another project: refused before the sandbox runs.
Refuse(p) ==
    /\ pc[p] = "running"
    /\ \E f \in Findings, sandboxProject \in Projects :
         \/ ProjectOf[f] # run[p].project
         \/ findings[f].status # "candidate"
         \/ sandboxProject # run[p].project
    /\ Return(p)
    /\ UNCHANGED <<projects, sessions, findings, details>>

\* A candidate of this project is read, and the sandbox is entered with it.
EnterSandbox(p) ==
    /\ pc[p] = "running"
    /\ \E f \in Findings :
         /\ ProjectOf[f] = run[p].project
         /\ findings[f].status = "candidate"
         /\ Len(findings[f].log) < MaxLog
         /\ work' = [work EXCEPT ![p] = [finding |-> f, held |-> findings[f],
                                         was |-> findings[f].evidence,
                                         target |-> "verified"]]
    /\ Goto(p, "sandbox")
    /\ UNCHANGED <<projects, sessions, run, findings, details>>

\* The backend raised, or broke its contract and returned nothing.
SandboxFails(p) ==
    /\ pc[p] = "sandbox"
    /\ Raise(p)
    /\ Forget(p)
    /\ UNCHANGED <<findings, details>>

\* A dry run reports the verdict and writes nothing.
DryRun(p) ==
    /\ pc[p] = "sandbox"
    /\ Return(p)
    /\ UNCHANGED <<projects, sessions, findings, details>>

\* Mutant: the verdict of the result is not looked at.
PageAnyEvidence(p) ==
    /\ pc[p] = "sandbox"
    /\ \E reproduced \in BOOLEAN :
         /\ details' = [details EXCEPT ![run[p].sid] =
                          [finding |-> work[p].finding, reproduced |-> reproduced]]
         /\ Goto(p, "promoting")
    /\ UNCHANGED <<projects, sessions, run, findings, work>>

\* The typed result is paged, positive or not, under the session's own id.
PageEvidence(p) ==
    /\ pc[p] = "sandbox"
    /\ \E reproduced \in BOOLEAN :
         /\ details' = [details EXCEPT ![run[p].sid] =
                          [finding |-> work[p].finding, reproduced |-> reproduced]]
         /\ Goto(p, IF reproduced THEN "promoting" ELSE "leaving")
    /\ UNCHANGED <<projects, sessions, run, findings, work>>

\* _promote: the finding read before the run is saved with its new evidence.
SetEvidence(p) ==
    /\ pc[p] = "promoting"
    /\ SaveFinding(p, [work[p].held EXCEPT !.evidence = run[p].sid])
    /\ Goto(p, "asking")
    /\ UNCHANGED <<projects, sessions, run, details, work>>

\* transition_finding reads the finding again ...
ReadForTransition(p) ==
    /\ pc[p] = "asking"
    /\ work' = [work EXCEPT ![p].held = findings[work[p].finding]]
    /\ Goto(p, "deciding")
    /\ UNCHANGED <<projects, sessions, run, findings, details>>

\* ... and saves what the guard decided on that copy.
Promote(p) ==
    LET ok == Allowed(work[p].held, "verified", Resolving)
    IN /\ pc[p] = "deciding"
       /\ SaveFinding(p, Transitioned(work[p].held, "verified", Resolving))
       /\ \/ ok /\ Return(p)
          \/ ~ok /\ Goto(p, "rejected") /\ UNCHANGED <<run, work>>
       /\ UNCHANGED <<projects, sessions, details>>

\* The guard said no: reload the finding, to keep the entry it logged ...
Reload(p) ==
    /\ pc[p] = "rejected"
    /\ work' = [work EXCEPT ![p].held = findings[work[p].finding]]
    /\ Goto(p, "reverting")
    /\ UNCHANGED <<projects, sessions, run, findings, details>>

\* ... and put the old evidence_ref back.
RevertEvidence(p) ==
    /\ pc[p] = "reverting"
    /\ SaveFinding(p, [work[p].held EXCEPT !.evidence = work[p].was])
    /\ Return(p)
    /\ UNCHANGED <<projects, sessions, details>>

\* _leave_candidate: the finding read before the run is saved with the failed
\* attempt on its log.
LeaveCandidate(p) ==
    /\ pc[p] = "leaving"
    /\ SaveFinding(p, Unreproduced(work[p].held))
    /\ Return(p)
    /\ UNCHANGED <<projects, sessions, details>>

Verify(p) ==
    \/ FindingMissing(p) \/ Refuse(p) \/ EnterSandbox(p)
    \/ SandboxFails(p) \/ DryRun(p) \/ PageEvidence(p)
    \/ SetEvidence(p) \/ ReadForTransition(p) \/ Promote(p)
    \/ Reload(p) \/ RevertEvidence(p) \/ LeaveCandidate(p)
-----------------------------------------------------------------------------
\* A person moves a finding through Store.transition_finding: the read ...
AskTransition(p, f, new) ==
    /\ pc[p] = "idle"
    /\ Len(findings[f].log) < MaxLog
    /\ work' = [work EXCEPT ![p] = [finding |-> f, held |-> findings[f],
                                    was |-> findings[f].evidence, target |-> new]]
    /\ Goto(p, "moving")
    /\ UNCHANGED <<projects, sessions, run, findings, details>>

\* ... and the save.
Transition(p) ==
    /\ pc[p] = "moving"
    /\ SaveFinding(p, Transitioned(work[p].held, work[p].target, Resolving))
    /\ Goto(p, "idle")
    /\ Forget(p)
    /\ UNCHANGED <<projects, sessions, run, details>>

\* A person records a CVE, an advisory or a fix on a finding.
AddReference(f) ==
    /\ \E r \in RefKinds \ findings[f].refs : findings' = [findings EXCEPT ![f].refs = @ \cup {r}]
    /\ UNCHANGED <<projects, sessions, pc, run, details, work>>

Next ==
    \/ \E p \in Procs : \/ ProtocolStep(p) /\ UNCHANGED <<findings, details, work>>
                        \/ Verify(p)
                        \/ \E f \in Findings, new \in Status : AskTransition(p, f, new)
                        \/ Transition(p)
                        \/ Crash(p) /\ Forget(p) /\ UNCHANGED <<findings, details>>
    \/ \E id \in Projects : EditProject(id) /\ UNCHANGED <<findings, details, work>>
    \/ \E f \in Findings : AddReference(f)

Spec == Init /\ [][Next]_vars
-----------------------------------------------------------------------------
Detail == [finding : Findings, reproduced : BOOLEAN]

Work == [finding : Findings, held : Finding, was : Nat, target : Status]

Labels == {"idle", "numbered", "invalid", "opened", "running", "returned",
           "sandbox", "promoting", "asking", "deciding", "rejected", "reverting",
           "leaving", "moving"}

TypeOK ==
    /\ projects \in [Projects -> Contexts \cup {NoProject}]
    /\ sessions \in [SessionIds -> SessionRecord \cup {NoRecord}]
    /\ pc \in [Procs -> Labels]
    /\ run \in [Procs -> Locals]
    /\ findings \in [Findings -> Finding]
    /\ details \in [SessionIds -> Detail \cup {NoDetail}]
    /\ work \in [Procs -> Work]

\* However sessions, people and crashes interleave, the log a finding carries
\* explains its status: a lost update loses whole records, never half of one.
LogExplainsStatus == \A f \in Findings : Explained(findings[f])

\* However they interleave, a disclosed finding carries a CVE and an advisory,
\* a patched one a CVE and a fix (Article IV at rest, check.py).
AdvancedIsReferenced == \A f \in Findings : Referenced(findings[f])

\* Every finding that is past candidate rests on a paged artifact that records
\* a reproduction of this very finding: not a failed one, not another's.
Proven(f) == \E s \in SessionIds : details[s] = [finding |-> f, reproduced |-> TRUE]

RestsOnReproduction ==
    \A f \in Findings :
        findings[f].status # "candidate" =>
            /\ findings[f].evidence \in SessionIds
            /\ details[findings[f].evidence] = [finding |-> f, reproduced |-> TRUE]

\* The store keeps the promise of the evidence lifecycle.
Lifecycle == INSTANCE EvidenceLifecycle WITH
                 status <- [f \in Findings |-> findings[f].status],
                 proven <- {f \in Findings : Proven(f)}

KeepsLifecycle == Lifecycle!Spec

\* The audit trail is append-only: no step loses an attempt that was logged.
AuditTrailGrows ==
    [][\A f \in Findings :
         /\ Len(findings'[f].log) >= Len(findings[f].log)
         /\ \A i \in 1 .. Len(findings[f].log) :
               findings'[f].log[i] = findings[f].log[i]]_vars

\* _leave_candidate "changes NO status": a VERIFY step never takes a finding
\* back from where someone else has moved it meanwhile.
VerifyNeverDemotes ==
    [][\A f \in Findings : \A p \in Procs :
         Verify(p) => findings'[f].status \in {findings[f].status, "verified"}]_vars

\* The last run of the repro counts: after a run that did not reproduce, "no
\* evidence_ref set, so the lifecycle guard promotes nothing".
FailedReproPromotesNothing ==
    [][\A p \in Procs :
         LeaveCandidate(p) =>
            ~Allowed(findings'[work[p].finding], "verified", Resolving)]_vars

\* Article IV at rest, as check.py demands it of the store.
VerifiedHasEvidence ==
    \A f \in Findings : findings[f].status = "verified" => findings[f].evidence \in Resolving
=============================================================================
