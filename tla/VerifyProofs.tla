---------------------------- MODULE VerifyProofs ----------------------------
(***************************************************************************)
(* VERIFY and the store, for every number of processes, sessions, findings *)
(* and projects, in three parts.                                           *)
(*                                                                         *)
(* One record: what the store's guard does to a finding, whatever record   *)
(* it is given and whichever references resolve.                           *)
(*                                                                         *)
(* Many processes: the records stay typed, every log explains its status,  *)
(* and advanced findings carry their references.  The inductive invariant  *)
(* says so of the records on disk AND of the copies processes hold in      *)
(* memory, since any of them may be saved later.                           *)
(*                                                                         *)
(* One process at a time: every advanced finding rests on a recorded       *)
(* reproduction of it, the store implements the evidence lifecycle and no  *)
(* logged attempt is lost.  People still edit projects and references      *)
(* meanwhile, and the process may die at any step.  The argument: session  *)
(* ids are the numbers 1 .. n without a gap, so the id a session takes is  *)
(* new and the artifact it pages overwrites none; an artifact is never     *)
(* removed; and the copy VERIFY holds still has the status, evidence and   *)
(* log on disk.                                                            *)
(***************************************************************************)
EXTENDS VerifySession, FiniteSetTheorems, TLAPS

\* A record whose log explains its status and whose references cover it.
Sound(f) == f \in Finding /\ Explained(f) /\ Referenced(f)

\* A freshly discovered candidate is sound (FindingStatus.candidate, no log).
LEMMA NewCandidateSound == Sound(NewCandidate)
  BY DEF Sound, Finding, NewCandidate, Explained, Referenced, Status, RefKinds

\* Logging one more attempt from the present status keeps the log a chain, and
\* the last entry then tells the status reached (transition_log.append).
LEMMA LogChain ==
  ASSUME NEW f \in Finding, Explained(f), NEW g \in Finding, NEW e \in LogEntry,
         e.from = f.status, g.status = After(e), g.log = Append(f.log, e)
  PROVE  Explained(g)
<1> DEFINE n == Len(f.log)
<1>1. f.log \in Seq(LogEntry) /\ n \in Nat
  BY DEF Finding
<1>2. /\ Len(g.log) = n + 1
      /\ \A i \in 1 .. n : g.log[i] = f.log[i]
      /\ g.log[n + 1] = e
  BY <1>1
<1>3. g.log # <<>> /\ g.status = After(g.log[Len(g.log)])
  BY <1>1, <1>2
<1>4. g.log[1].from = "candidate"
  <2>1. CASE n = 0
    BY <2>1, <1>1, <1>2 DEF Explained
  <2>2. CASE n > 0
    BY <2>2, <1>1, <1>2 DEF Explained
  <2> QED BY <2>1, <2>2, <1>1
<1>5. ASSUME NEW i \in 1 .. Len(g.log), i > 1
      PROVE  g.log[i].from = After(g.log[i - 1])
  <2>1. CASE i = n + 1
    <3>1. n > 0 /\ g.log[i - 1] = f.log[n] /\ f.log # <<>>
      BY <2>1, <1>1, <1>2, <1>5
    <3> QED BY <3>1, <2>1, <1>2 DEF Explained
  <2>2. CASE i # n + 1
    <3>1. i \in 1 .. n /\ i - 1 \in 1 .. n
      BY <2>2, <1>1, <1>2, <1>5
    <3>2. g.log[i] = f.log[i] /\ g.log[i - 1] = f.log[i - 1]
      BY <3>1, <1>2
    <3> QED BY <3>1, <3>2, <1>5 DEF Explained
  <2> QED BY <2>1, <2>2
<1> QED BY <1>3, <1>4, <1>5 DEF Explained

\* transition_finding turns a sound record into a sound record, whether the
\* guard accepts or rejects the move.
LEMMA TransitionedSound ==
  ASSUME NEW f, Sound(f), NEW new \in Status, NEW resolving
  PROVE  Sound(Transitioned(f, new, resolving))
<1> DEFINE ok == Allowed(f, new, resolving)
           e == Entry(f, new, ok)
           g == Transitioned(f, new, resolving)
<1>1. f \in Finding /\ f.status \in Status /\ f.log \in Seq(LogEntry)
  BY DEF Sound, Finding
<1>2. ok \in BOOLEAN
  BY DEF Allowed
<1>3. e \in LogEntry /\ e.from = f.status /\ e.to = new /\ e.accepted = ok
  BY <1>1, <1>2 DEF Entry, LogEntry
<1>4. /\ g.status = IF ok THEN new ELSE f.status
      /\ g.log = Append(f.log, e)
      /\ g.evidence = f.evidence /\ g.refs = f.refs
      /\ g \in Finding
  <2> DEFINE s == IF ok THEN new ELSE f.status
             l == Append(f.log, e)
  <2>1. s \in Status /\ l \in Seq(LogEntry)
    BY <1>1, <1>2, <1>3
  <2>2. g = [f EXCEPT !.status = s, !.log = l]
    BY DEF Transitioned
  <2> HIDE DEF s, l, g
  <2>3. g.status = s /\ g.log = l /\ g.evidence = f.evidence /\ g.refs = f.refs /\ g \in Finding
    BY <1>1, <2>1, <2>2 DEF Finding
  <2> QED BY <2>3 DEF s, l
<1>5. g.status = After(e)
  BY <1>3, <1>4 DEF After
<1>6. Explained(g)
  BY <1>1, <1>3, <1>4, <1>5, LogChain DEF Sound
<1>7. Referenced(g)
  <2>1. Referenced(f)
    BY DEF Sound
  <2>2. CASE ~ok
    BY <2>1, <2>2, <1>4 DEF Referenced
  <2>3. CASE ok /\ new = f.status
    BY <2>1, <2>3, <1>4 DEF Referenced
  <2>4. CASE ok /\ new # f.status /\ new \in {"disclosed", "patched"}
    BY <2>4, <1>4 DEF Referenced, Allowed, BACKWARD_EDGES, FORWARD_EDGES
  <2>5. CASE ok /\ new \in {"candidate", "verified"}
    BY <2>5, <1>4 DEF Referenced
  <2> QED BY <2>2, <2>3, <2>4, <2>5 DEF Status
<1> QED BY <1>4, <1>6, <1>7 DEF Sound

\* VERIFY's own entry for a repro that did not reproduce keeps a record sound.
LEMMA UnreproducedSound ==
  ASSUME NEW f, Sound(f)
  PROVE  Sound(Unreproduced(f))
<1> DEFINE e == Entry(f, "verified", FALSE)
           g == Unreproduced(f)
<1>1. f \in Finding /\ f.status \in Status /\ f.log \in Seq(LogEntry)
  BY DEF Sound, Finding
<1>2. e \in LogEntry /\ e.from = f.status /\ After(e) = f.status
  BY <1>1 DEF Entry, LogEntry, After, Status
<1>3. /\ g \in Finding /\ g.status = f.status /\ g.refs = f.refs
      /\ g.log = Append(f.log, e)
  <2> DEFINE l == Append(f.log, e)
  <2>1. l \in Seq(LogEntry)
    <3> HIDE DEF e
    <3> QED BY <1>1, <1>2
  <2>2. g = [f EXCEPT !.log = l]
    BY DEF Unreproduced
  <2> HIDE DEF l, g
  <2>3. g \in Finding /\ g.status = f.status /\ g.refs = f.refs /\ g.log = l
    BY <1>1, <2>1, <2>2 DEF Finding
  <2> QED BY <2>3 DEF l
<1>4. Explained(g)
  BY <1>1, <1>2, <1>3, LogChain DEF Sound
<1> QED BY <1>3, <1>4 DEF Sound, Referenced

\* Setting or reverting the evidence_ref alone keeps a record sound.
LEMMA EvidenceSound ==
  ASSUME NEW f, Sound(f), NEW n \in Nat
  PROVE  Sound([f EXCEPT !.evidence = n])
  BY DEF Sound, Finding, Explained, Referenced

\* So does adding a reference of any kind.
LEMMA ReferenceSound ==
  ASSUME NEW f, Sound(f), NEW r \in RefKinds
  PROVE  Sound([f EXCEPT !.refs = @ \cup {r}])
  BY DEF Sound, Finding, Explained, Referenced
-----------------------------------------------------------------------------
ProtocolTyped ==
    /\ projects \in [Projects -> Contexts \cup {NoProject}]
    /\ sessions \in [SessionIds -> SessionRecord \cup {NoRecord}]
    /\ pc \in [Procs -> Labels]
    /\ run \in [Procs -> Locals]

StoreTyped ==
    /\ findings \in [Findings -> Finding]
    /\ details \in [SessionIds -> Detail \cup {NoDetail}]
    /\ work \in [Procs -> Work]

RecordsSound ==
    /\ \A f \in Findings : Sound(findings[f])
    /\ \A p \in Procs : Sound(work[p].held)

IInv == ProtocolTyped /\ StoreTyped /\ RecordsSound

\* generate_session_id counts: the id is always a number.
LEMMA NextSessionIdNat == NextSessionId \in Nat
<1>1. IsFiniteSet(SessionIds)
  BY FS_Interval, ProtocolAssumption DEF SessionIds
<1>2. OnDisk \subseteq SessionIds
  BY DEF OnDisk
<1>3. Cardinality(OnDisk) \in Nat
  BY <1>1, <1>2, FS_Subset, FS_CardinalityType
<1> QED BY <1>3 DEF NextSessionId

\* The gate answers proceed, hold or refuse.
LEMMA EvaluateOutcome == ASSUME NEW context PROVE Evaluate(context) \in Outcomes
  BY DEF Evaluate, Outcomes

LEMMA NoWorkTyped == NoWork \in Work /\ Sound(NoWork.held)
<1>1. (CHOOSE f \in Findings : TRUE) \in Findings
  BY VerifyAssumption
<1>2. NewCandidate \in Finding /\ Sound(NewCandidate)
  BY NewCandidateSound DEF Sound
<1> QED BY <1>1, <1>2 DEF NoWork, Work, Status

LEMMA NotRunningTyped == NotRunning \in Locals
  BY DEF NotRunning, Locals

\* The steps of run_session keep the protocol's state typed.
LEMMA ProtocolTyping ==
  ASSUME ProtocolTyped, NEW p \in Procs, ProtocolStep(p)
  PROVE  ProtocolTyped'
<1> USE DEF ProtocolTyped, Goto, Labels
<1>1. ASSUME NEW id \in Projects \cup {BadId}, Invoke(p, id) PROVE ProtocolTyped'
  <2>1. [sid |-> NextSessionId, project |-> id, gate |-> "none", steps |-> FALSE] \in Locals
    BY NextSessionIdNat DEF Locals
  <2> QED BY <1>1, <2>1 DEF Invoke
<1>2. CASE OpenRecord(p)
  BY <1>2 DEF OpenRecord, Save, SessionRecord
<1>3. CASE RefuseInvalid(p)
  BY <1>3, NotRunningTyped DEF RefuseInvalid, Save, SessionRecord, Leave, Outcomes
<1>4. CASE UnknownProject(p)
  BY <1>4, NotRunningTyped DEF UnknownProject, Leave
<1>5. CASE AskGate(p)
  <2> DEFINE o == Evaluate(projects[run[p].project])
  <2>1. o \in Outcomes
    BY EvaluateOutcome
  <2>2. /\ run' = [run EXCEPT ![p].gate = o, ![p].steps = (o # "proceed")]
        /\ pc' = [pc EXCEPT ![p] = IF o = "proceed" THEN "running" ELSE "returned"]
        /\ UNCHANGED <<projects, sessions>>
    BY <1>5 DEF AskGate
  <2> HIDE DEF o
  <2>3. run' \in [Procs -> Locals]
    BY <2>1, <2>2 DEF Locals
  <2> QED BY <2>2, <2>3
<1>6. CASE Close(p)
  BY <1>6, NotRunningTyped DEF Close, Save, SessionRecord, Leave, Locals
<1> QED BY <1>1, <1>2, <1>3, <1>4, <1>5, <1>6 DEF ProtocolStep

\* An exception leaves run_session with the record saved as interrupted.
LEMMA RaiseTyping ==
  ASSUME ProtocolTyped, NEW p \in Procs, Raise(p)
  PROVE  ProtocolTyped'
  BY NotRunningTyped DEF ProtocolTyped, Raise, Save, SessionRecord, Leave, Goto, Labels, Locals

\* What VERIFY does to pc and run keeps them typed.
LEMMA ReturnTyping ==
  ASSUME ProtocolTyped, NEW p \in Procs, Return(p), UNCHANGED <<projects, sessions>>
  PROVE  ProtocolTyped'
  BY DEF ProtocolTyped, Return, Goto, Labels, Locals

LEMMA GotoTyping ==
  ASSUME ProtocolTyped, NEW p \in Procs, NEW label \in Labels, Goto(p, label),
         UNCHANGED <<projects, sessions, run>>
  PROVE  ProtocolTyped'
  BY DEF ProtocolTyped, Goto

\* Dropping a process's locals, and loading a finding into them.
LEMMA ForgetSound ==
  ASSUME StoreTyped, RecordsSound, NEW p \in Procs, Forget(p), UNCHANGED details,
         findings' \in [Findings -> Finding], \A f \in Findings : Sound(findings'[f])
  PROVE  StoreTyped' /\ RecordsSound'
  BY NoWorkTyped DEF StoreTyped, RecordsSound, Forget

LEMMA HoldSound ==
  ASSUME StoreTyped, RecordsSound, NEW p \in Procs, NEW f \in Findings,
         NEW new \in Status, UNCHANGED <<findings, details>>,
         work' = [work EXCEPT ![p] = [finding |-> f, held |-> findings[f],
                                      was |-> findings[f].evidence, target |-> new]]
  PROVE  StoreTyped' /\ RecordsSound'
<1>1. findings[f] \in Finding /\ findings[f].evidence \in Nat /\ Sound(findings[f])
  BY DEF StoreTyped, RecordsSound, Finding
<1> QED BY <1>1 DEF StoreTyped, RecordsSound, Work

\* Reading the finding again replaces the copy by a sound one.
LEMMA RereadSound ==
  ASSUME StoreTyped, RecordsSound, NEW p \in Procs, UNCHANGED <<findings, details>>,
         work' = [work EXCEPT ![p].held = findings[work[p].finding]]
  PROVE  StoreTyped' /\ RecordsSound'
<1>1. work[p] \in Work /\ work[p].finding \in Findings
  BY DEF StoreTyped, Work
<1>2. findings[work[p].finding] \in Finding /\ Sound(findings[work[p].finding])
  BY <1>1 DEF StoreTyped, RecordsSound
<1> QED BY <1>1, <1>2 DEF StoreTyped, RecordsSound, Work

\* Saving a sound record leaves the findings on disk sound.
LEMMA SaveSound ==
  ASSUME StoreTyped, RecordsSound, NEW p \in Procs, NEW record, Sound(record),
         SaveFinding(p, record)
  PROVE  findings' \in [Findings -> Finding] /\ \A f \in Findings : Sound(findings'[f])
<1>1. work[p].finding \in Findings /\ record \in Finding
  BY DEF StoreTyped, Work, Sound
<1> QED BY <1>1 DEF StoreTyped, RecordsSound, SaveFinding
-----------------------------------------------------------------------------
LEMMA InitSound == Init => IInv
<1> SUFFICES ASSUME Init PROVE IInv
  OBVIOUS
<1>1. ProtocolTyped
  BY NotRunningTyped DEF Init, ProtocolInit, ProtocolTyped, Labels
<1>2. NewCandidate \in Finding /\ Sound(NewCandidate)
  BY NewCandidateSound DEF Sound
<1>3. StoreTyped /\ RecordsSound
  BY <1>2, NoWorkTyped DEF Init, StoreTyped, RecordsSound
<1> QED BY <1>1, <1>3 DEF IInv

\* Every step of VERIFY keeps the invariant: what it saves is a sound copy it
\* held, changed in its evidence only, or moved or logged through the guard.
LEMMA VerifyKeepsIInv ==
  ASSUME IInv, NEW p \in Procs, Verify(p)
  PROVE  IInv'
<1> USE DEF IInv
<1>1. work[p] \in Work /\ work[p].finding \in Findings /\ work[p].was \in Nat
      /\ Sound(work[p].held) /\ run[p].sid \in Nat
  BY DEF StoreTyped, Work, RecordsSound, ProtocolTyped, Locals
<1>a. findings \in [Findings -> Finding] /\ \A f \in Findings : Sound(findings[f])
  BY DEF StoreTyped, RecordsSound
<1>2. CASE FindingMissing(p)
  BY <1>2, RaiseTyping DEF FindingMissing, StoreTyped, RecordsSound
<1>3. CASE Refuse(p)
  BY <1>3, <1>a, ReturnTyping, ForgetSound DEF Refuse, Return
<1>4. CASE EnterSandbox(p)
  <2>1. PICK f \in Findings :
          work' = [work EXCEPT ![p] = [finding |-> f, held |-> findings[f],
                                       was |-> findings[f].evidence, target |-> "verified"]]
    BY <1>4 DEF EnterSandbox
  <2>2. ProtocolTyped'
    BY <1>4, GotoTyping DEF EnterSandbox, Labels
  <2>3. StoreTyped' /\ RecordsSound'
    BY <1>4, <2>1, HoldSound DEF EnterSandbox, Status
  <2> QED BY <2>2, <2>3
<1>5. CASE SandboxFails(p)
  BY <1>5, <1>a, RaiseTyping, ForgetSound DEF SandboxFails
<1>6. CASE DryRun(p)
  BY <1>6, <1>a, ReturnTyping, ForgetSound DEF DryRun, Return
<1>7. CASE PageEvidence(p)
  <2>1. PICK reproduced \in BOOLEAN :
          /\ details' = [details EXCEPT ![run[p].sid] =
                            [finding |-> work[p].finding, reproduced |-> reproduced]]
          /\ Goto(p, IF reproduced THEN "promoting" ELSE "leaving")
    BY <1>7 DEF PageEvidence
  <2>2. ProtocolTyped'
    BY <1>7, <2>1, GotoTyping DEF PageEvidence, Labels
  <2>3. StoreTyped' /\ RecordsSound'
    BY <1>1, <1>7, <2>1 DEF PageEvidence, StoreTyped, RecordsSound, Detail
  <2> QED BY <2>2, <2>3
<1>8. CASE SetEvidence(p)
  <2>1. findings' \in [Findings -> Finding] /\ \A f \in Findings : Sound(findings'[f])
    BY <1>1, <1>8, EvidenceSound, SaveSound DEF SetEvidence
  <2>2. ProtocolTyped'
    BY <1>8, GotoTyping DEF SetEvidence, Labels
  <2> QED BY <1>8, <2>1, <2>2 DEF SetEvidence, StoreTyped, RecordsSound
<1>9. CASE ReadForTransition(p)
  BY <1>9, RereadSound, GotoTyping DEF ReadForTransition, Labels
<1>10. CASE Promote(p)
  <2>1. Sound(Transitioned(work[p].held, "verified", Resolving))
    BY <1>1, TransitionedSound DEF Status
  <2>2. findings' \in [Findings -> Finding] /\ \A f \in Findings : Sound(findings'[f])
    BY <1>10, <2>1, SaveSound DEF Promote
  <2>3. CASE Return(p)
    BY <1>10, <2>2, <2>3, ReturnTyping, ForgetSound DEF Promote, Return
  <2>4. CASE Goto(p, "rejected") /\ UNCHANGED <<run, work>>
    <3>1. ProtocolTyped'
      BY <1>10, <2>4, GotoTyping DEF Promote, Labels
    <3> QED BY <1>10, <2>2, <2>4, <3>1 DEF Promote, StoreTyped, RecordsSound
  <2> QED BY <1>10, <2>3, <2>4 DEF Promote
<1>11. CASE Reload(p)
  BY <1>11, RereadSound, GotoTyping DEF Reload, Labels
<1>12. CASE RevertEvidence(p)
  <2>1. findings' \in [Findings -> Finding] /\ \A f \in Findings : Sound(findings'[f])
    BY <1>1, <1>12, EvidenceSound, SaveSound DEF RevertEvidence
  <2> QED BY <1>12, <2>1, ReturnTyping, ForgetSound DEF RevertEvidence, Return
<1>13. CASE LeaveCandidate(p)
  <2>1. findings' \in [Findings -> Finding] /\ \A f \in Findings : Sound(findings'[f])
    BY <1>1, <1>13, UnreproducedSound, SaveSound DEF LeaveCandidate
  <2> QED BY <1>13, <2>1, ReturnTyping, ForgetSound DEF LeaveCandidate, Return
<1> QED BY <1>2, <1>3, <1>4, <1>5, <1>6, <1>7, <1>8, <1>9, <1>10, <1>11, <1>12, <1>13
        DEF Verify

\* The invariant is inductive.
LEMMA NextKeepsIInv == IInv /\ [Next]_vars => IInv'
<1> SUFFICES ASSUME IInv, [Next]_vars PROVE IInv'
  OBVIOUS
<1> USE DEF IInv
<1>a. findings \in [Findings -> Finding] /\ \A f \in Findings : Sound(findings[f])
  BY DEF StoreTyped, RecordsSound
<1>1. ASSUME NEW p \in Procs, ProtocolStep(p), UNCHANGED <<findings, details, work>>
      PROVE  IInv'
  BY <1>1, ProtocolTyping DEF StoreTyped, RecordsSound
<1>2. ASSUME NEW p \in Procs, Verify(p) PROVE IInv'
  BY <1>2, VerifyKeepsIInv
<1>3. ASSUME NEW p \in Procs, NEW f \in Findings, NEW new \in Status, AskTransition(p, f, new)
      PROVE  IInv'
  BY <1>3, HoldSound, GotoTyping DEF AskTransition, Labels
<1>4. ASSUME NEW p \in Procs, Transition(p) PROVE IInv'
  <2>1. work[p] \in Work /\ work[p].target \in Status /\ Sound(work[p].held)
    BY DEF StoreTyped, Work, RecordsSound
  <2>2. Sound(Transitioned(work[p].held, work[p].target, Resolving))
    BY <2>1, TransitionedSound
  <2>3. findings' \in [Findings -> Finding] /\ \A f \in Findings : Sound(findings'[f])
    BY <1>4, <2>2, SaveSound DEF Transition
  <2>4. ProtocolTyped'
    BY <1>4, GotoTyping DEF Transition, Labels
  <2> QED BY <1>4, <2>3, <2>4, ForgetSound DEF Transition
<1>5. ASSUME NEW p \in Procs, Crash(p), Forget(p), UNCHANGED <<findings, details>>
      PROVE  IInv'
  <2>1. ProtocolTyped'
    BY <1>5, NotRunningTyped DEF Crash, Leave, Goto, ProtocolTyped, Labels
  <2> QED BY <1>5, <1>a, <2>1, ForgetSound
<1>6. ASSUME NEW id \in Projects, EditProject(id), UNCHANGED <<findings, details, work>>
      PROVE  IInv'
  BY <1>6 DEF EditProject, ProtocolTyped, StoreTyped, RecordsSound
<1>7. ASSUME NEW f \in Findings, AddReference(f) PROVE IInv'
  <2>1. PICK r \in RefKinds : findings' = [findings EXCEPT ![f].refs = @ \cup {r}]
    BY <1>7 DEF AddReference
  <2>2. Sound([findings[f] EXCEPT !.refs = @ \cup {r}])
    BY <1>a, ReferenceSound
  <2>3. findings' = [findings EXCEPT ![f] = [findings[f] EXCEPT !.refs = @ \cup {r}]]
    BY <2>1
  <2>4. findings' \in [Findings -> Finding] /\ \A g \in Findings : Sound(findings'[g])
    BY <1>a, <2>2, <2>3 DEF Sound
  <2> QED BY <1>7, <2>4 DEF AddReference, ProtocolTyped, StoreTyped, RecordsSound
<1>8. CASE UNCHANGED vars
  BY <1>8 DEF vars, ProtocolTyped, StoreTyped, RecordsSound
<1> QED BY <1>1, <1>2, <1>3, <1>4, <1>5, <1>6, <1>7, <1>8 DEF Next

LEMMA IInvHolds == Spec => []IInv
  BY InitSound, NextKeepsIInv, PTL DEF Spec

\* The records of the store and of every process stay typed (TypeOK), with any
\* number of concurrent sessions, operators and crashes.
THEOREM VerifyTyping == Spec => []TypeOK
<1>1. IInv => TypeOK
  BY DEF IInv, ProtocolTyped, StoreTyped, TypeOK
<1> QED BY <1>1, IInvHolds, PTL

\* However VERIFY sessions, transitions and crashes interleave, the log of a
\* finding explains the status it has.
THEOREM LogAlwaysExplains == Spec => []LogExplainsStatus
<1>1. IInv => LogExplainsStatus
  BY DEF IInv, RecordsSound, Sound, LogExplainsStatus
<1> QED BY <1>1, IInvHolds, PTL

\* However they interleave, a disclosed or patched finding carries the
\* references the guard asked of it.
THEOREM AdvancedAlwaysReferenced == Spec => []AdvancedIsReferenced
<1>1. IInv => AdvancedIsReferenced
  BY DEF IInv, RecordsSound, Sound, AdvancedIsReferenced
<1> QED BY <1>1, IInvHolds, PTL
-----------------------------------------------------------------------------
\* One command runs at a time: the operator's discipline, no lock enforces it.
Solo == \A p, q \in Procs : p = q

Reproduced(f) == [finding |-> f, reproduced |-> TRUE]

\* Ids are dense, and a numbered session has the next one.
IdsDense ==
    \E n \in Nat :
        /\ OnDisk = 1 .. n
        /\ \A p \in Procs : pc[p] = "numbered" => run[p].sid = n + 1 /\ n + 1 \in SessionIds

\* A session past its first save is on disk; an artifact belongs to one.
SessionsOnDisk ==
    /\ \A p \in Procs :
         pc[p] \notin {"idle", "numbered", "moving"} => run[p].sid \in OnDisk
    /\ Resolving \subseteq OnDisk

\* Before VERIFY pages, its artifact does not exist; after a reproduction it
\* records one of the finding at hand.
ArtifactOfRun ==
    \A p \in Procs :
        /\ pc[p] \in {"opened", "running", "sandbox"} => details[run[p].sid] = NoDetail
        /\ pc[p] \in {"promoting", "asking", "deciding"} =>
             details[run[p].sid] = Reproduced(work[p].finding)

\* Evidence on a finding is a reproduction of it, and an advanced finding has some.
EvidenceReal ==
    \A f \in Findings :
        /\ findings[f].evidence # 0 => /\ findings[f].evidence \in SessionIds
                                       /\ details[findings[f].evidence] = Reproduced(f)
        /\ findings[f].status # "candidate" => findings[f].evidence # 0

\* The copy in memory agrees with the disk, references aside.
CopyCurrent ==
    \A p \in Procs :
        LET f == work[p].finding IN
        /\ pc[p] \in {"sandbox", "promoting", "leaving", "deciding", "moving"} =>
             /\ work[p].held.status = findings[f].status
             /\ work[p].held.evidence = findings[f].evidence
             /\ work[p].held.log = findings[f].log
        /\ pc[p] \in {"sandbox", "promoting", "leaving", "asking", "deciding"} =>
             findings[f].status = "candidate"
        /\ pc[p] \in {"asking", "deciding"} => findings[f].evidence = run[p].sid
        /\ pc[p] \notin {"rejected", "reverting"}

SoloInv == IdsDense /\ SessionsOnDisk /\ ArtifactOfRun /\ EvidenceReal /\ CopyCurrent
-----------------------------------------------------------------------------
\* Rewriting the record of a session that is on disk moves no id.
LEMMA SaveKeepsIds ==
  ASSUME ProtocolTyped, NEW p \in Procs, run[p].sid \in OnDisk,
         NEW gate \in Outcomes \cup {"none"}, NEW close \in {"interrupted", "clean"},
         Save(p, gate, close)
  PROVE  OnDisk' = OnDisk
<1>1. [gate |-> gate, close |-> close] # NoRecord
  BY ProtocolAssumption DEF SessionRecord
<1> QED BY <1>1 DEF ProtocolTyped, Save, OnDisk

\* What the invariant says of a process between two sessions is nothing.
LEMMA IdleKeeps ==
  ASSUME Solo, SoloInv, NEW p \in Procs, pc' = [pc EXCEPT ![p] = "idle"],
         pc \in [Procs -> Labels], OnDisk' = OnDisk, UNCHANGED <<findings, details>>
  PROVE  SoloInv'
<1>1. \A q \in Procs : pc'[q] = "idle"
  BY DEF Solo
<1>2. Resolving' = Resolving
  BY DEF Resolving
<1> QED BY <1>1, <1>2 DEF SoloInv, IdsDense, SessionsOnDisk, ArtifactOfRun, EvidenceReal, CopyCurrent

LEMMA SoloProtocolStep ==
  ASSUME Solo, IInv, SoloInv, NEW p \in Procs, ProtocolStep(p),
         UNCHANGED <<findings, details, work>>
  PROVE  SoloInv'
<1>1. ProtocolTyped /\ pc \in [Procs -> Labels] /\ run \in [Procs -> Locals]
      /\ run[p].gate \in Outcomes \cup {"none"} /\ Resolving' = Resolving
  BY DEF IInv, ProtocolTyped, Locals, Resolving
<1>2. \A q \in Procs : q = p
  BY DEF Solo
<1>3. EvidenceReal'
  BY DEF SoloInv, EvidenceReal
<1>4. ASSUME NEW id \in Projects \cup {BadId}, Invoke(p, id) PROVE SoloInv'
  <2>1. PICK n \in Nat : OnDisk = 1 .. n
    BY DEF SoloInv, IdsDense
  <2>2. NextSessionId = n + 1
    <3>1. Cardinality(1 .. n) = n
      BY FS_Interval
    <3> QED BY <2>1, <3>1 DEF NextSessionId
  <2>3. n + 1 \in SessionIds
    BY <1>4, <2>2, ProtocolAssumption DEF Invoke, SessionIds
  <2>4. pc'[p] = "numbered" /\ run'[p].sid = n + 1 /\ OnDisk' = OnDisk
    BY <1>1, <1>4, <2>2 DEF Invoke, Goto, OnDisk
  <2>5. IdsDense'
    BY <1>2, <2>1, <2>3, <2>4 DEF IdsDense
  <2> QED BY <1>1, <1>2, <1>3, <2>4, <2>5
          DEF SoloInv, SessionsOnDisk, ArtifactOfRun, CopyCurrent
<1>5. CASE OpenRecord(p)
  <2>1. PICK n \in Nat : OnDisk = 1 .. n /\ run[p].sid = n + 1 /\ n + 1 \in SessionIds
    BY <1>5 DEF SoloInv, IdsDense, OpenRecord
  <2>2. [gate |-> "none", close |-> "interrupted"] # NoRecord
    BY ProtocolAssumption DEF SessionRecord
  <2>3. OnDisk' = OnDisk \cup {n + 1}
    BY <1>1, <1>5, <2>1, <2>2 DEF OpenRecord, Save, OnDisk, ProtocolTyped
  <2>4. OnDisk' = 1 .. (n + 1)
    BY <2>1, <2>3
  <2>5. n + 1 \notin Resolving
    BY <2>1 DEF SoloInv, SessionsOnDisk
  <2>6. details[n + 1] = NoDetail
    BY <2>1, <2>5 DEF Resolving
  <2>7. pc'[p] \in {"invalid", "opened"} /\ run' = run
    BY <1>1, <1>5 DEF OpenRecord, Goto
  <2>8. IdsDense'
    BY <1>2, <2>4, <2>7 DEF IdsDense
  <2>9. SessionsOnDisk'
    BY <1>1, <1>2, <2>1, <2>3, <2>7 DEF SoloInv, SessionsOnDisk
  <2> QED BY <1>2, <1>3, <2>1, <2>6, <2>7, <2>8, <2>9 DEF SoloInv, ArtifactOfRun, CopyCurrent
<1>6. CASE RefuseInvalid(p)
  <2>1. OnDisk' = OnDisk
    BY <1>1, <1>6, SaveKeepsIds DEF RefuseInvalid, SoloInv, SessionsOnDisk, Outcomes
  <2> QED BY <1>1, <1>6, <2>1, IdleKeeps DEF RefuseInvalid, Leave, Goto
<1>7. CASE UnknownProject(p)
  <2>1. OnDisk' = OnDisk
    BY <1>7 DEF UnknownProject, OnDisk
  <2> QED BY <1>1, <1>7, <2>1, IdleKeeps DEF UnknownProject, Leave, Goto
<1>8. CASE AskGate(p)
  <2>1. pc[p] = "opened" /\ pc'[p] \in {"running", "returned"} /\ run'[p].sid = run[p].sid
        /\ OnDisk' = OnDisk
    BY <1>1, <1>8 DEF AskGate, Goto, OnDisk, Locals
  <2> QED BY <1>1, <1>2, <1>3, <2>1
          DEF SoloInv, IdsDense, SessionsOnDisk, ArtifactOfRun, CopyCurrent
<1>9. CASE Close(p)
  <2>1. OnDisk' = OnDisk
    BY <1>1, <1>9, SaveKeepsIds DEF Close, SoloInv, SessionsOnDisk
  <2> QED BY <1>1, <1>9, <2>1, IdleKeeps DEF Close, Leave, Goto
<1> QED BY <1>4, <1>5, <1>6, <1>7, <1>8, <1>9 DEF ProtocolStep

\* An exception between the gate and the return.
LEMMA SoloRaise ==
  ASSUME Solo, IInv, SoloInv, NEW p \in Procs, pc[p] \in {"running", "sandbox"}, Raise(p),
         UNCHANGED <<findings, details>>
  PROVE  SoloInv'
<1>1. ProtocolTyped /\ pc \in [Procs -> Labels] /\ run[p].gate \in Outcomes \cup {"none"}
  BY DEF IInv, ProtocolTyped, Locals
<1>2. OnDisk' = OnDisk
  BY <1>1, SaveKeepsIds DEF Raise, SoloInv, SessionsOnDisk
<1> QED BY <1>1, <1>2, IdleKeeps DEF Raise, Leave, Goto

\* A session that returns needs only its id on disk.
LEMMA SoloReturn ==
  ASSUME Solo, IInv, SoloInv, NEW p \in Procs, pc[p] \notin {"idle", "numbered", "moving"},
         Return(p), UNCHANGED <<sessions, details>>, EvidenceReal'
  PROVE  SoloInv'
<1>1. /\ \A q \in Procs : q = p
      /\ pc'[p] = "returned" /\ run'[p].sid = run[p].sid
      /\ OnDisk' = OnDisk /\ Resolving' = Resolving
  BY DEF Solo, IInv, ProtocolTyped, Return, Goto, OnDisk, Resolving, Locals
<1> QED BY <1>1 DEF SoloInv, IdsDense, SessionsOnDisk, ArtifactOfRun, CopyCurrent
-----------------------------------------------------------------------------
\* The facts about the one process that the steps of VERIFY start from.
LEMMA SoloFacts ==
  ASSUME Solo, IInv, SoloInv, NEW p \in Procs
  PROVE  /\ \A q \in Procs : q = p
         /\ ProtocolTyped /\ StoreTyped
         /\ pc \in [Procs -> Labels] /\ run \in [Procs -> Locals]
         /\ findings \in [Findings -> Finding]
         /\ work[p] \in Work /\ work[p].finding \in Findings /\ work[p].held \in Finding
         /\ OnDisk \subseteq SessionIds /\ 0 \notin SessionIds
  BY DEF Solo, IInv, ProtocolTyped, StoreTyped, Work, OnDisk, SessionIds

\* Entering the sandbox: the copy is the record on disk.
LEMMA SoloEnter ==
  ASSUME Solo, IInv, SoloInv, NEW p \in Procs, EnterSandbox(p)
  PROVE  SoloInv'
<1>1. PICK f \in Findings :
        /\ findings[f].status = "candidate"
        /\ work' = [work EXCEPT ![p] = [finding |-> f, held |-> findings[f],
                                        was |-> findings[f].evidence, target |-> "verified"]]
  BY DEF EnterSandbox
<1>2. /\ pc[p] = "running" /\ pc'[p] = "sandbox"
      /\ work'[p].finding = f /\ work'[p].held = findings[f]
      /\ OnDisk' = OnDisk /\ Resolving' = Resolving /\ UNCHANGED <<run, findings, details>>
  BY <1>1, SoloFacts DEF EnterSandbox, Goto, OnDisk, Resolving, StoreTyped
<1> QED BY <1>1, <1>2, SoloFacts
        DEF SoloInv, IdsDense, SessionsOnDisk, ArtifactOfRun, EvidenceReal, CopyCurrent

\* Paging the result: the artifact is new, so no evidence in use changes.
LEMMA SoloPage ==
  ASSUME Solo, IInv, SoloInv, NEW p \in Procs, PageEvidence(p)
  PROVE  SoloInv'
<1>1. PICK reproduced \in BOOLEAN :
        /\ details' = [details EXCEPT ![run[p].sid] =
                          [finding |-> work[p].finding, reproduced |-> reproduced]]
        /\ Goto(p, IF reproduced THEN "promoting" ELSE "leaving")
  BY DEF PageEvidence
<1>2. /\ pc[p] = "sandbox" /\ run[p].sid \in OnDisk /\ details[run[p].sid] = NoDetail
      /\ OnDisk' = OnDisk /\ UNCHANGED <<run, findings, work>>
      /\ pc'[p] = IF reproduced THEN "promoting" ELSE "leaving"
  BY <1>1, SoloFacts DEF PageEvidence, Goto, OnDisk, SoloInv, SessionsOnDisk, ArtifactOfRun
<1>3. /\ details'[run[p].sid] = [finding |-> work[p].finding, reproduced |-> reproduced]
      /\ \A s \in SessionIds : s # run[p].sid => details'[s] = details[s]
  BY <1>1, <1>2, SoloFacts DEF StoreTyped
<1>4. \A f \in Findings : Reproduced(f) # NoDetail
  <2>1. \A f \in Findings : Reproduced(f) \in [finding : Findings, reproduced : BOOLEAN]
    BY DEF Reproduced
  <2> QED BY <2>1, VerifyAssumption
<1>5. EvidenceReal'
  BY <1>2, <1>3, <1>4 DEF SoloInv, EvidenceReal
<1>6. Resolving' \subseteq Resolving \cup {run[p].sid}
  BY <1>3 DEF Resolving
<1>7. IdsDense'
  BY <1>2, SoloFacts DEF SoloInv, IdsDense
<1>8. SessionsOnDisk'
  BY <1>2, <1>6, SoloFacts DEF SoloInv, SessionsOnDisk
<1>9. ArtifactOfRun'
  <2>1. pc'[p] = "promoting" => details'[run[p].sid] = Reproduced(work[p].finding)
    BY <1>2, <1>3 DEF Reproduced
  <2>2. pc'[p] \in {"promoting", "leaving"}
    BY <1>2
  <2> QED BY <1>2, <2>1, <2>2, SoloFacts DEF ArtifactOfRun
<1>10. CopyCurrent'
  <2>1. pc'[p] \in {"promoting", "leaving"}
    BY <1>2
  <2> QED BY <1>2, <2>1, SoloFacts DEF SoloInv, CopyCurrent
<1> QED BY <1>5, <1>7, <1>8, <1>9, <1>10 DEF SoloInv

\* Saving the finding with its new evidence.
LEMMA SoloSetEvidence ==
  ASSUME Solo, IInv, SoloInv, NEW p \in Procs, SetEvidence(p)
  PROVE  SoloInv'
<1> DEFINE f == work[p].finding
<1>1. /\ pc[p] = "promoting" /\ pc'[p] = "asking"
      /\ OnDisk' = OnDisk /\ Resolving' = Resolving /\ UNCHANGED <<run, details, work>>
      /\ findings' = [findings EXCEPT ![f] = [work[p].held EXCEPT !.evidence = run[p].sid]]
  BY SoloFacts DEF SetEvidence, Goto, OnDisk, Resolving, SaveFinding
<1>2. /\ findings'[f].evidence = run[p].sid
      /\ findings'[f].status = "candidate"
      /\ \A g \in Findings : g # f => findings'[g] = findings[g]
  BY <1>1, SoloFacts DEF SoloInv, CopyCurrent, Finding
<1>3. run[p].sid \in SessionIds /\ details[run[p].sid] = Reproduced(f)
  BY <1>1, SoloFacts DEF SoloInv, SessionsOnDisk, ArtifactOfRun
<1>4. EvidenceReal'
  BY <1>1, <1>2, <1>3 DEF SoloInv, EvidenceReal
<1> QED BY <1>1, <1>2, <1>4, SoloFacts
        DEF SoloInv, IdsDense, SessionsOnDisk, ArtifactOfRun, CopyCurrent

\* transition_finding reads back what was just saved.
LEMMA SoloRead ==
  ASSUME Solo, IInv, SoloInv, NEW p \in Procs, ReadForTransition(p)
  PROVE  SoloInv'
<1>1. /\ pc[p] = "asking" /\ pc'[p] = "deciding"
      /\ OnDisk' = OnDisk /\ Resolving' = Resolving /\ UNCHANGED <<run, findings, details>>
      /\ work'[p].finding = work[p].finding
      /\ work'[p].held = findings[work[p].finding]
  BY SoloFacts DEF ReadForTransition, Goto, OnDisk, Resolving, StoreTyped, Work
<1> QED BY <1>1, SoloFacts
        DEF SoloInv, IdsDense, SessionsOnDisk, ArtifactOfRun, EvidenceReal, CopyCurrent

\* What transition_finding changes in the record it saves.
LEMMA TransitionedFields ==
  ASSUME NEW f \in Finding, NEW new \in Status, NEW resolving
  PROVE  /\ Transitioned(f, new, resolving).evidence = f.evidence
         /\ Transitioned(f, new, resolving).status =
              IF Allowed(f, new, resolving) THEN new ELSE f.status
<1> DEFINE ok == Allowed(f, new, resolving)
           s == IF ok THEN new ELSE f.status
           l == Append(f.log, Entry(f, new, ok))
<1>1. Transitioned(f, new, resolving) = [f EXCEPT !.status = s, !.log = l]
  BY DEF Transitioned
<1> HIDE DEF s, l
<1>2. [f EXCEPT !.status = s, !.log = l].evidence = f.evidence
      /\ [f EXCEPT !.status = s, !.log = l].status = s
  BY DEF Finding
<1> QED BY <1>1, <1>2 DEF s

LEMMA UnreproducedFields ==
  ASSUME NEW f \in Finding
  PROVE  Unreproduced(f).evidence = f.evidence /\ Unreproduced(f).status = f.status
<1> DEFINE l == Append(f.log, Entry(f, "verified", FALSE))
<1>1. Unreproduced(f) = [f EXCEPT !.log = l]
  BY DEF Unreproduced
<1> HIDE DEF l
<1> QED BY <1>1 DEF Finding

\* VERIFY's own move: the evidence just paged resolves, so the guard accepts.
LEMMA PromoteAllowed ==
  ASSUME Solo, IInv, SoloInv, NEW p \in Procs, Promote(p)
  PROVE  LET f == work[p].finding IN
         /\ findings[f].status = "candidate"
         /\ findings[f].evidence = run[p].sid /\ run[p].sid \in OnDisk
         /\ details[run[p].sid] = Reproduced(f)
         /\ findings' = [findings EXCEPT ![f] = Transitioned(work[p].held, "verified", Resolving)]
         /\ findings'[f].status = "verified" /\ findings'[f].evidence = run[p].sid
         /\ Return(p)
<1> DEFINE f == work[p].finding
<1>1. /\ findings[f].status = "candidate"
      /\ findings[f].evidence = run[p].sid /\ run[p].sid \in OnDisk
      /\ work[p].held.status = "candidate" /\ work[p].held.evidence = run[p].sid
      /\ details[run[p].sid] = Reproduced(f)
  BY SoloFacts DEF Promote, SoloInv, SessionsOnDisk, ArtifactOfRun, CopyCurrent
<1>2. run[p].sid \in Resolving
  <2>1. Reproduced(f) \in [finding : Findings, reproduced : BOOLEAN]
    BY SoloFacts DEF Reproduced
  <2> QED BY <1>1, <2>1, SoloFacts, VerifyAssumption DEF Resolving
<1>3. Allowed(work[p].held, "verified", Resolving)
  BY <1>1, <1>2 DEF Allowed
<1>4. Return(p) /\ findings' = [findings EXCEPT ![f] = Transitioned(work[p].held, "verified", Resolving)]
  BY <1>3 DEF Promote, SaveFinding
<1>5. findings'[f] = Transitioned(work[p].held, "verified", Resolving)
  BY <1>4, SoloFacts
<1>6. findings'[f].status = "verified" /\ findings'[f].evidence = run[p].sid
  BY <1>1, <1>3, <1>5, SoloFacts, TransitionedFields DEF Status
<1> QED BY <1>1, <1>4, <1>6

LEMMA SoloPromote ==
  ASSUME Solo, IInv, SoloInv, NEW p \in Procs, Promote(p)
  PROVE  SoloInv'
<1> DEFINE f == work[p].finding
<1>1. /\ findings'[f].status = "verified" /\ findings'[f].evidence = run[p].sid
      /\ run[p].sid \in OnDisk /\ details[run[p].sid] = Reproduced(f) /\ Return(p)
      /\ \A g \in Findings : g # f => findings'[g] = findings[g]
      /\ UNCHANGED <<sessions, details>> /\ pc[p] = "deciding"
  BY PromoteAllowed, SoloFacts DEF Promote
<1>2. EvidenceReal'
  BY <1>1, SoloFacts DEF SoloInv, EvidenceReal
<1> QED BY <1>1, <1>2, SoloReturn

\* A failed attempt goes on the log; status and evidence stay.
LEMMA LeaveKeeps ==
  ASSUME Solo, IInv, SoloInv, NEW p \in Procs, LeaveCandidate(p)
  PROVE  \A g \in Findings : /\ findings'[g].status = findings[g].status
                             /\ findings'[g].evidence = findings[g].evidence
<1> DEFINE f == work[p].finding
<1>1. work[p].held.status = findings[f].status /\ work[p].held.evidence = findings[f].evidence
  BY DEF LeaveCandidate, SoloInv, CopyCurrent
<1>2. findings' = [findings EXCEPT ![f] = Unreproduced(work[p].held)]
  BY DEF LeaveCandidate, SaveFinding
<1>3. Unreproduced(work[p].held).status = findings[f].status
      /\ Unreproduced(work[p].held).evidence = findings[f].evidence
  BY <1>1, SoloFacts, UnreproducedFields
<1> QED BY <1>2, <1>3, SoloFacts

LEMMA SoloLeave ==
  ASSUME Solo, IInv, SoloInv, NEW p \in Procs, LeaveCandidate(p)
  PROVE  SoloInv'
<1>1. Return(p) /\ UNCHANGED <<sessions, details>> /\ pc[p] = "leaving"
  BY DEF LeaveCandidate
<1>2. EvidenceReal'
  BY <1>1, LeaveKeeps DEF SoloInv, EvidenceReal
<1> QED BY <1>1, <1>2, SoloReturn

\* A person's move: an edge that the guard allows, or no move at all.
LEMMA TransitionMoves ==
  ASSUME Solo, IInv, SoloInv, NEW p \in Procs, Transition(p)
  PROVE  LET f == work[p].finding
             old == findings[f].status
             new == findings'[f].status IN
         /\ findings'[f].evidence = findings[f].evidence
         /\ \A g \in Findings : g # f => findings'[g] = findings[g]
         /\ \/ new = old
            \/ <<old, new>> \in BACKWARD_EDGES /\ old # "candidate"
            \/ old = "candidate" /\ new = "verified" /\ findings[f].evidence \in Resolving
            \/ old = "verified" /\ new \in {"disclosed", "patched"}
<1> DEFINE f == work[p].finding
           g == Transitioned(work[p].held, work[p].target, Resolving)
<1>1. work[p].held.status = findings[f].status /\ work[p].held.evidence = findings[f].evidence
  BY DEF Transition, SoloInv, CopyCurrent
<1>2. findings' = [findings EXCEPT ![f] = g]
  BY DEF Transition, SaveFinding
<1>3. findings'[f] = g /\ \A h \in Findings : h # f => findings'[h] = findings[h]
  BY <1>2, SoloFacts
<1>4. g.evidence = findings[f].evidence
      /\ g.status = IF Allowed(work[p].held, work[p].target, Resolving)
                    THEN work[p].target ELSE findings[f].status
  BY <1>1, SoloFacts, TransitionedFields DEF Work
<1> HIDE DEF g
<1> QED BY <1>1, <1>3, <1>4 DEF Allowed, BACKWARD_EDGES, FORWARD_EDGES

\* Evidence that resolves is a reproduction, so what a person moves has one.
LEMMA TransitionReal ==
  ASSUME Solo, IInv, SoloInv, NEW p \in Procs, Transition(p)
  PROVE  EvidenceReal'
<1> DEFINE f == work[p].finding
<1>1. details' = details /\ EvidenceReal
  BY DEF Transition, SoloInv
<1>2. findings'[f].status # "candidate" => findings[f].evidence # 0
  BY <1>1, TransitionMoves, SoloFacts DEF EvidenceReal, Resolving, BACKWARD_EDGES, FORWARD_EDGES
<1>3. /\ f \in Findings /\ findings'[f].evidence = findings[f].evidence
      /\ \A g \in Findings : g # f => findings'[g] = findings[g]
  BY TransitionMoves, SoloFacts
<1> HIDE DEF f
<1> QED BY <1>1, <1>2, <1>3 DEF EvidenceReal

LEMMA SoloTransition ==
  ASSUME Solo, IInv, SoloInv, NEW p \in Procs, Transition(p)
  PROVE  SoloInv'
<1>1. /\ \A q \in Procs : pc'[q] = "idle"
      /\ OnDisk' = OnDisk /\ Resolving' = Resolving
  BY SoloFacts DEF Transition, Goto, OnDisk, Resolving
<1> QED BY <1>1, TransitionReal
        DEF SoloInv, IdsDense, SessionsOnDisk, ArtifactOfRun, CopyCurrent

LEMMA SoloAddReference ==
  ASSUME Solo, IInv, SoloInv, NEW f \in Findings, AddReference(f)
  PROVE  /\ \A g \in Findings : /\ findings'[g].status = findings[g].status
                                /\ findings'[g].evidence = findings[g].evidence
         /\ SoloInv'
<1>1. PICK r \in RefKinds : findings' = [findings EXCEPT ![f].refs = @ \cup {r}]
  BY DEF AddReference
<1>2. \A g \in Findings : /\ findings'[g].status = findings[g].status
                          /\ findings'[g].evidence = findings[g].evidence
                          /\ findings'[g].log = findings[g].log
  BY <1>1 DEF IInv, StoreTyped, Finding
<1>3. /\ OnDisk' = OnDisk /\ Resolving' = Resolving
      /\ UNCHANGED <<pc, run, details, work>>
      /\ \A p \in Procs : work[p].finding \in Findings
  BY SoloFacts DEF AddReference, OnDisk, Resolving
<1>4. EvidenceReal'
  BY <1>2, <1>3 DEF SoloInv, EvidenceReal
<1>5. CopyCurrent'
  BY <1>2, <1>3 DEF SoloInv, CopyCurrent
<1>6. IdsDense' /\ SessionsOnDisk' /\ ArtifactOfRun'
  BY <1>3 DEF SoloInv, IdsDense, SessionsOnDisk, ArtifactOfRun
<1> QED BY <1>2, <1>4, <1>5, <1>6 DEF SoloInv

\* Calling transition_finding: the process now holds what is on disk.
LEMMA SoloAsk ==
  ASSUME Solo, IInv, SoloInv, NEW p \in Procs, NEW f \in Findings, NEW new \in Status,
         AskTransition(p, f, new)
  PROVE  SoloInv'
<1>1. /\ pc[p] = "idle" /\ pc'[p] = "moving"
      /\ work'[p].finding = f /\ work'[p].held = findings[f]
      /\ OnDisk' = OnDisk /\ Resolving' = Resolving /\ UNCHANGED <<run, findings, details>>
  BY SoloFacts DEF AskTransition, Goto, OnDisk, Resolving, StoreTyped
<1> QED BY <1>1, SoloFacts
        DEF SoloInv, IdsDense, SessionsOnDisk, ArtifactOfRun, EvidenceReal, CopyCurrent

LEMMA SoloVerify ==
  ASSUME Solo, IInv, SoloInv, NEW p \in Procs, Verify(p)
  PROVE  SoloInv'
<1>1. CASE FindingMissing(p)
  BY <1>1, SoloRaise DEF FindingMissing
<1>2. CASE Refuse(p)
  BY <1>2, SoloReturn DEF Refuse, SoloInv, EvidenceReal
<1>3. CASE SandboxFails(p)
  BY <1>3, SoloRaise DEF SandboxFails
<1>4. CASE DryRun(p)
  BY <1>4, SoloReturn DEF DryRun, SoloInv, EvidenceReal
<1>5. CASE Reload(p) \/ RevertEvidence(p)
  BY <1>5 DEF Reload, RevertEvidence, SoloInv, CopyCurrent
<1> QED BY <1>1, <1>2, <1>3, <1>4, <1>5, SoloEnter, SoloPage, SoloSetEvidence, SoloRead,
           SoloPromote, SoloLeave DEF Verify

LEMMA SoloInitial == Init => SoloInv
<1> SUFFICES ASSUME Init PROVE SoloInv
  OBVIOUS
<1>1. OnDisk = {} /\ Resolving = {}
  BY DEF Init, ProtocolInit, OnDisk, Resolving
<1>2. IdsDense
  <2>1. OnDisk = 1 .. 0
    BY <1>1
  <2> QED BY <2>1 DEF Init, ProtocolInit, IdsDense
<1>3. EvidenceReal
  BY DEF Init, NewCandidate, EvidenceReal
<1> QED BY <1>1, <1>2, <1>3 DEF Init, ProtocolInit, SoloInv, SessionsOnDisk, ArtifactOfRun, CopyCurrent

LEMMA SoloNext == Solo /\ IInv /\ SoloInv /\ [Next]_vars => SoloInv'
<1> SUFFICES ASSUME Solo, IInv, SoloInv, [Next]_vars PROVE SoloInv'
  OBVIOUS
<1>1. ASSUME NEW p \in Procs, Crash(p), Forget(p), UNCHANGED <<findings, details>>
      PROVE  SoloInv'
  BY <1>1, SoloFacts, IdleKeeps DEF Crash, Leave, Goto, OnDisk
<1>2. ASSUME NEW id \in Projects, EditProject(id), UNCHANGED <<findings, details, work>>
      PROVE  SoloInv'
  BY <1>2 DEF EditProject, SoloInv, IdsDense, SessionsOnDisk, ArtifactOfRun, EvidenceReal,
              CopyCurrent, OnDisk, Resolving
<1>3. CASE UNCHANGED vars
  BY <1>3 DEF vars, SoloInv, IdsDense, SessionsOnDisk, ArtifactOfRun, EvidenceReal,
              CopyCurrent, OnDisk, Resolving
<1> QED BY <1>1, <1>2, <1>3, SoloProtocolStep, SoloVerify, SoloAsk, SoloTransition,
           SoloAddReference DEF Next
-----------------------------------------------------------------------------
\* The invariants together, along every behaviour of a single process.
LEMMA SoloInvHolds == ASSUME Solo PROVE Spec => [](IInv /\ SoloInv)
<1>1. Init => IInv /\ SoloInv
  BY InitSound, SoloInitial
<1>2. IInv /\ SoloInv /\ [Next]_vars => IInv' /\ SoloInv'
  BY NextKeepsIInv, SoloNext
<1> QED BY <1>1, <1>2, PTL DEF Spec

\* With one command at a time, no finding is ever past candidate without an
\* artifact that records a reproduction of it, whatever people edit and
\* wherever the process dies (sessions/verify.py, Constitution Article IV).
THEOREM SoloReproduced == ASSUME Solo PROVE Spec => []RestsOnReproduction
<1>1. SoloInv => RestsOnReproduction
  BY DEF SoloInv, EvidenceReal, RestsOnReproduction, Reproduced
<1> QED BY <1>1, SoloInvHolds, PTL
-----------------------------------------------------------------------------
\* Steps that move no status and page no reproduction are stutters of the
\* evidence lifecycle.
Statuses == [f \in Findings |-> findings[f].status]
ProvenFindings == {f \in Findings : Proven(f)}

LEMMA Stutter ==
  ASSUME \A f \in Findings : findings'[f].status = findings[f].status, details' = details
  PROVE  Statuses' = Statuses /\ ProvenFindings' = ProvenFindings
  BY DEF Statuses, ProvenFindings, Proven

\* A reproduction on record proves its finding and no other.
LEMMA PageRefines ==
  ASSUME Solo, IInv, SoloInv, NEW p \in Procs, PageEvidence(p)
  PROVE  /\ Statuses' = Statuses
         /\ \/ ProvenFindings' = ProvenFindings
            \/ ProvenFindings' = ProvenFindings \cup {work[p].finding}
<1> DEFINE s == run[p].sid
<1>1. PICK reproduced \in BOOLEAN :
        details' = [details EXCEPT ![s] = [finding |-> work[p].finding, reproduced |-> reproduced]]
  BY DEF PageEvidence
<1>2. s \in SessionIds /\ details[s] = NoDetail /\ findings' = findings
  BY SoloFacts DEF PageEvidence, SoloInv, SessionsOnDisk, ArtifactOfRun
<1>3. /\ details'[s] = [finding |-> work[p].finding, reproduced |-> reproduced]
      /\ \A t \in SessionIds : t # s => details'[t] = details[t]
  BY <1>1, <1>2, SoloFacts DEF StoreTyped
<1>4. \A f \in Findings : details[s] # Reproduced(f)
  <2>1. \A f \in Findings : Reproduced(f) \in [finding : Findings, reproduced : BOOLEAN]
    BY DEF Reproduced
  <2> QED BY <1>2, <2>1, VerifyAssumption
<1>5. \A f \in Findings : Proven(f)' <=> Proven(f) \/ (reproduced /\ f = work[p].finding)
  <2>1. \A f \in Findings : details'[s] = Reproduced(f) <=> reproduced /\ f = work[p].finding
    <3>1. CASE reproduced = TRUE
      <4>1. details'[s] = Reproduced(work[p].finding)
        BY <1>3, <3>1 DEF Reproduced
      <4>2. \A f : Reproduced(f).finding = f
        BY DEF Reproduced
      <4> QED BY <3>1, <4>1, <4>2, Zenon
    <3>2. CASE reproduced = FALSE
      <4>1. details'[s].reproduced = FALSE /\ \A f \in Findings : Reproduced(f).reproduced = TRUE
        BY <1>3, <3>2 DEF Reproduced
      <4> QED BY <3>2, <4>1
    <3> QED BY <3>1, <3>2
  <2>2. \A f \in Findings :
          /\ Proven(f) <=> \E t \in SessionIds : details[t] = Reproduced(f)
          /\ Proven(f)' <=> \E t \in SessionIds : details'[t] = Reproduced(f)
    BY DEF Proven, Reproduced
  <2> HIDE DEF s
  <2> QED BY <1>2, <1>3, <1>4, <2>1, <2>2
<1>6. CASE reproduced = TRUE
  BY <1>2, <1>5, <1>6, SoloFacts DEF Statuses, ProvenFindings
<1>7. CASE reproduced = FALSE
  BY <1>2, <1>5, <1>7 DEF Statuses, ProvenFindings
<1> QED BY <1>6, <1>7

\* VERIFY moves a finding from candidate to verified, on a reproduction of it.
LEMMA PromoteRefines ==
  ASSUME Solo, IInv, SoloInv, NEW p \in Procs, Promote(p)
  PROVE  Lifecycle!Move(work[p].finding, "verified") /\ work[p].finding \in Findings
<1> DEFINE f == work[p].finding
<1>1. /\ f \in Findings /\ findings[f].status = "candidate"
      /\ run[p].sid \in SessionIds /\ details[run[p].sid] = Reproduced(f)
      /\ findings'[f].status = "verified"
      /\ \A g \in Findings : g # f => findings'[g] = findings[g]
      /\ details' = details
  BY PromoteAllowed, SoloFacts DEF Promote
<1>2. f \in ProvenFindings
  BY <1>1 DEF ProvenFindings, Proven, Reproduced
<1>3. Statuses' = [Statuses EXCEPT ![f] = "verified"] /\ ProvenFindings' = ProvenFindings
  BY <1>1 DEF Statuses, ProvenFindings, Proven
<1>4. <<Statuses[f], "verified">> \in Lifecycle!FORWARD_EDGES
  BY <1>1 DEF Statuses, Lifecycle!FORWARD_EDGES
<1> QED BY <1>1, <1>2, <1>3, <1>4 DEF Lifecycle!Move, Statuses, ProvenFindings

\* A person moves a finding along an edge, forward only with a reproduction.
LEMMA TransitionRefines ==
  ASSUME Solo, IInv, SoloInv, NEW p \in Procs, Transition(p)
  PROVE  \/ Statuses' = Statuses /\ ProvenFindings' = ProvenFindings
         \/ \E f \in Findings, new \in Status : Lifecycle!Move(f, new)
<1> DEFINE f == work[p].finding
           old == findings[f].status
           new == findings'[f].status
<1>1. /\ f \in Findings /\ old \in Status /\ details' = details
      /\ \A g \in Findings : g # f => findings'[g] = findings[g]
  BY TransitionMoves, SoloFacts DEF Transition, Finding
<1>2. \/ new = old
      \/ <<old, new>> \in BACKWARD_EDGES /\ old # "candidate"
      \/ old = "candidate" /\ new = "verified" /\ findings[f].evidence \in Resolving
      \/ old = "verified" /\ new \in {"disclosed", "patched"}
  BY TransitionMoves
<1>3. Statuses' = [Statuses EXCEPT ![f] = new] /\ ProvenFindings' = ProvenFindings
  BY <1>1 DEF Statuses, ProvenFindings, Proven
<1>4. CASE new = old
  BY <1>1, <1>4, Stutter
<1>5. CASE new # old
  <2>1. findings[f].evidence # 0
    BY <1>1, <1>2, <1>5, SoloFacts DEF SoloInv, EvidenceReal, Resolving
  <2>2. f \in ProvenFindings
    BY <1>1, <2>1 DEF SoloInv, EvidenceReal, ProvenFindings, Proven, Reproduced
  <2>3. \/ <<old, new>> \in Lifecycle!FORWARD_EDGES
        \/ <<old, new>> \in Lifecycle!BACKWARD_EDGES
    BY <1>1, <1>2, <1>5 DEF Lifecycle!FORWARD_EDGES, Lifecycle!BACKWARD_EDGES,
                            FORWARD_EDGES, BACKWARD_EDGES
  <2>4. Statuses[f] = old /\ new \in Status
    BY <1>1, <1>2, <1>5 DEF Statuses, Status, BACKWARD_EDGES, FORWARD_EDGES
  <2>5. PICK to \in Status : to = new
    BY <2>4
  <2>6. Lifecycle!Move(f, to)
    BY <1>3, <2>2, <2>3, <2>4, <2>5 DEF Lifecycle!Move, Statuses, ProvenFindings
  <2> HIDE DEF f
  <2> QED BY <1>1, <2>6
<1> QED BY <1>4, <1>5

LEMMA StepRefines ==
  ASSUME Solo, IInv, SoloInv, [Next]_vars
  PROVE  [Lifecycle!Next]_<<Statuses, ProvenFindings>>
<1> DEFINE Stutters == Statuses' = Statuses /\ ProvenFindings' = ProvenFindings
<1>1. ASSUME NEW p \in Procs, PageEvidence(p) PROVE Stutters \/ Lifecycle!Next
  <2>1. work[p].finding \in Findings
    BY SoloFacts
  <2> QED BY <1>1, <2>1, PageRefines
          DEF Lifecycle!Next, Lifecycle!Reproduce, Statuses, ProvenFindings
<1>2. ASSUME NEW p \in Procs, Promote(p) PROVE Lifecycle!Next
  BY <1>2, PromoteRefines DEF Lifecycle!Next, Lifecycle!Status
<1>3. ASSUME NEW p \in Procs, Transition(p) PROVE Stutters \/ Lifecycle!Next
  BY <1>3, TransitionRefines DEF Lifecycle!Next, Lifecycle!Status, Status
<1>4. ASSUME NEW p \in Procs, SetEvidence(p) PROVE Stutters
  <2>1. /\ work[p].held.status = findings[work[p].finding].status
        /\ findings' = [findings EXCEPT ![work[p].finding] =
                          [work[p].held EXCEPT !.evidence = run[p].sid]]
        /\ details' = details
    BY <1>4 DEF SetEvidence, SaveFinding, SoloInv, CopyCurrent
  <2>2. \A f \in Findings : findings'[f].status = findings[f].status
    BY <2>1, SoloFacts DEF Finding
  <2> QED BY <2>1, <2>2, Stutter
<1>5. ASSUME NEW p \in Procs, LeaveCandidate(p) PROVE Stutters
  BY <1>5, LeaveKeeps, Stutter DEF LeaveCandidate
<1>6. ASSUME NEW f \in Findings, AddReference(f) PROVE Stutters
  BY <1>6, SoloAddReference, Stutter DEF AddReference
<1>7. ASSUME NEW p \in Procs, Verify(p) PROVE Stutters \/ Lifecycle!Next
  <2>1. CASE UNCHANGED <<findings, details>>
    BY <2>1, Stutter
  <2>2. CASE Reload(p) \/ RevertEvidence(p)
    BY <2>2 DEF Reload, RevertEvidence, SoloInv, CopyCurrent
  <2> QED BY <1>1, <1>2, <1>4, <1>5, <1>7, <2>1, <2>2
          DEF Verify, FindingMissing, Refuse, EnterSandbox, SandboxFails, DryRun,
              ReadForTransition
<1>8. CASE UNCHANGED <<findings, details>>
  BY <1>8, Stutter
<1> QED BY <1>3, <1>6, <1>7, <1>8 DEF Next, AskTransition, vars

\* With one command at a time the whole store - sessions, crashes, failed and
\* repeated runs, people's moves - implements the evidence lifecycle.
THEOREM SoloLifecycle == ASSUME Solo PROVE Spec => KeepsLifecycle
<1>1. Init => Lifecycle!Init
  <2>1. \A f \in Findings :
          [finding |-> f, reproduced |-> TRUE] \in [finding : Findings, reproduced : BOOLEAN]
    OBVIOUS
  <2>2. Init => \A f \in Findings : ~Proven(f)
    BY <2>1, VerifyAssumption DEF Init, Proven
  <2>3. Init => \A f \in Findings : findings[f].status = "candidate"
    BY DEF Init, NewCandidate
  <2> QED BY <2>2, <2>3 DEF Lifecycle!Init
<1>2. IInv /\ SoloInv /\ [Next]_vars
        => [Lifecycle!Next]_<<[f \in Findings |-> findings[f].status], {f \in Findings : Proven(f)}>>
  BY StepRefines DEF Statuses, ProvenFindings
<1> QED BY <1>1, <1>2, SoloInvHolds, PTL DEF Spec, KeepsLifecycle, Lifecycle!Spec
-----------------------------------------------------------------------------
\* Every attempt on the old log is on the new one, in its place.
Extends(old, new) ==
    Len(new) >= Len(old) /\ \A i \in 1 .. Len(old) : new[i] = old[i]

LEMMA SameExtends == ASSUME NEW log \in Seq(LogEntry) PROVE Extends(log, log)
  BY DEF Extends

LEMMA AppendExtends ==
  ASSUME NEW log \in Seq(LogEntry), NEW e \in LogEntry
  PROVE  Extends(log, Append(log, e))
  BY DEF Extends

LEMMA EntryTyped ==
  ASSUME NEW f \in Finding, NEW new \in Status, NEW ok \in BOOLEAN
  PROVE  Entry(f, new, ok) \in LogEntry
  BY DEF Finding, Entry, LogEntry

\* What the guard saves, and what VERIFY logs of a failed repro, is the log it
\* was given and one attempt more.
LEMMA AttemptExtends ==
  ASSUME NEW f \in Finding, NEW new \in Status, NEW resolving
  PROVE  /\ Extends(f.log, Transitioned(f, new, resolving).log)
         /\ Extends(f.log, Unreproduced(f).log)
<1> DEFINE ok == Allowed(f, new, resolving)
           s == IF ok THEN new ELSE f.status
           l == Append(f.log, Entry(f, new, ok))
           u == Append(f.log, Entry(f, "verified", FALSE))
<1>1. f.log \in Seq(LogEntry) /\ ok \in BOOLEAN
  BY DEF Finding, Allowed
<1>2. Entry(f, new, ok) \in LogEntry
  BY <1>1, EntryTyped
<1>3. Entry(f, "verified", FALSE) \in LogEntry
  BY EntryTyped DEF Status
<1>4. Extends(f.log, l) /\ Extends(f.log, u)
  BY <1>1, <1>2, <1>3, AppendExtends
<1>5. Transitioned(f, new, resolving) = [f EXCEPT !.status = s, !.log = l]
  BY DEF Transitioned
<1>6. Unreproduced(f) = [f EXCEPT !.log = u]
  BY DEF Unreproduced
<1> HIDE DEF s, l, u
<1>7. Transitioned(f, new, resolving).log = l /\ Unreproduced(f).log = u
  BY <1>5, <1>6 DEF Finding
<1> QED BY <1>4, <1>7

\* The step saves one record, whose log goes on where the stored one ends.
LEMMA OneLogExtends ==
  ASSUME IInv, NEW f \in Findings, NEW record, findings' = [findings EXCEPT ![f] = record],
         Extends(findings[f].log, record.log)
  PROVE  \A g \in Findings : Extends(findings[g].log, findings'[g].log)
<1> SUFFICES ASSUME NEW g \in Findings PROVE Extends(findings[g].log, findings'[g].log)
  OBVIOUS
<1>1. findings \in [Findings -> Finding] /\ findings[g].log \in Seq(LogEntry)
  BY DEF IInv, StoreTyped, Finding
<1> QED BY <1>1, SameExtends

LEMMA UnchangedExtends ==
  ASSUME IInv, UNCHANGED findings
  PROVE  \A g \in Findings : Extends(findings[g].log, findings'[g].log)
<1> SUFFICES ASSUME NEW g \in Findings PROVE Extends(findings[g].log, findings'[g].log)
  OBVIOUS
<1>1. findings[g].log \in Seq(LogEntry)
  BY DEF IInv, StoreTyped, Finding
<1> QED BY <1>1, SameExtends

\* The copy in memory has the log on disk, so what is saved of it loses no attempt.
LEMMA StepExtends ==
  ASSUME Solo, IInv, SoloInv, [Next]_vars
  PROVE  \A g \in Findings : Extends(findings[g].log, findings'[g].log)
<1> DEFINE Grows == \A g \in Findings : Extends(findings[g].log, findings'[g].log)
<1>1. \A p \in Procs : /\ work[p].finding \in Findings /\ work[p].held \in Finding
                      /\ work[p].held.log \in Seq(LogEntry) /\ work[p].target \in Status
  BY DEF IInv, StoreTyped, Work, Finding
<1>2. ASSUME NEW p \in Procs, SetEvidence(p) PROVE Grows
  <2>1. /\ work[p].held.log = findings[work[p].finding].log
        /\ findings' = [findings EXCEPT ![work[p].finding] =
                          [work[p].held EXCEPT !.evidence = run[p].sid]]
    BY <1>2 DEF SetEvidence, SaveFinding, SoloInv, CopyCurrent
  <2>2. [work[p].held EXCEPT !.evidence = run[p].sid].log = work[p].held.log
    BY <1>1 DEF Finding
  <2> QED BY <1>1, <2>1, <2>2, SameExtends, OneLogExtends
<1>3. ASSUME NEW p \in Procs, Promote(p) PROVE Grows
  <2>1. /\ work[p].held.log = findings[work[p].finding].log
        /\ findings' = [findings EXCEPT ![work[p].finding] =
                          Transitioned(work[p].held, "verified", Resolving)]
    BY <1>3 DEF Promote, SaveFinding, SoloInv, CopyCurrent
  <2>2. Extends(work[p].held.log, Transitioned(work[p].held, "verified", Resolving).log)
    BY <1>1, AttemptExtends DEF Status
  <2> QED BY <1>1, <2>1, <2>2, OneLogExtends
<1>4. ASSUME NEW p \in Procs, LeaveCandidate(p) PROVE Grows
  <2>1. /\ work[p].held.log = findings[work[p].finding].log
        /\ findings' = [findings EXCEPT ![work[p].finding] = Unreproduced(work[p].held)]
    BY <1>4 DEF LeaveCandidate, SaveFinding, SoloInv, CopyCurrent
  <2>2. Extends(work[p].held.log, Unreproduced(work[p].held).log)
    BY <1>1, AttemptExtends
  <2> QED BY <1>1, <2>1, <2>2, OneLogExtends
<1>5. ASSUME NEW p \in Procs, Transition(p) PROVE Grows
  <2>1. /\ work[p].held.log = findings[work[p].finding].log
        /\ findings' = [findings EXCEPT ![work[p].finding] =
                          Transitioned(work[p].held, work[p].target, Resolving)]
    BY <1>5 DEF Transition, SaveFinding, SoloInv, CopyCurrent
  <2>2. Extends(work[p].held.log, Transitioned(work[p].held, work[p].target, Resolving).log)
    BY <1>1, AttemptExtends
  <2> QED BY <1>1, <2>1, <2>2, OneLogExtends
<1>6. ASSUME NEW f \in Findings, AddReference(f) PROVE Grows
  <2>1. PICK r \in RefKinds : findings' = [findings EXCEPT ![f].refs = @ \cup {r}]
    BY <1>6 DEF AddReference
  <2> DEFINE record == [findings[f] EXCEPT !.refs = @ \cup {r}]
  <2>2. findings[f] \in Finding /\ findings[f].log \in Seq(LogEntry)
    BY DEF IInv, StoreTyped, Finding
  <2>3. findings' = [findings EXCEPT ![f] = record] /\ record.log = findings[f].log
    BY <2>1, <2>2 DEF Finding
  <2> HIDE DEF record
  <2> QED BY <2>2, <2>3, SameExtends, OneLogExtends
<1>7. CASE UNCHANGED findings
  BY <1>7, UnchangedExtends
<1>8. ASSUME NEW p \in Procs, Verify(p) PROVE Grows
  <2>1. ~RevertEvidence(p)
    BY DEF RevertEvidence, SoloInv, CopyCurrent
  <2> QED BY <1>2, <1>3, <1>4, <1>7, <1>8, <2>1
          DEF Verify, FindingMissing, Refuse, EnterSandbox, SandboxFails, DryRun, PageEvidence,
              ReadForTransition, Reload
<1> QED BY <1>5, <1>6, <1>7, <1>8 DEF Next, AskTransition, vars

\* With one command at a time the audit trail is append-only: no step of a
\* session, a person or a crash loses an attempt that was logged.
THEOREM SoloAuditTrail == ASSUME Solo PROVE Spec => AuditTrailGrows
<1>1. IInv /\ SoloInv /\ [Next]_vars
        => [\A f \in Findings :
              /\ Len(findings'[f].log) >= Len(findings[f].log)
              /\ \A i \in 1 .. Len(findings[f].log) :
                    findings'[f].log[i] = findings[f].log[i]]_vars
  BY StepExtends DEF Extends
<1> QED BY <1>1, SoloInvHolds, PTL DEF Spec, AuditTrailGrows
=============================================================================
