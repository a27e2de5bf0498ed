---------------------------- MODULE CheckPublish ----------------------------
(***************************************************************************)
(* check (src/deepthought/check.py) and publish (cli.py) over a store that *)
(* sessions and people go on writing.  publish is check, then a listing of *)
(* its own, then one local artifact per format and finding; nothing ties   *)
(* these three to one state of the store.  Of the sessions only what they  *)
(* read and write of the store is kept: VERIFY and a person's transition,  *)
(* which overlap, hold copies of a finding between a read and a save, and  *)
(* VERIFY puts the old evidence_ref back when its promotion was rejected.  *)
(* NEW PROJECTs do not overlap here: their race is NewProject's subject.   *)
(***************************************************************************)
EXTENDS FindingLifecycle, FiniteSets

CONSTANTS Projects,     \* ids a project may have
          Identities,   \* git URLs and local paths
          Findings,     \* finding ids; the artifact of f is numbered f
          Writers,      \* processes in VERIFY or transition_finding
          Citations,    \* BOUND: the references a person may add
          DraftFormats, \* csaf, openvex, cve-draft, advisory
          MaxRecords,   \* BOUND: session, coverage and loop records
          MaxRuns,      \* BOUND: publish runs
          None          \* no file, no project, no finding

CONSTANT Torn           \* a file that does not parse

ASSUME PublishAssumption ==
    /\ Findings \subseteq Nat \ {0}
    /\ Citations \subseteq SUBSET RefKinds
    /\ "osv" \notin DraftFormats
    /\ MaxRecords \in Nat /\ MaxRuns \in Nat
    /\ {None, Torn} \cap (Findings \cup Identities) = {} /\ None # Torn

Formats == DraftFormats \cup {"osv"}

VARIABLES projects,     \* projects/<id>.md: its identity
          findings,     \* findings/<id>.md
          details,      \* detail/: evidence results and sets of four drafts
          records,      \* sessions/, coverage/, loop/: what they refer to
          work,         \* each writer's local variables
          ppc,          \* where publish is
          run,          \* its local variables, and those of run_check
          out,          \* the artifact directories
          runs,         \* how often it was started
          strayed,      \* history: a hand, a torn write or a mistyped id was in the store
          stripped,     \* history: a revert left a finding past candidate without evidence
          moved         \* history: the store changed under this run

storeVars == <<projects, findings, details, records>>

publishVars == <<ppc, run, out, runs>>

vars == <<storeVars, work, publishVars, strayed, stripped, moved>>

\* The log is left out here: LogExplainsStatus of VerifySession is about it.
StoredFinding == [project : Projects, status : Status, evidence : {0} \cup Findings,
                  refs : SUBSET RefKinds]

\* What does not parse, or is not there, is not a finding.
ASSUME NoFileAssumption == None \notin StoredFinding /\ Torn \notin StoredFinding

Evidence(f) == <<"evidence", f>>
Drafts(f) == <<"drafts", f>>

\* A session, a coverage record or a loop run: the project and the finding it
\* names, and whether it is a DISCLOSURE that drew drafts of that finding.
StoredRecord == [project : Projects, finding : Findings \cup {None}, drew : BOOLEAN]

\* A writer: read is VERIFY's own copy of the finding, held the one that
\* transition_finding, or the reload after it, has read.
NoWork == [at |-> "idle", finding |-> None, read |-> None, held |-> None]

NoRun == [formats |-> {}, ok |-> TRUE, known |-> {}, checked |-> [f \in Findings |-> None],
          drawn |-> {}, listed |-> [f \in Findings |-> None], todo |-> {}]

Init == /\ projects = [p \in Projects |-> None]
        /\ findings = [f \in Findings |-> None]
        /\ details = {} /\ records = {}
        /\ work = [w \in Writers |-> NoWork]
        /\ ppc = "idle" /\ run = NoRun /\ runs = 0
        /\ out = [fmt \in Formats |-> [f \in Findings |-> None]]
        /\ strayed = FALSE /\ stripped = FALSE /\ moved = FALSE

Registered(p) == projects[p] \in Identities

Stored(f) == findings[f] \in StoredFinding

\* evidence_ref, by number, that detail_exists.
Resolving == {f \in Findings : Evidence(f) \in details}

\* A session or a person changes the store while publish may be running.
BySession == /\ moved' = (moved \/ (ppc # "idle" /\ storeVars' # storeVars))
             /\ UNCHANGED <<publishVars, strayed>>

ByHand == /\ moved' = (moved \/ ppc # "idle")
          /\ strayed' = TRUE
          /\ UNCHANGED <<work, publishVars, stripped>>
-----------------------------------------------------------------------------
\* NEW PROJECT, alone: neither the id nor the identity is taken.
Register ==
    /\ \E p \in Projects, u \in Identities :
         /\ projects[p] = None /\ \A q \in Projects : projects[q] # u
         /\ projects' = [projects EXCEPT ![p] = u]
    /\ UNCHANGED <<findings, details, records>>

\* DISCOVER or SIBLING HUNT saves a candidate of a project it has read: under a
\* new number, or one that another of them has taken meanwhile.
FileCandidate ==
    /\ \E f \in Findings, p \in Projects :
         /\ Registered(p)
         /\ findings' = [findings EXCEPT ![f] =
                [project |-> p, status |-> "candidate", evidence |-> 0, refs |-> {}]]
    /\ UNCHANGED <<projects, details, records>>

\* A person adds a CVE and an advisory or a fix: external, the code only reads.
Cite ==
    /\ \E f \in Findings, refs \in Citations :
         Stored(f) /\ findings' = [findings EXCEPT ![f].refs = @ \cup refs]
    /\ UNCHANGED <<projects, details, records>>

\* DISCLOSURE writes its four drafts first ...
Draft ==
    /\ \E f \in Findings : /\ Stored(f) /\ findings[f].status = "verified"
                           /\ details' = details \cup {Drafts(f)}
    /\ UNCHANGED <<projects, findings, records>>

\* ... and a session, a coverage or a loop record names what there is.
CloseRecord ==
    /\ Cardinality(records) < MaxRecords
    /\ \E r \in StoredRecord :
         /\ Registered(r.project)
         /\ r.finding # None => Stored(r.finding)
         /\ r.drew => r.finding # None /\ Drafts(r.finding) \in details
         /\ records' = records \cup {r}
    /\ UNCHANGED <<projects, findings, details>>

\* run_session saves its record before the gate looks for the project: status,
\* map, discover, verify and sibling-hunt with a mistyped id.
OpenMistyped ==
    /\ Cardinality(records) < MaxRecords
    /\ \E p \in Projects :
         /\ ~Registered(p)
         /\ records' = records \cup {[project |-> p, finding |-> None, drew |-> FALSE]}
    /\ UNCHANGED <<projects, findings, details>>

\* A hand on the files: a project is removed or given another's identity, a
\* finding is removed, torn, or given a status, a detail is lost.  A write of
\* the program that dies midway tears a file too.
HandEdit ==
    \/ /\ \E p \in Projects, u \in Identities \cup {None, Torn} :
            projects[p] # None /\ projects' = [projects EXCEPT ![p] = u]
       /\ UNCHANGED <<findings, details, records>>
    \/ /\ \E f \in Findings :
            /\ Stored(f)
            /\ \/ \E gone \in {None, Torn} : findings' = [findings EXCEPT ![f] = gone]
               \/ \E new \in Status : findings' = [findings EXCEPT ![f].status = new]
       /\ UNCHANGED <<projects, details, records>>
    \/ /\ \E d \in details : details' = details \ {d}
       /\ UNCHANGED <<projects, findings, records>>

Sessions == Register \/ FileCandidate \/ Cite \/ Draft \/ CloseRecord
-----------------------------------------------------------------------------
\* A writer goes to its next step; it saves a record, or has only read.
Goto(w, label) == work' = [work EXCEPT ![w].at = label]

Save(w, record) == findings' = [findings EXCEPT ![work[w].finding] = record]

OnlyFindings == UNCHANGED <<projects, details, records>>

\* VERIFY reads a candidate; its sandbox runs.
StartVerify(w) ==
    /\ work[w].at = "idle"
    /\ \E f \in Findings :
         /\ Stored(f) /\ findings[f].status = "candidate"
         /\ work' = [work EXCEPT ![w] = [NoWork EXCEPT !.at = "sandbox", !.finding = f,
                                                      !.read = findings[f]]]
    /\ UNCHANGED <<storeVars, stripped>>

\* The result is paged, and reproduced or not.
PageEvidence(w) ==
    /\ work[w].at = "sandbox"
    /\ details' = details \cup {Evidence(work[w].finding)}
    /\ \E next \in {"promoting", "leaving"} : Goto(w, next)
    /\ UNCHANGED <<projects, findings, records, stripped>>

\* _promote saves the copy read before the sandbox ran, with its evidence ...
SetEvidence(w) ==
    /\ work[w].at = "promoting"
    /\ Save(w, [work[w].read EXCEPT !.evidence = work[w].finding])
    /\ Goto(w, "asking")
    /\ OnlyFindings /\ UNCHANGED stripped

\* ... and transition_finding reads the finding again; of one that is gone it
\* raises, which is the writer's end.
ReadForTransition(w) ==
    /\ work[w].at = "asking" /\ Stored(work[w].finding)
    /\ work' = [work EXCEPT ![w].at = "deciding", ![w].held = findings[work[w].finding]]
    /\ UNCHANGED <<storeVars, stripped>>

\* What the guard leaves of a copy (the attempt is logged either way).
Decided(record, new) ==
    IF Allowed(record, new, Resolving) THEN [record EXCEPT !.status = new] ELSE record

\* The guard decides on that copy, and it is saved.
Promote(w) ==
    /\ work[w].at = "deciding"
    /\ Save(w, Decided(work[w].held, "verified"))
    /\ work' = [work EXCEPT ![w] = IF Allowed(@.held, "verified", Resolving) THEN NoWork
                                  ELSE [@ EXCEPT !.at = "rejected", !.held = None]]
    /\ OnlyFindings /\ UNCHANGED stripped

\* Rejected: the finding is reloaded; without a file VERIFY keeps its own copy.
Reload(w) ==
    /\ work[w].at = "rejected" /\ findings[work[w].finding] # Torn
    /\ work' = [work EXCEPT ![w].at = "reverting",
                            ![w].held = IF Stored(work[w].finding) THEN findings[work[w].finding]
                                        ELSE work[w].read]
    /\ UNCHANGED <<storeVars, stripped>>

Reverted(w) == [work[w].held EXCEPT !.evidence = work[w].read.evidence]

\* The old evidence_ref is put back, whatever the finding is by now.
Revert(w) ==
    /\ work[w].at = "reverting"
    /\ Save(w, Reverted(w))
    /\ stripped' = (stripped \/ (/\ Reverted(w).status # "candidate"
                                 /\ Reverted(w).evidence \notin Resolving))
    /\ work' = [work EXCEPT ![w] = NoWork]
    /\ OnlyFindings

\* _leave_candidate saves the copy read before the sandbox ran.
LeaveCandidate(w) ==
    /\ work[w].at = "leaving"
    /\ Save(w, work[w].read)
    /\ work' = [work EXCEPT ![w] = NoWork]
    /\ OnlyFindings /\ UNCHANGED stripped

\* A person moves a finding through transition_finding: the read ...
AskTransition(w) ==
    /\ work[w].at = "idle"
    /\ \E f \in Findings :
         /\ Stored(f)
         /\ work' = [work EXCEPT ![w] = [NoWork EXCEPT !.at = "moving", !.finding = f,
                                                      !.held = findings[f]]]
    /\ UNCHANGED <<storeVars, stripped>>

\* ... and the save of what the guard decided.
Transition(w) ==
    /\ work[w].at = "moving"
    /\ \E new \in Status : Save(w, Decided(work[w].held, new))
    /\ work' = [work EXCEPT ![w] = NoWork]
    /\ OnlyFindings /\ UNCHANGED stripped

\* A writer refuses, raises or dies at any step: what it saved stays.
Drop(w) ==
    /\ work[w].at # "idle"
    /\ work' = [work EXCEPT ![w] = NoWork]
    /\ UNCHANGED <<storeVars, stripped>>

Write(w) ==
    \/ StartVerify(w) \/ PageEvidence(w) \/ SetEvidence(w) \/ ReadForTransition(w)
    \/ Promote(w) \/ Reload(w) \/ Revert(w) \/ LeaveCandidate(w)
    \/ AskTransition(w) \/ Transition(w) \/ Drop(w)

\* BOUND: nothing happens after the last run, and a hand edits once.
Environment ==
    /\ ppc # "idle" \/ runs < MaxRuns
    /\ \/ Sessions /\ BySession /\ UNCHANGED <<work, stripped>>
       \/ \E w \in Writers : Write(w) /\ BySession
       \/ (OpenMistyped \/ HandEdit) /\ ~strayed /\ ByHand
-----------------------------------------------------------------------------
\* The command ends with nothing in memory.
Over == ppc' = "idle" /\ run' = NoRun /\ moved' = FALSE

\* publish; check begins to read.
Publish ==
    /\ ppc = "idle" /\ runs < MaxRuns
    /\ ppc' = "projects" /\ runs' = runs + 1 /\ run' = NoRun /\ moved' = FALSE
    /\ UNCHANGED <<storeVars, out, work, strayed, stripped>>

\* The projects are read: they parse, and no two share an identity.
ReadProjects ==
    /\ ppc = "projects"
    /\ run' = [run EXCEPT
         !.known = {p \in Projects : Registered(p)},
         !.ok = /\ \A p \in Projects : projects[p] # Torn
                /\ \A p, q \in Projects : Registered(p) /\ projects[p] = projects[q] => p = q]
    /\ ppc' = "findings"
    /\ UNCHANGED <<storeVars, out, runs, work, strayed, stripped, moved>>

\* Mutant: the references of an advanced finding are not asked for.
ReadFindingsUncited ==
    /\ ppc = "findings"
    /\ run' = [run EXCEPT
         !.checked = findings,
         !.ok = @ /\ \A f \in Findings : findings[f] # None =>
                        Stored(f) /\ findings[f].project \in run.known]
    /\ ppc' = "records"
    /\ UNCHANGED <<storeVars, out, runs, work, strayed, stripped, moved>>

\* The findings are read: they parse, their project was read, and an advanced
\* one has its references (what a verified one needs is looked up by Judge).
ReadFindings ==
    /\ ppc = "findings"
    /\ run' = [run EXCEPT
         !.checked = findings,
         !.ok = @ /\ \A f \in Findings : findings[f] # None =>
                        Stored(f) /\ findings[f].project \in run.known /\ Referenced(findings[f])]
    /\ ppc' = "records"
    /\ UNCHANGED <<storeVars, out, runs, work, strayed, stripped, moved>>

\* Sessions, coverage and loop runs are read: what they name was read before.
ReadRecords ==
    /\ ppc = "records"
    /\ run' = [run EXCEPT
         !.drawn = {r.finding : r \in {s \in records : s.drew}},
         !.ok = @ /\ \A r \in records :
                        /\ r.project \in run.known
                        /\ r.finding # None => run.checked[r.finding] # None]
    /\ ppc' = "judging"
    /\ UNCHANGED <<storeVars, out, runs, work, strayed, stripped, moved>>

\* What check looks up in detail/ for the records it has read.
Supported == /\ \A f \in Findings : run.checked[f] # None /\ run.checked[f] # Torn
                   => (run.checked[f].status = "verified" => run.checked[f].evidence \in Resolving)
             /\ \A f \in run.drawn : Drafts(f) \in details

\* The report is green: publish goes on, with nothing of what check has read.
Judge ==
    /\ ppc = "judging" /\ run.ok /\ Supported
    /\ ppc' = "listing" /\ run' = NoRun
    /\ UNCHANGED <<storeVars, out, runs, work, strayed, stripped, moved>>

\* It is red: publish is refused.
RefusePublish ==
    /\ ppc = "judging" /\ ~(run.ok /\ Supported)
    /\ Over
    /\ UNCHANGED <<storeVars, out, runs, work, strayed, stripped>>

\* A format is written for every finding; a draft for those past candidate only.
Targets(fmt) == {f \in Findings : Stored(f) /\ (fmt = "osv" \/ findings[f].status # "candidate")}

\* list_findings, once for the format asked for, or for all of them.
List ==
    /\ ppc = "listing" /\ \A f \in Findings : findings[f] # Torn
    /\ \E formats \in {{fmt} : fmt \in Formats} \cup {Formats} :
         run' = [NoRun EXCEPT !.formats = formats, !.listed = findings,
                              !.todo = UNION {{fmt} \X Targets(fmt) : fmt \in formats}]
    /\ ppc' = "writing"
    /\ UNCHANGED <<storeVars, out, runs, work, strayed, stripped, moved>>

\* The next artifact is rendered from the listing.
WriteArtifact ==
    /\ ppc = "writing"
    /\ \E job \in run.todo :
         /\ out' = [out EXCEPT ![job[1]][job[2]] = run.listed[job[2]]]
         /\ run' = [run EXCEPT !.todo = @ \ {job}]
    /\ UNCHANGED <<storeVars, ppc, runs, work, strayed, stripped, moved>>

Finish == /\ ppc = "writing" /\ run.todo = {}
          /\ Over
          /\ UNCHANGED <<storeVars, out, runs, work, strayed, stripped>>

\* A listing or a write raises, or the process dies: what is written stays.
Abort == /\ ppc \in {"projects", "findings", "records", "judging", "listing", "writing"}
         /\ Over
         /\ UNCHANGED <<storeVars, out, runs, work, strayed, stripped>>

Command == \/ Publish \/ ReadProjects \/ ReadFindings \/ ReadRecords
           \/ Judge \/ RefusePublish \/ List \/ WriteArtifact \/ Finish \/ Abort

Next == Environment \/ Command

Spec == Init /\ [][Next]_vars
-----------------------------------------------------------------------------
Rests(record) == /\ record.status = "verified" => record.evidence \in Resolving
                 /\ Referenced(record)

\* Sessions keep the store as check wants it, between any two of their writes
\* and with every stale copy they save: a publish that nothing disturbs is
\* refused only for what a hand, a torn write or a mistyped id has left there,
\* or a revert that took the evidence of a finding another VERIFY promoted.
SessionsKeepGreen ==
    ~strayed /\ ~stripped /\ ppc = "judging" /\ ~moved => run.ok /\ Supported

\* What a run of publish has written says of every finding what its one listing
\* said, in all its formats, is a draft only of a finding past candidate, and
\* that finding has what its status demands.  If a hand or such a revert was in
\* the store, it is because check saw it: nothing may have moved since the run
\* began.  Otherwise it is whatever sessions save between check, listing and
\* writing, stale copies included.
DraftsRestOnEvidence ==
    ppc = "writing" /\ ((~strayed /\ ~stripped) \/ ~moved) =>
        \A fmt \in run.formats, f \in Findings :
            run.listed[f] # None /\ <<fmt, f>> \notin run.todo =>
                /\ out[fmt][f] = run.listed[f] <=> fmt = "osv" \/ run.listed[f].status # "candidate"
                /\ Rests(run.listed[f])
=============================================================================
