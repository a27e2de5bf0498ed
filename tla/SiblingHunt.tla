----------------------------- MODULE SiblingHunt -----------------------------
(***************************************************************************)
(* SIBLING HUNT (src/deepthought/sessions/sibling_hunt.py) beside a        *)
(* DISCOVER of another process, over one store.  From a verified finding   *)
(* the hunt derives the class to look for, then takes the source project   *)
(* and each named sibling in turn: gate, number, let the worker answer,    *)
(* filter the answer, save, record coverage, and only then ledger.         *)
(***************************************************************************)
EXTENDS DiscoverSession, ExploitLedger

CONSTANTS Source,           \* the project the hunt is run on
          SourceFinding,    \* the finding it is run from
          Siblings,         \* the named siblings, deduplicated
          Worlds,           \* registry and findings that may be on disk at the start
          HuntDocs,         \* the SARIF the hunt may be given
          RoguePlaces,      \* where a worker of unknown make may claim a finding
          Edits,            \* what a person may edit the source's record into
          Rogue,            \* targets whose worker is not the in-repo one
          NoOutcome         \* a target without an outcome

ASSUME HuntAssumption ==
    /\ Source \in Projects /\ SourceFinding \in Ids
    /\ Siblings \in Seq(Projects)
    /\ \A i, j \in DOMAIN Siblings : Siblings[i] = Siblings[j] => i = j
    /\ \A w \in Worlds :
          /\ w.registry \in [Projects -> StoredContexts \cup {NoProject, TornProject}]
          /\ w.findings \in [Ids -> Record \cup {NoFinding}]
          /\ \A i \in Ids : w.findings[i] # NoFinding => w.findings[i].by = "earlier"
    /\ Edits \subseteq StoredContexts \cup {NoProject}
    /\ {NoProject, TornProject} \cap StoredContexts = {}
    /\ NoFinding \notin Record
    /\ Escaping \in [Projects -> SUBSET Areas]
    /\ NoPlace \notin Place /\ NoClass \notin Classes
    /\ \A doc \in Docs \cup HuntDocs : doc \in Seq(Result)
    /\ RoguePlaces \subseteq Places

VARIABLES hpc,          \* where the hunt is
          hunt,         \* its local variables: signature, target, batch
          outcomes,     \* target_outcomes, by target
          ledger,       \* the conductor's ledger
          approved,     \* history: the record each target's gate let proceed
          raced         \* history: targets during or after whose batch DISCOVER saved

huntVars == <<hpc, hunt, outcomes, ledger, approved>>

vars == <<registry, findings, coverage, discVars, huntVars, raced>>

HuntStart ==
    [doc |-> NoDoc, class |-> NoClass, locus |-> NoPlace, queue |-> Siblings,
     target |-> Source, scope |-> {}, start |-> 1, kept |-> NoCandidates, todo |-> {},
     prims |-> NoCandidates, areas |-> {}, reason |-> "empty",
     saved |-> {}, recorded |-> {}, touched |-> {}]

Init == /\ \E w \in Worlds : registry = w.registry /\ findings = w.findings
        /\ coverage = {}
        /\ DiscoverInit
        /\ hpc = "idle" /\ hunt = HuntStart
        /\ outcomes = [p \in Projects |-> NoOutcome]
        /\ ledger = << >>
        /\ approved = [p \in Projects |-> NoProject]
        /\ raced = {}

Outcome(proceeded, reason, found, areas) ==
    [proceeded |-> proceeded, reason |-> reason, findings |-> found, areas |-> areas]

\* The outcome of target p is recorded, and the loop goes on.
Answered(p, outcome) == /\ outcomes' = [outcomes EXCEPT ![p] = outcome]
                        /\ hpc' = "next"

\* The exception or signal ends the process: nothing in memory is left.
Aborted == /\ hpc' = "aborted" /\ hunt' = HuntStart /\ ledger' = << >>
           /\ outcomes' = [p \in Projects |-> NoOutcome]
-----------------------------------------------------------------------------
\* The harness gates the source project and calls run().
Dispatch == /\ hpc = "idle"
            /\ Gated(Source)
            /\ approved' = [approved EXCEPT ![Source] = registry[Source]]
            /\ \E doc \in HuntDocs \cup {NoDoc} : hunt' = [hunt EXCEPT !.doc = doc]
            /\ hpc' = "gated"
            /\ UNCHANGED <<registry, findings, coverage, outcomes, ledger>>

\* BOUND: a person edits or removes the record once, after the gate read it.
EditSource == /\ hpc = "gated" /\ registry[Source] = approved[Source]
              /\ \E c \in Edits : registry' = [registry EXCEPT ![Source] = c]
              /\ UNCHANGED <<findings, coverage, huntVars>>

\* run() reads the project again: NotFoundError when it is gone.
SourceGone == /\ hpc = "gated" /\ registry[Source] \notin StoredContexts
              /\ Aborted
              /\ UNCHANGED <<registry, findings, coverage, approved>>

\* A verified finding of this project that maps to a class of the taxonomy.
Huntable(f) == /\ f # NoFinding
               /\ f.project = Source
               /\ f.status = "verified"
               /\ f.class # NoClass

\* _refuse: the session closes without a worker.
Refuse == /\ hpc = "gated" /\ registry[Source] \in StoredContexts
          /\ ~Huntable(findings[SourceFinding])
          /\ hpc' = "closed"
          /\ UNCHANGED <<registry, findings, coverage, hunt, outcomes, ledger, approved>>

\* A call of _hunt_target has local variables of its own.
NewBatch(local) ==
    [local EXCEPT !.scope = {}, !.start = 1, !.kept = NoCandidates, !.todo = {},
                  !.prims = NoCandidates, !.areas = {}, !.reason = "empty",
                  !.saved = {}, !.recorded = {}]

\* _hunt_target starts, with the target's contained scope.
Targeted(local, p) ==
    [NewBatch(local) EXCEPT !.target = p, !.scope = Contained(registry[p].scope, Escaping[p])]

\* signature_from_finding, and the source is the first target: the harness has
\* gated it, so it is not gated here.
Derive ==
    LET f == findings[SourceFinding]
    IN /\ hpc = "gated" /\ registry[Source] \in StoredContexts
       /\ Huntable(f)
       /\ hunt' = Targeted([hunt EXCEPT !.class = f.class, !.locus = f.place], Source)
       /\ hpc' = "number"
       /\ UNCHANGED <<registry, findings, coverage, outcomes, ledger, approved>>
-----------------------------------------------------------------------------
\* The loop over the named siblings.
Sibling(p) == hpc = "next" /\ hunt.queue # << >> /\ p = Head(hunt.queue)

Popped == [hunt EXCEPT !.queue = Tail(@)]

\* The source is not hunted twice; an unregistered sibling is skipped, never
\* created.
PassOver(p) ==
    /\ Sibling(p)
    /\ hunt' = Popped
    /\ \/ p = Source /\ UNCHANGED <<outcomes, hpc>>
       \/ /\ p # Source /\ registry[p] = NoProject
          /\ Answered(p, Outcome(FALSE, "skipped", {}, {}))
    /\ UNCHANGED <<registry, findings, coverage, ledger, approved>>

\* get_project of the sibling is outside every guard: a record that does not
\* parse ends the hunt with its session open.
SiblingTorn(p) == /\ Sibling(p) /\ p # Source /\ registry[p] = TornProject
                  /\ Aborted
                  /\ UNCHANGED <<registry, findings, coverage, approved>>

\* The sibling's own gate says hold or refuse, or raises (a deployment's gate).
GateStops(p) ==
    /\ Sibling(p) /\ p # Source /\ registry[p] \in StoredContexts
    /\ hunt' = Popped
    /\ \E reason \in {Evaluate(registry[p]), "error"} :
         reason # "proceed" /\ Answered(p, Outcome(FALSE, reason, {}, {}))
    /\ UNCHANGED <<registry, findings, coverage, ledger, approved>>

\* Mutant: the source's clearance is taken for the sibling's.
GatePassesAsSource(p) ==
    /\ Sibling(p) /\ p # Source /\ registry[p] \in StoredContexts
    /\ Evaluate(approved[Source]) = "proceed"
    /\ approved' = [approved EXCEPT ![p] = registry[p]]
    /\ hunt' = Targeted(Popped, p)
    /\ hpc' = "number"
    /\ UNCHANGED <<registry, findings, coverage, outcomes, ledger>>

\* The sibling's own gate lets it proceed.
GatePasses(p) ==
    /\ Sibling(p) /\ p # Source
    /\ Gated(p)
    /\ approved' = [approved EXCEPT ![p] = registry[p]]
    /\ hunt' = Targeted(Popped, p)
    /\ hpc' = "number"
    /\ UNCHANGED <<registry, findings, coverage, outcomes, ledger>>
-----------------------------------------------------------------------------
\* _next_finding_index, read again for every target.
Number == /\ hpc = "number" /\ Listable
          /\ \E n \in Ids : NextIndex(n) /\ hunt' = [hunt EXCEPT !.start = n]
          /\ hpc' = "work"
          /\ UNCHANGED <<registry, findings, coverage, outcomes, ledger, approved>>

Nothing(outcome, areas) ==
    [valid |-> TRUE, outcome |-> outcome, findings |-> NoCandidates, written |-> {},
     primitives |-> NoCandidates, areas |-> areas]

\* The in-repo worker: the SARIF results of the signature's class (_same_class).
SameClass ==
    LET found == SarifToFindings(hunt.doc, hunt.target, hunt.start, hunt.scope)
        prims == SarifToPrimitives(hunt.doc, found, hunt.scope)
        same  == {i \in DOMAIN prims : prims[i].kind = hunt.class}
    IN [valid |-> TRUE,
        outcome |-> IF same = {} THEN "empty" ELSE "resolved",
        findings |-> [i \in same |-> found[i]], written |-> {found[i].id : i \in same},
        primitives |-> [i \in same |-> prims[i]], areas |-> hunt.scope \ LongAreas]

\* What a worker outside the process may add to its answer at position 0: a
\* finding of its own making, attested or not, with a primitive that grants and
\* requires everything, and coverage of every area.  Index 0 stands for an id
\* that is not of the form F-<number>.
Strays == [id : {0, SourceFinding, hunt.start}, project : {hunt.target, Source},
           place : RoguePlaces, class : {hunt.class}, status : {"candidate", "verified"}]

At0(f, stray) == [i \in DOMAIN f \cup {0} |-> IF i = 0 THEN stray ELSE f[i]]

WithStray(answer, stray, attested, kind) ==
    [answer EXCEPT !.findings = At0(@, stray),
        !.written = IF attested THEN @ \cup {stray.id} ELSE @,
        !.primitives = At0(@, [kind |-> kind, locus |-> stray.place, ref |-> stray.id,
                               grants |-> Classes, preconditions |-> Classes]),
        !.areas = Areas]

\* What the worker of the target may answer.
Answers ==
    IF hunt.doc = NoDoc THEN {Nothing("empty", {})}
    ELSE LET own == SameClass
         IN {own, Nothing("blocked", {})} \cup
            (IF hunt.target \in Rogue
             THEN {[own EXCEPT !.valid = FALSE]} \cup
                  {WithStray(own, s, attested, k) :
                       s \in Strays, attested \in BOOLEAN, k \in Classes}
             ELSE {})
-----------------------------------------------------------------------------
Bound(a, f) == \E i \in DOMAIN a.primitives :
                  a.primitives[i].kind = hunt.class /\ a.primitives[i].ref = f.id

\* What the firewall asks of a finding before it looks into the store: a
\* well-formed id, a bare candidate, attested and bound by the envelope.
Credible(a, f) == /\ f.id \in Ids
                  /\ f.status = "candidate"
                  /\ f.id \in a.written
                  /\ Bound(a, f)
                  /\ f.project = hunt.target

\* ... new to the store, and at a place inside the target's scope.
Admitted(a, f) == /\ Credible(a, f)
                  /\ findings[f.id] = NoFinding
                  /\ Located(f.place, hunt.scope)

\* One finding per id, the first; the source's own instance is no sibling.
Kept(a) ==
    {i \in DOMAIN a.findings :
        /\ Admitted(a, a.findings[i])
        /\ \A j \in DOMAIN a.findings :
              j < i /\ Admitted(a, a.findings[j]) => a.findings[j].id # a.findings[i].id
        /\ hunt.target = Source /\ hunt.locus # NoPlace => a.findings[i].place # hunt.locus}

\* The primitives that bind a kept finding, in their suspected form: they grant
\* the class that was hunted and require nothing.
Normalised(a, kept) ==
    [i \in {j \in DOMAIN a.primitives :
               /\ a.primitives[j].kind = hunt.class
               /\ \E k \in kept : a.findings[k].id = a.primitives[j].ref
               /\ Located(a.primitives[j].locus, hunt.scope)} |->
        [kind |-> hunt.class, locus |-> a.primitives[i].locus, ref |-> a.primitives[i].ref,
         grants |-> {hunt.class}, preconditions |-> {}]]

\* Reading the store for an id may meet a torn record, which raises.
Readable(a) == \A i \in DOMAIN a.findings :
                  Credible(a, a.findings[i]) /\ findings[a.findings[i].id] # NoFinding
                     => findings[a.findings[i].id].status # "torn"

\* The worker answers, the envelope validates, and the firewall filters it.
Filter ==
    /\ hpc = "work"
    /\ \E a \in Answers :
         LET kept == Kept(a)
         IN /\ a.valid /\ Readable(a)
            /\ \A i \in DOMAIN a.findings : a.findings[i].id \in Ids \cup {0}     \* BOUND: MaxId
            /\ hunt' = [hunt EXCEPT !.kept = [i \in kept |-> a.findings[i]],
                                    !.todo = kept, !.prims = Normalised(a, kept),
                                    !.areas = a.areas \cap hunt.scope, !.reason = a.outcome]
    /\ hpc' = "saving"
    /\ UNCHANGED <<registry, findings, coverage, outcomes, ledger, approved>>

\* The envelope does not validate: nothing of the answer is used.
Reject == /\ hpc = "work"
          /\ \E a \in Answers : ~a.valid
          /\ Answered(hunt.target, Outcome(TRUE, "rejected", {}, {}))
          /\ hunt' = NewBatch(hunt)
          /\ UNCHANGED <<registry, findings, coverage, ledger, approved>>

\* The next kept finding is saved.
SaveVariant ==
    /\ hpc = "saving"
    /\ \E i \in hunt.todo :
         /\ IsFirst(i, hunt.todo)
         /\ SaveFinding(hunt.kept[i], "hunt")
         /\ hunt' = [hunt EXCEPT !.todo = @ \ {i}, !.saved = @ \cup {hunt.kept[i].id}]
    /\ UNCHANGED <<registry, coverage, hpc, outcomes, ledger, approved>>

\* The detail is written after the last finding.
PageDetail == /\ hpc = "saving" /\ hunt.todo = {}
              /\ hpc' = "covering"
              /\ UNCHANGED <<registry, findings, coverage, hunt, outcomes, ledger, approved>>

\* _write_read_coverage: an area of the delta that is in the target's scope.
RecordRead ==
    /\ hpc = "covering"
    /\ \E a \in hunt.areas :
         /\ coverage' = coverage \cup {[project |-> hunt.target, area |-> a, by |-> "hunt"]}
         /\ hunt' = [hunt EXCEPT !.areas = @ \ {a}, !.recorded = @ \cup {a}]
    /\ UNCHANGED <<registry, findings, hpc, outcomes, ledger, approved>>

\* Mutant: the ledger is filled before the findings are on disk.
LedgerPrimitiveEarly ==
    /\ hpc \in {"saving", "covering"}
    /\ \E i \in DOMAIN hunt.prims :
         /\ IsFirst(i, DOMAIN hunt.prims)
         /\ ledger' = AddPrimitive(ledger, hunt.prims[i])
         /\ hunt' = [hunt EXCEPT !.prims = [j \in DOMAIN @ \ {i} |-> @[j]]]
    /\ UNCHANGED <<registry, findings, coverage, hpc, outcomes, approved>>

\* conductor.ingest: the store writes are done, the next primitive is ledgered.
LedgerPrimitive ==
    /\ hpc = "covering" /\ hunt.areas = {}
    /\ \E i \in DOMAIN hunt.prims :
         /\ IsFirst(i, DOMAIN hunt.prims)
         /\ ledger' = AddPrimitive(ledger, hunt.prims[i])
         /\ hunt' = [hunt EXCEPT !.prims = [j \in DOMAIN @ \ {i} |-> @[j]]]
    /\ UNCHANGED <<registry, findings, coverage, hpc, outcomes, approved>>

\* The target is done.
Conclude ==
    /\ hpc = "covering" /\ hunt.areas = {} /\ DOMAIN hunt.prims = {}
    /\ Answered(hunt.target, Outcome(TRUE, hunt.reason, hunt.saved, hunt.recorded))
    /\ hunt' = NewBatch(hunt)
    /\ UNCHANGED <<registry, findings, coverage, ledger, approved>>
-----------------------------------------------------------------------------
\* Mutant: a target that failed is recorded as having found nothing.
TargetFailsEmpty ==
    /\ hpc \in {"number", "work", "saving", "covering"}
    /\ \/ UNCHANGED findings
       \/ /\ hpc = "saving"
          /\ \E i \in hunt.todo : IsFirst(i, hunt.todo) /\ TearFinding(hunt.kept[i], "hunt")
    /\ Answered(hunt.target, Outcome(TRUE, "failed", {}, {}))
    /\ hunt' = NewBatch(hunt)
    /\ UNCHANGED <<registry, coverage, ledger, approved>>

\* Anything raises while the target is worked on, a write of a finding that
\* dies midway included: contained, and what reached the disk is reported.
TargetFails ==
    /\ hpc \in {"number", "work", "saving", "covering"}
    /\ \/ UNCHANGED findings
       \/ /\ hpc = "saving"
          /\ \E i \in hunt.todo : IsFirst(i, hunt.todo) /\ TearFinding(hunt.kept[i], "hunt")
    /\ Answered(hunt.target, Outcome(TRUE, "failed", hunt.saved, hunt.recorded))
    /\ hunt' = NewBatch(hunt)
    /\ UNCHANGED <<registry, coverage, ledger, approved>>

\* _teach_back: the session reports what its targets saved.
TeachBack ==
    /\ hpc = "next" /\ hunt.queue = << >>
    /\ hunt' = [hunt EXCEPT !.touched =
                  UNION {outcomes[p].findings : p \in {q \in Projects : outcomes[q] # NoOutcome}}]
    /\ hpc' = "closed"
    /\ UNCHANGED <<registry, findings, coverage, outcomes, ledger, approved>>

\* KeyboardInterrupt, SystemExit or a kill: past every guard.
Interrupt == /\ hpc \in {"gated", "next", "number", "work", "saving", "covering"}
             /\ Aborted
             /\ UNCHANGED <<registry, findings, coverage, approved>>

HuntStep ==
    \/ SourceGone \/ Refuse \/ Derive
    \/ \E p \in Projects : PassOver(p) \/ SiblingTorn(p) \/ GateStops(p) \/ GatePasses(p)
    \/ Number \/ Filter \/ Reject \/ SaveVariant \/ PageDetail \/ RecordRead
    \/ LedgerPrimitive \/ Conclude \/ TargetFails \/ TeachBack

\* Targets whose batch a step of DISCOVER disturbs: the one being filtered or
\* saved, and any whose variant it saves over.
Disturbed == IF UNCHANGED findings THEN {}
             ELSE (IF hpc \in {"work", "saving"} THEN {hunt.target} ELSE {}) \cup
                  {findings[i].project : i \in {j \in Ids : /\ findings'[j] # findings[j]
                                                            /\ findings[j] # NoFinding}}

Next ==
    \/ (Dispatch \/ EditSource \/ HuntStep \/ Interrupt) /\ UNCHANGED <<discVars, raced>>
    \/ Discover /\ raced' = raced \cup Disturbed /\ UNCHANGED huntVars

Spec == Init /\ [][Next]_vars
-----------------------------------------------------------------------------
Labels == {"idle", "gated", "next", "number", "work", "saving", "covering",
           "closed", "aborted"}

Reasons == {"resolved", "empty", "blocked", "rejected", "failed", "skipped",
            "error", "hold", "refuse"}

OutcomeRecord == [proceeded : BOOLEAN, reason : Reasons, findings : SUBSET Ids, areas : SUBSET Areas]

ASSUME NoOutcomeAssumption == NoOutcome \notin OutcomeRecord

Node == [kind : Classes, locus : Places, ref : Ids,
         grants : SUBSET Classes, preconditions : SUBSET Classes]

\* Every variable holds a value of its kind; the ledger stays within its bound,
\* no two nodes of it share a key.
TypeOK ==
    /\ DiscoverTypeOK
    /\ hpc \in Labels
    /\ hunt.target \in Projects /\ hunt.scope \subseteq Areas
    /\ hunt.queue \in Seq(Projects)
    /\ hunt.saved \subseteq Ids /\ hunt.recorded \subseteq Areas /\ hunt.touched \subseteq Ids
    /\ hunt.todo \subseteq DOMAIN hunt.kept
    /\ \A i \in DOMAIN hunt.kept : hunt.kept[i] \in Candidate /\ hunt.kept[i].id \in Ids
    /\ \A i \in DOMAIN hunt.prims : hunt.prims[i] \in Node
    /\ outcomes \in [Projects -> OutcomeRecord \cup {NoOutcome}]
    /\ ledger \in Seq(Node) /\ Len(ledger) <= MaxPrimitives
    /\ \A i, j \in 1 .. Len(ledger) :
          NodeKey(ledger[i]) = NodeKey(ledger[j]) => i = j
    /\ raced \subseteq Projects

Hunted(i) == findings[i] # NoFinding /\ findings[i].by = "hunt"

\* "Never widens scope": whatever interleaves, a variant or a coverage record
\* lies in a contained scope that the gate let proceed for its own project.  For
\* the source that is the scope read again after the gate, if it was edited.
Cleared(p, area) ==
    LET c == IF p = Source THEN registry[p] ELSE approved[p]
    IN /\ approved[p] # NoProject /\ Evaluate(approved[p]) = "proceed"
       /\ area \in c.scope \ Escaping[p]

GatedOnly ==
    /\ \A i \in Ids : Hunted(i) => /\ findings[i].place # NoPlace
                                   /\ Cleared(findings[i].project, findings[i].place.area)
    /\ \A r \in coverage : r.by = "hunt" => Cleared(r.project, r.area)

\* The ledger is consistent with the store: each node is backed by a record on
\* disk, a candidate as long as it is the hunt's, whatever the worker answered
\* and whichever write failed; and a hunt never composes a chain.
LedgerIsBacked ==
    /\ \A n \in 1 .. Len(ledger) :
          /\ ledger[n].kind = hunt.class
          /\ findings[ledger[n].ref] # NoFinding
          /\ Hunted(ledger[n].ref) => findings[ledger[n].ref].status = "candidate"
    /\ Compositions(ledger) = {}

\* A closed session reports every record it left on disk, also after a target
\* failed halfway, and nothing that is not there.
AccountedFor ==
    /\ hpc = "closed" =>
          /\ \A i \in Ids : Hunted(i) /\ findings[i].status # "torn" => i \in hunt.touched
          /\ \A i \in hunt.touched : findings[i] # NoFinding
    /\ dpc = "closed" =>
          /\ \A i \in Ids : findings[i] # NoFinding /\ findings[i].by = "discover"
                               => i \in disc.touched
          /\ \A i \in disc.touched : findings[i] # NoFinding

\* A hunt that was not refused answers for every target it was given, and what a
\* target's outcome says is so: one that did not proceed has no record at all.
OutcomesTellAll ==
    hpc = "closed" /\ hunt.class # NoClass =>
        \A p \in {Source} \cup {Siblings[k] : k \in 1 .. Len(Siblings)} :
           /\ outcomes[p] # NoOutcome
           /\ \A i \in Ids : Hunted(i) /\ findings[i].project = p /\ findings[i].status # "torn"
                                => outcomes[p].proceeded /\ i \in outcomes[p].findings
           /\ {r.area : r \in {c \in coverage : c.by = "hunt" /\ c.project = p}}
                 = outcomes[p].areas

\* "Not a clean empty run": a target reported as resolved or empty has every
\* located same-class instance of the SARIF in its scope on disk, the source's
\* own instance apart, unless DISCOVER saved into its batch or over it.
VariantsFiled ==
    \A p \in Projects \ (Rogue \cup raced) :
        outcomes[p] # NoOutcome /\ outcomes[p].reason \in {"resolved", "empty"} /\ hunt.doc # NoDoc =>
            \A i \in Accepted(hunt.doc, Contained(registry[p].scope, Escaping[p])) :
                /\ hunt.doc[i].class = hunt.class
                /\ hunt.doc[i].place # NoPlace
                /\ p = Source => hunt.doc[i].place # hunt.locus
                => \E id \in Ids : /\ Hunted(id) /\ findings[id].project = p
                                   /\ findings[id].place = hunt.doc[i].place

\* No command writes over a finding that was on disk when it numbered its own:
\* what is overwritten was saved by the other one since.
RecordsKept ==
    [][\A i \in Ids : findings'[i] # findings[i] /\ findings[i] # NoFinding =>
          /\ findings'[i].by # findings[i].by /\ findings[i].by # "earlier"
          /\ i >= IF findings'[i].by = "hunt" THEN hunt.start ELSE disc.start]_vars
=============================================================================
