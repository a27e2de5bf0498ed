--------------------------- MODULE DiscoverSession ---------------------------
(***************************************************************************)
(* DISCOVER past its gate (src/deepthought/sessions/discover.py): one      *)
(* worker reads SARIF, numbers its candidates after the largest index on   *)
(* disk and saves them one file at a time; the envelope is then ingested   *)
(* and read coverage recorded area by area.  Nothing locks the store       *)
(* between these steps, and any of them may raise.                         *)
(***************************************************************************)
EXTENDS SarifIngest, Sequences

CONSTANTS Projects,     \* ids a project may have
          NoProject,    \* an id nobody has registered
          TornProject,  \* a record on disk that does not parse
          Docs,         \* the SARIF documents there are
          NoDoc,        \* no --sarif
          Escaping,     \* per project, areas that resolve outside its checkout
          LongAreas,    \* areas longer than _COVERAGE_AREA_MAX
          MaxId,        \* BOUND: the largest finding index
          NoFinding     \* an index no file has

Ids == 1 .. MaxId

VARIABLES registry,     \* projects/<id>.md, as far as the gate reads it
          findings,     \* findings/F-<id>.md; by: the command that saved it
          coverage,     \* coverage/<project>/<area>.md
          dpc,          \* where DISCOVER is
          disc          \* its local variables

discVars == <<dpc, disc>>

Commands == {"earlier", "discover", "hunt"}

\* A record on disk; "torn" is one whose write died midway.
Record == [project : Projects, place : Places, class : Classes \cup {NoClass},
           status : {"candidate", "verified", "torn"}, by : Commands]

Saved(f, command) == [project |-> f.project, place |-> f.place, class |-> f.class,
                      status |-> f.status, by |-> command]

SaveFinding(f, command) == findings' = [findings EXCEPT ![f.id] = Saved(f, command)]

\* write_text truncates the file first: a write that dies leaves no record.
TearFinding(f, command) ==
    findings' = [findings EXCEPT ![f.id] = Saved([f EXCEPT !.status = "torn"], command)]

\* list_findings parses every file, and raises on the first that does not.
Listable == \A i \in Ids : findings[i] # NoFinding => findings[i].status # "torn"

\* Mutant: the first unused index.
NextIndexFirstGap(n) == /\ findings[n] = NoFinding
                        /\ \A i \in 1 .. n - 1 : findings[i] # NoFinding

\* _next_finding_index: one more than the largest index on disk.
NextIndex(n) == /\ \A i \in n .. MaxId : findings[i] = NoFinding
                /\ n > 1 => findings[n - 1] # NoFinding

Gated(p) == registry[p] \in StoredContexts /\ Evaluate(registry[p]) = "proceed"

\* The position a loop over S reaches next.
IsFirst(i, S) == i \in S /\ \A j \in S : i <= j

NoCandidates == [i \in {} |-> NoFinding]

DiscStart == [project |-> CHOOSE p \in Projects : TRUE, doc |-> NoDoc, scope |-> {},
              start |-> 1, found |-> NoCandidates, todo |-> {}, areas |-> {}, touched |-> {}]

DiscoverInit == dpc = "idle" /\ disc = DiscStart
-----------------------------------------------------------------------------
\* The gate has let DISCOVER run, and run() has read the project.
Begin == /\ dpc = "idle"
         /\ \E p \in Projects, doc \in Docs \cup {NoDoc} :
              /\ Gated(p)
              /\ disc' = [disc EXCEPT !.project = p, !.doc = doc,
                             !.scope = Contained(registry[p].scope, Escaping[p])]
         /\ dpc' = "reading"
         /\ UNCHANGED <<registry, findings, coverage>>

\* No SARIF was given, or it does not load: an empty or a blocked envelope
\* that claims nothing, and no finding is listed.
NothingToRead == /\ dpc = "reading"
                 /\ dpc' = "teaching"
                 /\ UNCHANGED <<registry, findings, coverage, disc>>

\* The worker numbers and builds its candidates, and the envelope validates.
ReadSarif ==
    /\ dpc = "reading" /\ disc.doc # NoDoc /\ Listable
    /\ \E n \in Ids :
         /\ NextIndex(n)
         /\ LET found == SarifToFindings(disc.doc, disc.project, n, disc.scope)
            IN disc' = [disc EXCEPT !.start = n, !.found = found, !.todo = DOMAIN found,
                                    !.areas = disc.scope \ LongAreas]
    /\ dpc' = "saving"
    /\ UNCHANGED <<registry, findings, coverage>>

\* The next candidate is saved, whatever is on disk under its id by now.
SaveCandidate ==
    /\ dpc = "saving"
    /\ \E i \in disc.todo :
         /\ IsFirst(i, disc.todo) /\ disc.found[i].id \in Ids       \* BOUND: MaxId
         /\ SaveFinding(disc.found[i], "discover")
         /\ disc' = [disc EXCEPT !.todo = @ \ {i}]
    /\ UNCHANGED <<registry, coverage, dpc>>

\* ... or its write dies midway, and the exception leaves the session open.
TearCandidate ==
    /\ dpc = "saving"
    /\ \E i \in disc.todo :
         /\ IsFirst(i, disc.todo) /\ disc.found[i].id \in Ids
         /\ TearFinding(disc.found[i], "discover")
    /\ dpc' = "raised" /\ disc' = DiscStart
    /\ UNCHANGED <<registry, coverage>>

\* The detail is paged, and the conductor ingests the envelope.
IngestEnvelope == /\ dpc = "saving" /\ disc.todo = {}
                  /\ dpc' = "teaching"
                  /\ UNCHANGED <<registry, findings, coverage, disc>>

\* _write_read_coverage, an area of the delta that is still in scope.
RecordArea ==
    /\ dpc = "teaching"
    /\ \E a \in disc.areas :
         /\ coverage' = coverage \cup {[project |-> disc.project, area |-> a, by |-> "discover"]}
         /\ disc' = [disc EXCEPT !.areas = @ \ {a}]
    /\ UNCHANGED <<registry, findings, dpc>>

\* Mutant: only the candidates a primitive is bound to are reported.
DiscoverReturnsBound ==
    /\ dpc = "teaching" /\ disc.areas = {}
    /\ dpc' = "closed"
    /\ disc' = [DiscStart EXCEPT !.touched =
                  {disc.found[i].id : i \in {j \in DOMAIN disc.found : disc.found[j].class # NoClass}}]
    /\ UNCHANGED <<registry, findings, coverage>>

\* The outcome lists what the envelope says was written.
DiscoverReturns ==
    /\ dpc = "teaching" /\ disc.areas = {}
    /\ dpc' = "closed"
    /\ disc' = [DiscStart EXCEPT !.touched = {disc.found[i].id : i \in DOMAIN disc.found}]
    /\ UNCHANGED <<registry, findings, coverage>>

\* A store error in any step, or the process dies: nothing is reported.
DiscoverRaises == /\ dpc \in {"reading", "saving", "teaching"}
                  /\ dpc' = "raised" /\ disc' = DiscStart
                  /\ UNCHANGED <<registry, findings, coverage>>

Discover == \/ Begin \/ NothingToRead \/ ReadSarif \/ SaveCandidate \/ TearCandidate
            \/ IngestEnvelope \/ RecordArea \/ DiscoverReturns \/ DiscoverRaises
-----------------------------------------------------------------------------
Candidate == [id : Nat, project : Projects, place : Places,
              class : Classes \cup {NoClass}, status : {"candidate", "verified"}]

CoverageRecord == [project : Projects, area : Areas, by : Commands]

DiscoverTypeOK ==
    /\ registry \in [Projects -> StoredContexts \cup {NoProject, TornProject}]
    /\ findings \in [Ids -> Record \cup {NoFinding}]
    /\ coverage \subseteq CoverageRecord
    /\ dpc \in {"idle", "reading", "saving", "teaching", "closed", "raised"}
    /\ disc.project \in Projects /\ disc.doc \in Docs \cup {NoDoc}
    /\ disc.scope \subseteq Areas /\ disc.areas \subseteq disc.scope
    /\ disc.start \in Nat /\ disc.touched \subseteq Nat
    /\ disc.todo \subseteq DOMAIN disc.found
    /\ \A i \in DOMAIN disc.found : disc.found[i] \in Candidate
=============================================================================
