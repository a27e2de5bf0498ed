---------------------------- MODULE PublishProofs ----------------------------
(***************************************************************************)
(* What check and publish promise of a store that goes on changing, for    *)
(* every set of projects, findings, formats and references and however     *)
(* many records, writers and runs.  The inductive invariant ties what the  *)
(* command has read to the store in two ways: as long as no hand was in    *)
(* the store, and no revert has stripped a finding, the store and every    *)
(* copy a writer holds are as check wants them, and as long as nothing     *)
(* moved under the run what it has read is what is stored.                 *)
(***************************************************************************)
EXTENDS CheckPublish, TLAPS

Entries == StoredFinding \cup {None, Torn}

Files == [Findings -> Entries]

Details == {Evidence(f) : f \in Findings} \cup {Drafts(f) : f \in Findings}

Stages == {"idle", "projects", "findings", "records", "judging", "listing", "writing"}

Runs == [formats : SUBSET Formats, ok : BOOLEAN, known : SUBSET Projects, checked : Files,
         drawn : SUBSET (Findings \cup {None}), listed : Files,
         todo : SUBSET (Formats \X Findings)]

\* What a writer has in memory at each of its steps.
Verifying == {"sandbox", "promoting", "leaving", "asking", "deciding", "rejected", "reverting"}

Holding == {"deciding", "reverting", "moving"}

Copies == StoredFinding \cup {None}

Locals == [at : Verifying \cup Holding \cup {"idle"}, finding : Findings \cup {None},
           read : Copies, held : Copies]

LocalTyped(local) == /\ local.at # "idle" => local.finding \in Findings
                     /\ local.at \in Verifying => local.read \in StoredFinding
                     /\ local.at \in Holding => local.held \in StoredFinding

WorkTyped == work \in [Writers -> Locals] /\ \A w \in Writers : LocalTyped(work[w])

StoreTyped == /\ projects \in [Projects -> Identities \cup {None, Torn}]
              /\ findings \in Files
              /\ details \subseteq Details
              /\ records \subseteq StoredRecord

CommandTyped == /\ ppc \in Stages
                /\ run \in Runs
                /\ out \in [Formats -> Files]
                /\ strayed \in BOOLEAN /\ stripped \in BOOLEAN /\ moved \in BOOLEAN

\* Of a finding that left candidate the evidence resolves, even if it is only
\* patched now: a person may move it back to verified without showing any.
Carried(record) == /\ record.status # "candidate" => record.evidence \in Resolving
                   /\ Referenced(record)

\* A copy in memory may be stale, but what it says of its finding stays true.
LocalKept(local) ==
    /\ local.at \in Verifying => local.read.status = "candidate" /\ Registered(local.read.project)
    /\ local.at \in Holding => Carried(local.held) /\ Registered(local.held.project)

CopiesKept == \A w \in Writers : LocalKept(work[w])

Refers(r) == /\ Registered(r.project)
             /\ r.finding # None => Stored(r.finding)
             /\ r.drew => r.finding # None /\ Drafts(r.finding) \in details

\* No hand was in the store, and no revert took the evidence of a finding that
\* another writer had moved.
Untainted == ~strayed /\ ~stripped

\* The store that only sessions have written.
Healthy == /\ \A p \in Projects : projects[p] # Torn
           /\ \A p, q \in Projects : Registered(p) /\ projects[p] = projects[q] => p = q
           /\ \A f \in Findings : findings[f] # None =>
                 Stored(f) /\ Registered(findings[f].project) /\ Carried(findings[f])
           /\ \A r \in records : Refers(r)

\* While nothing moved under the run, what it has read is what is stored.
ReadIsStored ==
    /\ ppc \in {"findings", "records", "judging"} =>
          run.known = {p \in Projects : Registered(p)}
    /\ ppc \in {"records", "judging"} =>
          /\ run.checked = findings
          /\ run.ok => \A f \in Findings : findings[f] # None => Stored(f) /\ Referenced(findings[f])
    /\ ppc = "judging" => run.drawn = {r.finding : r \in {s \in records : s.drew}}
    /\ ppc = "listing" => \A f \in Findings : findings[f] # None => Stored(f) /\ Rests(findings[f])

\* No hand and no other writer: check has seen nothing it would refuse.
NothingAmiss == ppc \in {"findings", "records", "judging"} => run.ok

\* A draft is only ever of a finding past candidate, in whichever run it was
\* written; what this run has written is what it listed.
DraftsPastCandidate ==
    \A fmt \in Formats \ {"osv"}, f \in Findings :
        out[fmt][f] # None => out[fmt][f] \in StoredFinding /\ out[fmt][f].status # "candidate"

Wanted(fmt, record) == fmt = "osv" \/ record.status # "candidate"

WritesListing ==
    ppc = "writing" =>
        /\ \A f \in Findings : run.listed[f] # None => run.listed[f] \in StoredFinding
        /\ \A fmt \in Formats, f \in Findings :
              /\ <<fmt, f>> \in run.todo => run.listed[f] # None /\ Wanted(fmt, run.listed[f])
              /\ fmt \in run.formats /\ run.listed[f] # None /\ Wanted(fmt, run.listed[f]) =>
                    <<fmt, f>> \in run.todo \/ out[fmt][f] = run.listed[f]

\* The listing rests on evidence: sessions lose none, but by such a revert, and
\* what a hand or a revert did before the run check has seen.
ListingRests ==
    ppc = "writing" /\ (Untainted \/ ~moved) =>
        \A f \in Findings : run.listed[f] # None => Rests(run.listed[f])

StoreInv == StoreTyped /\ WorkTyped /\ (Untainted => Healthy /\ CopiesKept)

PublishInv == /\ StoreInv /\ CommandTyped
              /\ ~moved => ReadIsStored
              /\ Untainted /\ ~moved => NothingAmiss
              /\ DraftsPastCandidate
              /\ WritesListing
              /\ ListingRests
-----------------------------------------------------------------------------
LEMMA NoRunTyped == NoRun \in Runs
  BY DEF NoRun, Runs, Files, Entries

LEMMA NoWorkTyped == NoWork \in Locals /\ LocalTyped(NoWork)
  BY DEF NoWork, Locals, LocalTyped, Copies, Verifying, Holding

LEMMA InitPublish == Init => PublishInv
<1> SUFFICES ASSUME Init PROVE PublishInv
  OBVIOUS
<1>1. StoreTyped /\ CommandTyped
  BY NoRunTyped DEF Init, StoreTyped, CommandTyped, Files, Entries, Stages
<1>2. Healthy
  BY PublishAssumption DEF Init, Healthy, Registered
<1>4. WorkTyped /\ CopiesKept
  BY NoWorkTyped DEF Init, WorkTyped, CopiesKept, LocalKept, NoWork, Verifying, Holding
<1>3. DraftsPastCandidate
  BY DEF Init, DraftsPastCandidate
<1> QED BY <1>1, <1>2, <1>3, <1>4 DEF Init, PublishInv, StoreInv, ReadIsStored, NothingAmiss, WritesListing, ListingRests

\* Where a finding is stored it is a record, and conversely.
LEMMA StoredIsNeither ==
  ASSUME NEW f \in Findings, Stored(f)
  PROVE  findings[f] # None /\ findings[f] # Torn /\ findings[f] \in StoredFinding
  BY NoFileAssumption DEF Stored

LEMMA CandidateStored ==
  ASSUME NEW p \in Projects
  PROVE  [project |-> p, status |-> "candidate", evidence |-> 0, refs |-> {}] \in StoredFinding
  BY DEF StoredFinding, Status

\* What a session writes is typed, whatever the command reads of it.
LEMMA SessionsTyped ==
  ASSUME StoreTyped, Sessions
  PROVE  StoreTyped'
<1> USE DEF StoreTyped
<1>1. CASE Register
  BY <1>1 DEF Register
<1>2. CASE FileCandidate
  BY <1>2, CandidateStored DEF FileCandidate, Files, Entries
<1>3. CASE Cite
  <2>1. PICK f \in Findings, refs \in Citations :
           Stored(f) /\ findings' = [findings EXCEPT ![f].refs = @ \cup refs]
    BY <1>3 DEF Cite
  <2>2. [findings[f] EXCEPT !.refs = @ \cup refs] \in StoredFinding
    BY <2>1, PublishAssumption DEF Stored, StoredFinding
  <2>3. UNCHANGED <<projects, details, records>>
    BY <1>3 DEF Cite
  <2> QED BY <2>1, <2>2, <2>3 DEF Files, Entries
<1>4. CASE Draft
  BY <1>4 DEF Draft, Details
<1>5. CASE CloseRecord
  BY <1>5 DEF CloseRecord
<1> QED BY <1>1, <1>2, <1>3, <1>4, <1>5 DEF Sessions

\* A hand on the files leaves files that parse, or do not, or are gone.
LEMMA HandTyped ==
  ASSUME StoreTyped, OpenMistyped \/ HandEdit
  PROVE  StoreTyped'
<1> USE DEF StoreTyped
<1>1. CASE OpenMistyped
  <2>1. PICK p \in Projects :
           records' = records \cup {[project |-> p, finding |-> None, drew |-> FALSE]}
    BY <1>1 DEF OpenMistyped
  <2>2. [project |-> p, finding |-> None, drew |-> FALSE] \in StoredRecord
    BY DEF StoredRecord
  <2>3. UNCHANGED <<projects, findings, details>>
    BY <1>1 DEF OpenMistyped
  <2> QED BY <2>1, <2>2, <2>3
<1>2. CASE HandEdit
  <2>1. ASSUME NEW p \in Projects, NEW u \in Identities \cup {None, Torn},
               projects' = [projects EXCEPT ![p] = u], UNCHANGED <<findings, details, records>>
        PROVE  StoreTyped'
    BY <2>1
  <2>2. ASSUME NEW f \in Findings, NEW gone \in {None, Torn},
               findings' = [findings EXCEPT ![f] = gone], UNCHANGED <<projects, details, records>>
        PROVE  StoreTyped'
    BY <2>2 DEF Files, Entries
  <2>3. ASSUME NEW f \in Findings, NEW new \in Status, Stored(f),
               findings' = [findings EXCEPT ![f].status = new],
               UNCHANGED <<projects, details, records>>
        PROVE  StoreTyped'
    <3>1. [findings[f] EXCEPT !.status = new] \in StoredFinding
      BY <2>3 DEF Stored, StoredFinding
    <3> QED BY <2>3, <3>1 DEF Files, Entries
  <2>4. ASSUME NEW d \in details, details' = details \ {d}, UNCHANGED <<projects, findings, records>>
        PROVE  StoreTyped'
    BY <2>4
  <2> QED BY <1>2, <2>1, <2>2, <2>3, <2>4 DEF HandEdit
<1> QED BY <1>1, <1>2
-----------------------------------------------------------------------------
\* A session only adds to detail/.
LEMMA SessionsKeepDetails == Sessions => details \subseteq details'
  BY DEF Sessions, Register, FileCandidate, Cite, Draft, CloseRecord

\* What is carried or rests stays so while detail/ only grows.
LEMMA GrowingKeeps ==
  ASSUME details \subseteq details', NEW record
  PROVE  /\ Carried(record) => Carried(record)'
         /\ Rests(record) => Rests(record)'
  BY DEF Carried, Rests, Resolving

\* Nothing that a record refers to goes away.
LEMMA ReferencesStay ==
  ASSUME \A r \in records : Refers(r), UNCHANGED records, details \subseteq details',
         \A p \in Projects : Registered(p) => Registered(p)',
         \A f \in Findings : Stored(f) => Stored(f)', StoreTyped
  PROVE  (\A r \in records : Refers(r))'
<1> SUFFICES ASSUME NEW r \in records PROVE Refers(r)'
  OBVIOUS
<1>1. r.project \in Projects /\ r.finding \in Findings \cup {None}
  BY DEF StoreTyped, StoredRecord
<1> QED BY <1>1 DEF Refers

\* One finding changes, and is carried: the store stays healthy.
LEMMA OneFindingChanges ==
  ASSUME StoreTyped, Healthy, NEW f \in Findings, NEW record \in StoredFinding,
         findings' = [findings EXCEPT ![f] = record], UNCHANGED <<projects, details, records>>,
         Registered(record.project), Carried(record)
  PROVE  Healthy'
<1> USE DEF Healthy
<1>1. findings'[f] = record /\ \A g \in Findings \ {f} : findings'[g] = findings[g]
  BY DEF StoreTyped, Files
<1>2. \A g \in Findings : Stored(g) => Stored(g)'
  BY <1>1 DEF Stored
<1>3. \A p \in Projects : Registered(p)' = Registered(p)
  BY DEF Registered
<1>4. ASSUME NEW g \in Findings, findings'[g] # None
      PROVE  (Stored(g) /\ Registered(findings[g].project) /\ Carried(findings[g]))'
  BY <1>1, <1>4 DEF Stored, Registered, Carried, Resolving
<1>5. (\A r \in records : Refers(r))'
  BY <1>2, <1>3, ReferencesStay
<1> QED BY <1>3, <1>4, <1>5

\* Only details are added: the store stays healthy.
LEMMA DetailsGrow ==
  ASSUME StoreTyped, Healthy, details \subseteq details', UNCHANGED <<projects, findings, records>>
  PROVE  Healthy'
<1>1. ASSUME NEW f \in Findings, findings'[f] # None
      PROVE  (Stored(f) /\ Registered(findings[f].project) /\ Carried(findings[f]))'
  <2>1. Stored(f) /\ Registered(findings[f].project) /\ Carried(findings[f])
    BY <1>1 DEF Healthy
  <2> QED BY <2>1 DEF Stored, Registered, Carried, Resolving
<1>2. (\A r \in records : Refers(r))'
  BY ReferencesStay DEF Healthy, Stored, Registered
<1> QED BY <1>1, <1>2 DEF Healthy, Registered

\* A session leaves the store as check wants it.
LEMMA SessionsKeepHealthy ==
  ASSUME StoreTyped, Healthy, Sessions
  PROVE  Healthy'
<1>1. CASE Register
  <2>1. PICK p \in Projects, u \in Identities :
           /\ projects[p] = None /\ \A q \in Projects : projects[q] # u
           /\ projects' = [projects EXCEPT ![p] = u]
    BY <1>1 DEF Register
  <2>2. UNCHANGED <<findings, details, records>>
    BY <1>1 DEF Register
  <2>3. projects'[p] = u /\ \A q \in Projects \ {p} : projects'[q] = projects[q]
    BY <2>1 DEF StoreTyped
  <2>4. \A q \in Projects : Registered(q) => Registered(q)'
    BY <2>3 DEF Registered
  <2>5. /\ \A q \in Projects : projects'[q] # Torn
        /\ \A q, s \in Projects : Registered(q)' /\ projects'[q] = projects'[s] => q = s
    BY <2>1, <2>3, PublishAssumption DEF Healthy, Registered
  <2>6. (\A r \in records : Refers(r))'
    BY <2>2, <2>4, ReferencesStay DEF Healthy, Stored
  <2>7. ASSUME NEW f \in Findings, findings'[f] # None
        PROVE  (Stored(f) /\ Registered(findings[f].project) /\ Carried(findings[f]))'
    <3>1. Stored(f) /\ Registered(findings[f].project) /\ Carried(findings[f])
      BY <2>2, <2>7 DEF Healthy
    <3>2. findings[f].project \in Projects
      BY <3>1 DEF Stored, StoredFinding
    <3> QED BY <2>2, <2>4, <3>1, <3>2 DEF Stored, Carried, Resolving
  <2> QED BY <2>5, <2>6, <2>7 DEF Healthy
<1>2. CASE FileCandidate
  <2>1. PICK f \in Findings, p \in Projects :
           /\ Registered(p)
           /\ findings' = [findings EXCEPT ![f] =
                 [project |-> p, status |-> "candidate", evidence |-> 0, refs |-> {}]]
    BY <1>2 DEF FileCandidate
  <2> DEFINE record == [project |-> p, status |-> "candidate", evidence |-> 0, refs |-> {}]
  <2>2. record \in StoredFinding /\ Registered(record.project) /\ Carried(record)
    BY <2>1, CandidateStored DEF Carried, Referenced
  <2> HIDE DEF record
  <2>3. findings' = [findings EXCEPT ![f] = record] /\ UNCHANGED <<projects, details, records>>
    BY <1>2, <2>1 DEF FileCandidate, record
  <2> QED BY <2>2, <2>3, OneFindingChanges
<1>3. CASE Draft
  <2>1. details \subseteq details' /\ UNCHANGED <<projects, findings, records>>
    BY <1>3 DEF Draft
  <2> QED BY <2>1, DetailsGrow
<1>4. CASE Cite
  <2>1. PICK f \in Findings, refs \in Citations :
           Stored(f) /\ findings' = [findings EXCEPT ![f].refs = @ \cup refs]
    BY <1>4 DEF Cite
  <2> DEFINE record == [findings[f] EXCEPT !.refs = @ \cup refs]
  <2>2. /\ record \in StoredFinding /\ record.status = findings[f].status
        /\ record.project = findings[f].project /\ record.evidence = findings[f].evidence
        /\ findings[f].refs \subseteq record.refs
    BY <2>1, PublishAssumption DEF Stored, StoredFinding
  <2>3. findings' = [findings EXCEPT ![f] = record] /\ UNCHANGED <<projects, details, records>>
    BY <1>4, <2>1 DEF Cite
  <2> HIDE DEF record
  <2>4. Registered(findings[f].project) /\ Carried(findings[f])
    BY <2>1, StoredIsNeither DEF Healthy
  <2>5. Carried(record)
    BY <2>2, <2>4 DEF Carried, Referenced
  <2> QED BY <2>2, <2>3, <2>4, <2>5, OneFindingChanges
<1>5. CASE CloseRecord
  <2>1. PICK r \in StoredRecord : /\ Refers(r) /\ records' = records \cup {r}
    BY <1>5 DEF CloseRecord, Refers
  <2>2. UNCHANGED <<projects, findings, details>>
    BY <1>5 DEF CloseRecord
  <2>3. \A s \in records' : Refers(s)
    BY <2>1 DEF Healthy
  <2>4. (\A s \in records : Refers(s))'
    BY <2>2, <2>3 DEF Refers, Registered, Stored
  <2> QED BY <2>2, <2>4 DEF Healthy, Registered, Stored, Carried, Resolving
<1> QED BY <1>1, <1>2, <1>3, <1>4, <1>5 DEF Sessions
-----------------------------------------------------------------------------
\* A writer's step: its locals become local, and projects and records stay.
Leads(w, local) == /\ local \in Locals /\ LocalTyped(local)
                   /\ work' = [work EXCEPT ![w] = local]
                   /\ UNCHANGED <<projects, records>>

\* A save of the finding it works on.
Saves(w, record) == Save(w, record) /\ UNCHANGED details

\* A record of a finding may be looked at while it is stored.
LEMMA StoredKept ==
  ASSUME NEW f \in Findings, Stored(f), Healthy
  PROVE  Carried(findings[f]) /\ Registered(findings[f].project)
  BY StoredIsNeither DEF Healthy

\* Steps of a writer that only read.
LEMMA ReadingWriters ==
  ASSUME StoreTyped, WorkTyped, NEW w \in Writers,
         StartVerify(w) \/ ReadForTransition(w) \/ Reload(w) \/ AskTransition(w) \/ Drop(w)
  PROVE  /\ UNCHANGED <<findings, details, stripped>>
         /\ \E local : Leads(w, local) /\ (Healthy /\ CopiesKept => LocalKept(local))
<1>0. /\ UNCHANGED <<projects, findings, details, records, stripped>>
      /\ work[w] \in Locals /\ LocalTyped(work[w]) /\ (CopiesKept => LocalKept(work[w]))
  BY DEF WorkTyped, CopiesKept, StartVerify, ReadForTransition, Reload, AskTransition, Drop, storeVars
<1>1. CASE StartVerify(w)
  <2>1. PICK f \in Findings :
          /\ Stored(f) /\ findings[f].status = "candidate"
          /\ work' = [work EXCEPT ![w] = [NoWork EXCEPT !.at = "sandbox", !.finding = f,
                                                       !.read = findings[f]]]
    BY <1>1 DEF StartVerify
  <2> DEFINE local == [NoWork EXCEPT !.at = "sandbox", !.finding = f, !.read = findings[f]]
  <2>2. /\ local.at = "sandbox" /\ local.finding = f /\ local.read = findings[f] /\ local.held = None
        /\ local \in Locals
    BY <2>1 DEF NoWork, Locals, Copies, Verifying, Stored
  <2>3. work' = [work EXCEPT ![w] = local]
    BY <2>1
  <2> HIDE DEF local
  <2>4. LocalTyped(local) /\ (Healthy => LocalKept(local))
    BY <2>1, <2>2, StoredKept DEF LocalTyped, LocalKept, Verifying, Holding, Stored
  <2> QED BY <1>0, <2>2, <2>3, <2>4 DEF Leads
<1>2. CASE ReadForTransition(w)
  <2> DEFINE f     == work[w].finding
             local == [work[w] EXCEPT !.at = "deciding", !.held = findings[f]]
  <2>1. /\ work[w].at = "asking" /\ Stored(f)
        /\ work' = [work EXCEPT ![w].at = "deciding", ![w].held = findings[f]]
    BY <1>2 DEF ReadForTransition
  <2>2. f \in Findings /\ findings[f] \in StoredFinding
    BY <1>0, <2>1 DEF LocalTyped, Stored
  <2>3. /\ local.at = "deciding" /\ local.finding = f /\ local.read = work[w].read
        /\ local.held = findings[f] /\ local \in Locals
    BY <1>0, <2>2 DEF Locals, Copies, Holding
  <2>4. work' = [work EXCEPT ![w] = local]
    BY <2>1
  <2>5. Healthy => Carried(findings[f]) /\ Registered(findings[f].project)
    BY <2>1, <2>2, StoredKept
  <2> HIDE DEF local, f
  <2>6. LocalTyped(local)
    BY <1>0, <2>1, <2>2, <2>3 DEF LocalTyped, Verifying, Holding
  <2>7. Healthy /\ CopiesKept => LocalKept(local)
    BY <1>0, <2>1, <2>3, <2>5 DEF LocalKept, Verifying, Holding
  <2> QED BY <1>0, <2>3, <2>4, <2>6, <2>7 DEF Leads
<1>3. CASE Reload(w)
  <2> DEFINE f     == work[w].finding
             held  == IF Stored(f) THEN findings[f] ELSE work[w].read
             local == [work[w] EXCEPT !.at = "reverting", !.held = held]
  <2>1. /\ work[w].at = "rejected"
        /\ work' = [work EXCEPT ![w].at = "reverting", ![w].held = held]
    BY <1>3 DEF Reload
  <2>2. f \in Findings /\ held \in StoredFinding
    BY <1>0, <2>1 DEF LocalTyped, Stored, Verifying
  <2>3. Healthy /\ CopiesKept => Carried(held) /\ Registered(held.project)
    <3>1. CASE Stored(f)
      BY <2>2, <3>1, StoredKept
    <3>2. CASE ~Stored(f)
      <4>1. CopiesKept => work[w].read.status = "candidate" /\ Registered(work[w].read.project)
        BY <1>0, <2>1 DEF LocalKept, Verifying
      <4> QED BY <3>2, <4>1 DEF Carried, Referenced
    <3> QED BY <3>1, <3>2
  <2> HIDE DEF held
  <2>4. /\ local.at = "reverting" /\ local.finding = f /\ local.read = work[w].read
        /\ local.held = held /\ local \in Locals
    BY <1>0, <2>2 DEF Locals, Copies, Holding
  <2>5. work' = [work EXCEPT ![w] = local]
    BY <2>1
  <2> HIDE DEF local, f
  <2>6. LocalTyped(local)
    BY <1>0, <2>1, <2>2, <2>4 DEF LocalTyped, Verifying, Holding
  <2>7. Healthy /\ CopiesKept => LocalKept(local)
    BY <1>0, <2>1, <2>3, <2>4 DEF LocalKept, Verifying, Holding
  <2> QED BY <1>0, <2>4, <2>5, <2>6, <2>7 DEF Leads
<1>4. CASE AskTransition(w)
  <2>1. PICK f \in Findings :
          /\ Stored(f)
          /\ work' = [work EXCEPT ![w] = [NoWork EXCEPT !.at = "moving", !.finding = f,
                                                       !.held = findings[f]]]
    BY <1>4 DEF AskTransition
  <2> DEFINE local == [NoWork EXCEPT !.at = "moving", !.finding = f, !.held = findings[f]]
  <2>2. /\ local.at = "moving" /\ local.finding = f /\ local.read = None /\ local.held = findings[f]
        /\ local \in Locals
    BY <2>1 DEF NoWork, Locals, Copies, Holding, Stored
  <2>3. work' = [work EXCEPT ![w] = local]
    BY <2>1
  <2> HIDE DEF local
  <2>4. LocalTyped(local) /\ (Healthy => LocalKept(local))
    BY <2>1, <2>2, StoredKept DEF LocalTyped, LocalKept, Verifying, Holding, Stored
  <2> QED BY <1>0, <2>2, <2>3, <2>4 DEF Leads
<1>5. CASE Drop(w)
  <2>1. work' = [work EXCEPT ![w] = NoWork] /\ LocalKept(NoWork)
    BY <1>5 DEF Drop, LocalKept, NoWork, Verifying, Holding
  <2> QED BY <1>0, <2>1, NoWorkTyped DEF Leads
<1> QED BY <1>0, <1>1, <1>2, <1>3, <1>4, <1>5

\* The guard leaves a copy as it was, or moves it where its evidence allows.
LEMMA DecidedKept ==
  ASSUME NEW record \in StoredFinding, NEW new \in Status
  PROVE  /\ Decided(record, new) \in StoredFinding
         /\ Decided(record, new).project = record.project
         /\ Carried(record) => Carried(Decided(record, new))
<1> DEFINE made == [record EXCEPT !.status = new]
<1>1. /\ made \in StoredFinding /\ made.status = new /\ made.project = record.project
      /\ made.evidence = record.evidence /\ made.refs = record.refs
  BY DEF StoredFinding
<1>2. Decided(record, new) = IF Allowed(record, new, Resolving) THEN made ELSE record
  BY DEF Decided
<1> HIDE DEF made
<1>3. Allowed(record, new, Resolving) /\ Carried(record) => Carried(made)
  BY <1>1 DEF Carried, Referenced, Allowed, BACKWARD_EDGES, FORWARD_EDGES
<1> QED BY <1>1, <1>2, <1>3

\* Steps of a writer that save a finding: what they save is as check wants it,
\* unless it is a revert which is remembered.
LEMMA SavingWriters ==
  ASSUME StoreTyped, WorkTyped, NEW w \in Writers,
         SetEvidence(w) \/ Promote(w) \/ Revert(w) \/ LeaveCandidate(w) \/ Transition(w)
  PROVE  /\ work[w].finding \in Findings
         /\ \E local \in Locals, record \in StoredFinding :
              /\ Leads(w, local) /\ Saves(w, record)
              /\ ~stripped' /\ CopiesKept =>
                    LocalKept(local) /\ Carried(record) /\ Registered(record.project)
<1>0. /\ UNCHANGED <<projects, details, records>>
      /\ work[w] \in Locals /\ LocalTyped(work[w]) /\ (CopiesKept => LocalKept(work[w]))
  BY DEF WorkTyped, CopiesKept, SetEvidence, Promote, Revert, LeaveCandidate, Transition, OnlyFindings
<1>1. work[w].finding \in Findings
  BY <1>0 DEF LocalTyped, SetEvidence, Promote, Revert, LeaveCandidate, Transition
<1>2. NoWork \in Locals /\ (Leads(w, NoWork) <=> work' = [work EXCEPT ![w] = NoWork])
  BY <1>0, NoWorkTyped DEF Leads
<1>3. LocalKept(NoWork)
  BY DEF LocalKept, NoWork, Verifying, Holding
<1>4. CASE SetEvidence(w)
  <2> DEFINE record == [work[w].read EXCEPT !.evidence = work[w].finding]
             local  == [work[w] EXCEPT !.at = "asking"]
  <2>1. work[w].at = "promoting" /\ Save(w, record) /\ work' = [work EXCEPT ![w].at = "asking"]
    BY <1>4 DEF SetEvidence, Goto
  <2>2. work[w].read \in StoredFinding
    BY <1>0, <2>1 DEF LocalTyped, Verifying
  <2>3. /\ record \in StoredFinding /\ record.status = work[w].read.status
        /\ record.project = work[w].read.project
    BY <1>1, <2>2 DEF StoredFinding
  <2>4. /\ local.at = "asking" /\ local.finding = work[w].finding /\ local.read = work[w].read
        /\ local \in Locals
    BY <1>0 DEF Locals, Verifying
  <2>5. work' = [work EXCEPT ![w] = local]
    BY <2>1
  <2> HIDE DEF record, local
  <2>6. LocalTyped(local)
    BY <1>1, <2>2, <2>4 DEF LocalTyped, Verifying, Holding
  <2>7. CopiesKept => LocalKept(local) /\ Carried(record) /\ Registered(record.project)
    BY <1>0, <2>1, <2>3, <2>4 DEF LocalKept, Verifying, Holding, Carried, Referenced
  <2>8. Leads(w, local) /\ Saves(w, record)
    BY <1>0, <2>1, <2>4, <2>5, <2>6 DEF Leads, Saves
  <2> QED BY <1>1, <2>3, <2>4, <2>7, <2>8
<1>5. CASE Promote(w)
  <2> DEFINE held   == work[w].held
             record == Decided(held, "verified")
             local  == IF Allowed(held, "verified", Resolving) THEN NoWork
                       ELSE [work[w] EXCEPT !.at = "rejected", !.held = None]
  <2>1. work[w].at = "deciding" /\ Save(w, record) /\ work' = [work EXCEPT ![w] = local]
    BY <1>5 DEF Promote
  <2>2. held \in StoredFinding /\ work[w].read \in StoredFinding /\ "verified" \in Status
    BY <1>0, <2>1 DEF LocalTyped, Verifying, Holding, Status
  <2>3. /\ record \in StoredFinding
        /\ CopiesKept => Carried(record) /\ Registered(record.project)
    BY <1>0, <2>1, <2>2, DecidedKept DEF LocalKept, Holding
  <2>4. local \in Locals /\ LocalTyped(local) /\ (CopiesKept => LocalKept(local))
    <3> DEFINE rest == [work[w] EXCEPT !.at = "rejected", !.held = None]
    <3>1. /\ rest.at = "rejected" /\ rest.finding = work[w].finding /\ rest.read = work[w].read
          /\ rest \in Locals
      BY <1>0 DEF Locals, Verifying, Copies
    <3> HIDE DEF rest
    <3>2. LocalTyped(rest) /\ (CopiesKept => LocalKept(rest))
      BY <1>0, <1>1, <2>1, <2>2, <3>1 DEF LocalTyped, LocalKept, Verifying, Holding
    <3> QED BY <1>3, <3>1, <3>2, NoWorkTyped DEF rest
  <2> HIDE DEF record, local
  <2>5. Leads(w, local) /\ Saves(w, record)
    BY <1>0, <2>1, <2>4 DEF Leads, Saves
  <2> QED BY <1>1, <2>3, <2>4, <2>5
<1>6. CASE Revert(w)
  <2> DEFINE record == Reverted(w)
  <2>1. /\ work[w].at = "reverting" /\ Save(w, record) /\ work' = [work EXCEPT ![w] = NoWork]
        /\ ~stripped' => record.status = "candidate" \/ record.evidence \in Resolving
    BY <1>6 DEF Revert
  <2>2. work[w].held \in StoredFinding /\ work[w].read \in StoredFinding
    BY <1>0, <2>1 DEF LocalTyped, Verifying, Holding
  <2>3. /\ record \in StoredFinding /\ record.status = work[w].held.status
        /\ record.project = work[w].held.project /\ record.refs = work[w].held.refs
    BY <2>2 DEF Reverted, StoredFinding
  <2> HIDE DEF record
  <2>4. ~stripped' /\ CopiesKept => Carried(record) /\ Registered(record.project)
    BY <1>0, <2>1, <2>3 DEF LocalKept, Holding, Carried, Referenced
  <2>5. Leads(w, NoWork) /\ Saves(w, record)
    BY <1>0, <1>2, <2>1 DEF Saves
  <2> QED BY <1>1, <1>2, <1>3, <2>3, <2>4, <2>5
<1>7. CASE LeaveCandidate(w)
  <2>1. work[w].at = "leaving" /\ Save(w, work[w].read) /\ work' = [work EXCEPT ![w] = NoWork]
    BY <1>7 DEF LeaveCandidate
  <2>2. work[w].read \in StoredFinding
    BY <1>0, <2>1 DEF LocalTyped, Verifying
  <2>3. CopiesKept => Carried(work[w].read) /\ Registered(work[w].read.project)
    BY <1>0, <2>1 DEF LocalKept, Verifying, Carried, Referenced
  <2>4. Leads(w, NoWork) /\ Saves(w, work[w].read)
    BY <1>0, <1>2, <2>1 DEF Saves
  <2> QED BY <1>1, <1>2, <1>3, <2>2, <2>3, <2>4
<1>8. CASE Transition(w)
  <2>1. PICK new \in Status : Save(w, Decided(work[w].held, new))
    BY <1>8 DEF Transition
  <2>2. work[w].at = "moving" /\ work' = [work EXCEPT ![w] = NoWork]
    BY <1>8 DEF Transition
  <2>3. work[w].held \in StoredFinding
    BY <1>0, <2>2 DEF LocalTyped, Holding
  <2>4. /\ Decided(work[w].held, new) \in StoredFinding
        /\ CopiesKept => /\ Carried(Decided(work[w].held, new))
                         /\ Registered(Decided(work[w].held, new).project)
    BY <1>0, <2>2, <2>3, DecidedKept DEF LocalKept, Holding
  <2>5. Leads(w, NoWork) /\ Saves(w, Decided(work[w].held, new))
    BY <1>0, <1>2, <2>1, <2>2 DEF Saves
  <2> QED BY <1>1, <1>2, <1>3, <2>4, <2>5
<1> QED BY <1>4, <1>5, <1>6, <1>7, <1>8

\* The copies of the other writers stay what they were.
LEMMA CopiesStay ==
  ASSUME WorkTyped, NEW w \in Writers, NEW local, Leads(w, local), details \subseteq details'
  PROVE  WorkTyped' /\ (CopiesKept /\ LocalKept(local) => CopiesKept')
<1>1. /\ work' \in [Writers -> Locals] /\ work'[w] = local /\ LocalTyped(local)
      /\ \A v \in Writers \ {w} : work'[v] = work[v]
  BY DEF Leads, WorkTyped
<1>2. WorkTyped'
  BY <1>1 DEF WorkTyped, LocalTyped
<1>3. UNCHANGED projects
  BY DEF Leads
<1>4. ASSUME NEW copy, LocalKept(copy)
      PROVE  /\ copy.at \in Verifying => copy.read.status = "candidate" /\ Registered(copy.read.project)'
             /\ copy.at \in Holding => Carried(copy.held)' /\ Registered(copy.held.project)'
  BY <1>3, <1>4, GrowingKeeps DEF LocalKept, Registered
<1>5. ASSUME CopiesKept, LocalKept(local), NEW v \in Writers PROVE LocalKept(work[v])'
  <2>1. PICK copy : copy = work'[v] /\ LocalKept(copy)
    BY <1>1, <1>5 DEF CopiesKept
  <2> QED BY <1>4, <2>1 DEF LocalKept, Carried, Referenced, Resolving, Registered
<1> QED BY <1>2, <1>5 DEF CopiesKept

\* A writer leaves the store, and every copy of it, as check wants them, unless
\* its revert is remembered.
LEMMA WritersKeep ==
  ASSUME StoreTyped, WorkTyped, stripped \in BOOLEAN, NEW w \in Writers, Write(w)
  PROVE  /\ StoreTyped' /\ WorkTyped' /\ details \subseteq details'
         /\ stripped' \in BOOLEAN /\ (stripped => stripped')
         /\ ~stripped' /\ Healthy /\ CopiesKept => Healthy' /\ CopiesKept'
<1>1. stripped' \in BOOLEAN /\ (stripped => stripped')
  BY DEF Write, StartVerify, PageEvidence, SetEvidence, ReadForTransition, Promote, Reload, Revert,
         LeaveCandidate, AskTransition, Transition, Drop
<1>2. CASE StartVerify(w) \/ ReadForTransition(w) \/ Reload(w) \/ AskTransition(w) \/ Drop(w)
  <2>1. PICK local : Leads(w, local) /\ (Healthy /\ CopiesKept => LocalKept(local))
    BY <1>2, ReadingWriters
  <2>2. UNCHANGED <<projects, findings, details, records>>
    BY <1>2, <2>1, ReadingWriters DEF Leads
  <2>3. WorkTyped' /\ (Healthy /\ CopiesKept => CopiesKept')
    BY <2>1, <2>2, CopiesStay
  <2>4. StoreTyped' /\ (Healthy => Healthy')
    BY <2>2 DEF StoreTyped, Healthy, Registered, Stored, Carried, Resolving, Refers
  <2> QED BY <1>1, <2>2, <2>3, <2>4
<1>3. CASE PageEvidence(w)
  <2> DEFINE local(next) == [work[w] EXCEPT !.at = next]
  <2>1. PICK next \in {"promoting", "leaving"} : work' = [work EXCEPT ![w] = local(next)]
    BY <1>3 DEF PageEvidence, Goto
  <2>2. /\ work[w].at = "sandbox" /\ details' = details \cup {Evidence(work[w].finding)}
        /\ UNCHANGED <<projects, findings, records>>
    BY <1>3 DEF PageEvidence
  <2>3. work[w] \in Locals /\ LocalTyped(work[w]) /\ (CopiesKept => LocalKept(work[w]))
    BY DEF WorkTyped, CopiesKept
  <2>4. /\ local(next).at = next /\ local(next).finding = work[w].finding
        /\ local(next).read = work[w].read /\ local(next) \in Locals
    BY <2>3 DEF Locals, Verifying
  <2> HIDE DEF local
  <2>5. LocalTyped(local(next)) /\ (CopiesKept => LocalKept(local(next)))
    BY <2>2, <2>3, <2>4 DEF LocalTyped, LocalKept, Verifying, Holding
  <2>6. Leads(w, local(next))
    BY <2>1, <2>2, <2>4, <2>5 DEF Leads
  <2>7. WorkTyped' /\ (CopiesKept => CopiesKept')
    BY <2>2, <2>5, <2>6, CopiesStay
  <2>8. StoreTyped'
    BY <2>2, <2>3 DEF StoreTyped, Details, LocalTyped
  <2>9. Healthy => Healthy'
    BY <2>2, DetailsGrow
  <2> QED BY <1>1, <2>2, <2>7, <2>8, <2>9
<1>4. CASE SetEvidence(w) \/ Promote(w) \/ Revert(w) \/ LeaveCandidate(w) \/ Transition(w)
  <2>1. PICK local \in Locals, record \in StoredFinding :
           /\ Leads(w, local) /\ Saves(w, record)
           /\ ~stripped' /\ CopiesKept =>
                 LocalKept(local) /\ Carried(record) /\ Registered(record.project)
    BY <1>4, SavingWriters
  <2> DEFINE f == work[w].finding
  <2>2. f \in Findings
    BY <1>4, SavingWriters
  <2>3. findings' = [findings EXCEPT ![f] = record] /\ UNCHANGED <<projects, details, records>>
    BY <2>1 DEF Leads, Saves, Save
  <2> HIDE DEF f
  <2>4. WorkTyped' /\ (~stripped' /\ CopiesKept => CopiesKept')
    BY <2>1, <2>3, CopiesStay
  <2>5. StoreTyped'
    BY <2>2, <2>3 DEF StoreTyped, Files, Entries
  <2>6. ~stripped' /\ Healthy /\ CopiesKept => Healthy'
    BY <2>1, <2>2, <2>3, OneFindingChanges
  <2> QED BY <1>1, <2>3, <2>4, <2>5, <2>6
<1> QED BY <1>2, <1>3, <1>4 DEF Write
-----------------------------------------------------------------------------
\* A session leaves the copies of the writers alone.
LEMMA SessionsKeepCopies ==
  ASSUME StoreTyped, WorkTyped, CopiesKept, Sessions, UNCHANGED work
  PROVE  CopiesKept'
<1> SUFFICES ASSUME NEW w \in Writers PROVE LocalKept(work[w])'
  BY DEF CopiesKept
<1>1. PICK local \in Locals : local = work[w] /\ LocalTyped(local) /\ LocalKept(local)
  BY DEF WorkTyped, CopiesKept
<1>2. details \subseteq details'
  BY SessionsKeepDetails
<1>3. \A q \in Projects : Registered(q) => Registered(q)'
  <2>1. CASE Register
    BY <2>1 DEF Register, StoreTyped, Registered
  <2>2. CASE UNCHANGED projects
    BY <2>2 DEF Registered
  <2> QED BY <2>1, <2>2 DEF Sessions, FileCandidate, Cite, Draft, CloseRecord
<1>4. local.at \in Verifying => local.read.status = "candidate" /\ Registered(local.read.project)'
  BY <1>1, <1>3 DEF LocalKept, LocalTyped, StoredFinding
<1>5. local.at \in Holding => Carried(local.held)' /\ Registered(local.held.project)'
  BY <1>1, <1>2, <1>3, GrowingKeeps DEF LocalKept, LocalTyped, StoredFinding
<1>6. local = work'[w]
  BY <1>1
<1> QED BY <1>4, <1>5, <1>6 DEF LocalKept, Carried, Referenced, Resolving, Registered

\* What the command has read of the store is what is stored, as long as the
\* store stands still.
LEMMA ReadStands ==
  ASSUME PublishInv, UNCHANGED <<storeVars, ppc, run>>, ~moved
  PROVE  ReadIsStored'
<1>1. UNCHANGED <<projects, findings, details, records>> /\ ReadIsStored
  BY DEF storeVars, PublishInv
<1> QED BY <1>1 DEF ReadIsStored, Registered, Stored, Rests, Resolving

\* A step of a session, of a writer or of a hand leaves what publish has in
\* memory, and what it has written, and is remembered as a move.
LEMMA EnvironmentKeeps ==
  ASSUME PublishInv, Environment
  PROVE  PublishInv'
<1> USE DEF PublishInv, StoreInv
<1>1. CASE BySession /\ \/ Sessions /\ UNCHANGED <<work, stripped>>
                        \/ \E w \in Writers : Write(w)
  <2>1. /\ UNCHANGED <<publishVars, strayed>>
        /\ ~moved' => ~moved /\ (ppc = "idle" \/ UNCHANGED storeVars)
        /\ moved' \in BOOLEAN
    BY <1>1 DEF BySession, CommandTyped
  <2>2. /\ StoreInv' /\ details \subseteq details'
        /\ stripped' \in BOOLEAN /\ (Untainted' => Untainted)
    <3>1. CASE Sessions /\ UNCHANGED <<work, stripped>>
      <4>1. WorkTyped'
        BY <3>1 DEF WorkTyped, LocalTyped
      <4> QED BY <2>1, <3>1, <4>1, SessionsTyped, SessionsKeepHealthy, SessionsKeepCopies,
                 SessionsKeepDetails DEF Untainted, CommandTyped
    <3>2. CASE \E w \in Writers : Write(w)
      <4>1. PICK w \in Writers : Write(w)
        BY <3>2
      <4>2. stripped \in BOOLEAN
        BY DEF CommandTyped
      <4> QED BY <2>1, <4>1, <4>2, WritersKeep DEF Untainted
    <3> QED BY <1>1, <3>1, <3>2
  <2>3. CommandTyped'
    BY <2>1, <2>2 DEF CommandTyped, publishVars
  <2>4. DraftsPastCandidate' /\ WritesListing'
    BY <2>1 DEF DraftsPastCandidate, WritesListing, Wanted, publishVars
  <2>5. (~moved => ReadIsStored)'
    <3>1. CASE ppc = "idle"
      BY <2>1, <3>1 DEF ReadIsStored, publishVars
    <3>2. CASE UNCHANGED storeVars /\ ~moved
      BY <2>1, <3>2, ReadStands DEF publishVars
    <3> QED BY <2>1, <3>1, <3>2
  <2>6. (Untainted /\ ~moved => NothingAmiss)'
    BY <2>1, <2>2 DEF NothingAmiss, publishVars
  <2>7. ListingRests'
    <3>1. SUFFICES ASSUME (ppc = "writing" /\ (Untainted \/ ~moved))',
                          NEW f \in Findings, (run.listed[f] # None)'
                   PROVE  Rests(run.listed[f])'
      BY DEF ListingRests
    <3>2. Rests(run.listed[f])
      BY <2>1, <2>2, <3>1 DEF ListingRests, publishVars
    <3>3. Rests(run.listed[f])'
      BY <2>1, <2>2, <3>2, GrowingKeeps DEF Rests, Resolving, publishVars
    <3> QED BY <3>3
  <2> QED BY <2>2, <2>3, <2>4, <2>5, <2>6, <2>7
<1>2. CASE (OpenMistyped \/ HandEdit) /\ ByHand
  <2>1. /\ UNCHANGED <<publishVars, work, stripped>> /\ strayed' = TRUE
        /\ (~moved' => ~moved /\ ppc = "idle") /\ moved' \in BOOLEAN
    BY <1>2 DEF ByHand, CommandTyped
  <2>2. StoreTyped' /\ WorkTyped'
    BY <1>2, <2>1, HandTyped DEF WorkTyped, LocalTyped
  <2>3. CommandTyped'
    BY <2>1 DEF CommandTyped, publishVars
  <2>4. DraftsPastCandidate' /\ WritesListing'
    BY <2>1 DEF DraftsPastCandidate, WritesListing, Wanted, publishVars
  <2>5. (~moved => ReadIsStored)' /\ ListingRests'
    BY <2>1 DEF ReadIsStored, ListingRests, Untainted, publishVars
  <2> QED BY <2>1, <2>2, <2>3, <2>4, <2>5 DEF Untainted
<1> QED BY <1>1, <1>2 DEF Environment

\* While the store stands still, so does what is said of it alone.
LEMMA StoreStands ==
  ASSUME PublishInv, UNCHANGED <<storeVars, work, strayed, stripped>>
  PROVE  StoreInv'
<1>1. UNCHANGED <<projects, findings, details, records>>
  BY DEF storeVars
<1>2. StoreTyped' /\ WorkTyped'
  BY <1>1 DEF PublishInv, StoreInv, StoreTyped, WorkTyped, LocalTyped
<1>3. Healthy => Healthy'
  BY <1>1 DEF Healthy, Registered, Stored, Carried, Resolving, Refers
<1>4. CopiesKept => CopiesKept'
  BY <1>1 DEF CopiesKept, LocalKept, Registered, Carried, Referenced, Resolving
<1> QED BY <1>2, <1>3, <1>4 DEF PublishInv, StoreInv, Untainted

\* The command is over, or has not begun: nothing is claimed of what it read.
LEMMA OverKeeps ==
  ASSUME PublishInv, UNCHANGED <<storeVars, out, work, strayed, stripped>>, Over
  PROVE  PublishInv'
<1>1. StoreInv'
  BY StoreStands
<1>2. CommandTyped'
  BY NoRunTyped DEF PublishInv, StoreInv, CommandTyped, Over, Stages
<1>3. DraftsPastCandidate'
  BY DEF PublishInv, StoreInv, DraftsPastCandidate
<1>4. ReadIsStored' /\ NothingAmiss' /\ WritesListing' /\ ListingRests'
  BY DEF Over, ReadIsStored, NothingAmiss, WritesListing, ListingRests
<1> QED BY <1>1, <1>2, <1>3, <1>4 DEF PublishInv, StoreInv

\* What check reads of the projects, the findings and the records is what is
\* stored, and in a healthy store it finds nothing amiss.
LEMMA ReadingKeeps ==
  ASSUME PublishInv, ReadProjects \/ ReadFindings \/ ReadRecords
  PROVE  PublishInv'
<1>1. UNCHANGED <<storeVars, out, work, strayed, stripped, moved>>
  BY DEF ReadProjects, ReadFindings, ReadRecords
<1>2. UNCHANGED <<projects, findings, details, records>>
  BY <1>1 DEF storeVars
<1>3. StoreInv'
  BY <1>1, StoreStands
<1>4. run \in Runs /\ StoreTyped
  BY DEF PublishInv, StoreInv, CommandTyped
<1>5. DraftsPastCandidate'
  BY <1>1 DEF PublishInv, StoreInv, DraftsPastCandidate
<1>6. CASE ReadProjects
  <2> DEFINE known == {p \in Projects : Registered(p)}
             ok == /\ \A p \in Projects : projects[p] # Torn
                   /\ \A p, q \in Projects : Registered(p) /\ projects[p] = projects[q] => p = q
  <2>1. run' = [run EXCEPT !.known = known, !.ok = ok] /\ ppc' = "findings"
    BY <1>6 DEF ReadProjects
  <2>2. known \subseteq Projects /\ ok \in BOOLEAN
    OBVIOUS
  <2>3. run' \in Runs /\ run'.known = known /\ run'.ok = ok
    BY <1>4, <2>1, <2>2 DEF Runs
  <2>4. CommandTyped'
    BY <1>1, <2>1, <2>3 DEF PublishInv, StoreInv, CommandTyped, Stages
  <2>5. ReadIsStored'
    BY <1>2, <2>1, <2>3 DEF ReadIsStored, Registered
  <2>6. (Untainted /\ ~moved => NothingAmiss)'
    BY <1>1, <2>3 DEF PublishInv, StoreInv, Healthy, NothingAmiss, Untainted
  <2>7. WritesListing' /\ ListingRests'
    BY <2>1 DEF WritesListing, ListingRests
  <2> QED BY <1>3, <1>5, <2>4, <2>5, <2>6, <2>7 DEF PublishInv, StoreInv
<1>7. CASE ReadFindings
  <2> DEFINE ok == \A f \in Findings : findings[f] # None =>
                      Stored(f) /\ findings[f].project \in run.known /\ Referenced(findings[f])
  <2>1. run' = [run EXCEPT !.checked = findings, !.ok = run.ok /\ ok]
    BY <1>7 DEF ReadFindings
  <2>2. ppc = "findings" /\ ppc' = "records"
    BY <1>7 DEF ReadFindings
  <2>3. (run.ok /\ ok) \in BOOLEAN /\ findings \in Files
    BY <1>4 DEF StoreTyped
  <2> HIDE DEF ok
  <2>4. run' \in Runs /\ run'.known = run.known /\ run'.checked = findings /\ run'.ok = (run.ok /\ ok)
    BY <1>4, <2>1, <2>3 DEF Runs
  <2>5. CommandTyped'
    BY <1>1, <2>2, <2>4 DEF PublishInv, StoreInv, CommandTyped, Stages
  <2>6. (~moved => ReadIsStored)'
    BY <1>1, <1>2, <2>2, <2>4 DEF PublishInv, StoreInv, ReadIsStored, Registered, Stored, ok
  <2>7. (Untainted /\ ~moved => NothingAmiss)'
    <3>1. Untainted /\ ~moved => run.ok /\ run.known = {p \in Projects : Registered(p)} /\ Healthy
      BY <2>2 DEF PublishInv, StoreInv, NothingAmiss, ReadIsStored
    <3>2. Untainted /\ ~moved => ok
      BY <3>1 DEF ok, Healthy, Carried, Stored, StoredFinding
    <3> QED BY <1>1, <2>4, <3>1, <3>2 DEF NothingAmiss, Untainted
  <2>8. WritesListing' /\ ListingRests'
    BY <2>2 DEF WritesListing, ListingRests
  <2> QED BY <1>3, <1>5, <2>5, <2>6, <2>7, <2>8 DEF PublishInv, StoreInv
<1>8. CASE ReadRecords
  <2> DEFINE drawn == {r.finding : r \in {s \in records : s.drew}}
             ok == \A r \in records : /\ r.project \in run.known
                                      /\ r.finding # None => run.checked[r.finding] # None
  <2>1. run' = [run EXCEPT !.drawn = drawn, !.ok = run.ok /\ ok]
    BY <1>8 DEF ReadRecords
  <2>2. ppc = "records" /\ ppc' = "judging"
    BY <1>8 DEF ReadRecords
  <2>3. (run.ok /\ ok) \in BOOLEAN /\ drawn \subseteq Findings \cup {None}
    BY <1>4 DEF StoreTyped, StoredRecord
  <2> HIDE DEF ok, drawn
  <2>4. /\ run' \in Runs /\ run'.known = run.known /\ run'.checked = run.checked
        /\ run'.drawn = drawn /\ run'.ok = (run.ok /\ ok)
    BY <1>4, <2>1, <2>3 DEF Runs
  <2>5. CommandTyped'
    BY <1>1, <2>2, <2>4 DEF PublishInv, StoreInv, CommandTyped, Stages
  <2>6. (~moved => ReadIsStored)'
    BY <1>1, <1>2, <2>2, <2>4 DEF PublishInv, StoreInv, ReadIsStored, Registered, Stored, drawn
  <2>7. (Untainted /\ ~moved => NothingAmiss)'
    <3>1. Untainted /\ ~moved => /\ run.ok /\ run.known = {p \in Projects : Registered(p)}
                                /\ run.checked = findings /\ Healthy
      BY <2>2 DEF PublishInv, StoreInv, NothingAmiss, ReadIsStored
    <3>2. ASSUME Untainted, ~moved, NEW r \in records
          PROVE  r.project \in run.known /\ (r.finding # None => run.checked[r.finding] # None)
      <4>1. Refers(r) /\ r.project \in Projects /\ r.finding \in Findings \cup {None}
        BY <1>4, <3>1, <3>2 DEF Healthy, StoreTyped, StoredRecord
      <4> QED BY <3>1, <3>2, <4>1, StoredIsNeither DEF Refers
    <3> QED BY <1>1, <2>4, <3>1, <3>2 DEF NothingAmiss, ok, Untainted
  <2>8. WritesListing' /\ ListingRests'
    BY <2>2 DEF WritesListing, ListingRests
  <2> QED BY <1>3, <1>5, <2>5, <2>6, <2>7, <2>8 DEF PublishInv, StoreInv
<1> QED BY <1>6, <1>7, <1>8

\* A green report of a store that stood still says that every finding rests on
\* what its status demands.
LEMMA JudgeKeeps ==
  ASSUME PublishInv, Judge
  PROVE  PublishInv'
<1>1. /\ ppc = "judging" /\ ppc' = "listing" /\ run.ok /\ Supported /\ run' = NoRun
      /\ UNCHANGED <<storeVars, out, work, strayed, stripped, moved>>
  BY DEF Judge
<1>2. UNCHANGED <<projects, findings, details, records>>
  BY <1>1 DEF storeVars
<1>3. StoreInv'
  BY <1>1, StoreStands
<1>4. CommandTyped' /\ DraftsPastCandidate'
  BY <1>1, NoRunTyped DEF PublishInv, CommandTyped, DraftsPastCandidate, Stages
<1>5. ASSUME ~moved, NEW f \in Findings, findings[f] # None
      PROVE  Stored(f) /\ Rests(findings[f])
  <2>1. run.checked = findings /\ Stored(f) /\ Referenced(findings[f])
    BY <1>1, <1>5 DEF PublishInv, StoreInv, ReadIsStored
  <2>2. findings[f].status = "verified" => findings[f].evidence \in Resolving
    BY <1>1, <2>1, StoredIsNeither DEF Supported
  <2> QED BY <2>1, <2>2 DEF Rests
<1>6. (~moved => ReadIsStored)'
  BY <1>1, <1>2, <1>5 DEF ReadIsStored, Stored, Rests, Resolving
<1>7. NothingAmiss' /\ WritesListing' /\ ListingRests'
  BY <1>1 DEF NothingAmiss, WritesListing, ListingRests
<1> QED BY <1>3, <1>4, <1>6, <1>7 DEF PublishInv, StoreInv

\* The listing is of findings that rest on evidence: sessions leave only such,
\* and in a store that stood still check has looked.
LEMMA ListKeeps ==
  ASSUME PublishInv, List
  PROVE  PublishInv'
<1>0. PICK formats \in {{fmt} : fmt \in Formats} \cup {Formats} :
         run' = [NoRun EXCEPT !.formats = formats, !.listed = findings,
                              !.todo = UNION {{fmt} \X Targets(fmt) : fmt \in formats}]
  BY DEF List
<1> DEFINE todo == UNION {{fmt} \X Targets(fmt) : fmt \in formats}
<1>1. /\ ppc = "listing" /\ ppc' = "writing" /\ \A f \in Findings : findings[f] # Torn
      /\ run' = [NoRun EXCEPT !.formats = formats, !.listed = findings, !.todo = todo]
      /\ UNCHANGED <<storeVars, out, work, strayed, stripped, moved>>
  BY <1>0 DEF List
<1>2. UNCHANGED <<projects, findings, details, records>>
  BY <1>1 DEF storeVars
<1>3. StoreInv'
  BY <1>1, StoreStands
<1>4. formats \subseteq Formats /\ findings \in Files
  BY DEF PublishInv, StoreInv, CommandTyped, Runs, StoreTyped
<1>5. \A fmt, f : <<fmt, f>> \in todo <=> fmt \in formats /\ f \in Targets(fmt)
  BY DEF Targets
<1>6. todo \subseteq Formats \X Findings
  BY <1>4 DEF Targets
<1> HIDE DEF todo
<1>7. run' \in Runs /\ run'.formats = formats /\ run'.listed = findings /\ run'.todo = todo
  BY <1>1, <1>4, <1>6, NoRunTyped DEF Runs, NoRun
<1>8. CommandTyped' /\ DraftsPastCandidate'
  BY <1>1, <1>7 DEF PublishInv, StoreInv, CommandTyped, DraftsPastCandidate, Stages
<1>9. \A f \in Findings : findings[f] # None => Stored(f)
  BY <1>1, <1>4 DEF Files, Entries, Stored
<1>10. WritesListing'
  <2>1. \A f \in Findings : findings[f] # None => findings[f] \in StoredFinding
    BY <1>9 DEF Stored
  <2>2. ASSUME NEW fmt \in Formats, NEW f \in Findings
        PROVE  /\ <<fmt, f>> \in todo => findings[f] # None /\ Wanted(fmt, findings[f])
               /\ fmt \in formats /\ findings[f] # None /\ Wanted(fmt, findings[f]) =>
                     <<fmt, f>> \in todo
    BY <1>5, <1>9, StoredIsNeither DEF Targets, Wanted
  <2> QED BY <1>7, <2>1, <2>2 DEF WritesListing, Wanted
<1>11. ListingRests'
  <2>1. ASSUME Untainted \/ ~moved, NEW f \in Findings, findings[f] # None
        PROVE  Rests(findings[f])
    BY <1>1, <2>1 DEF PublishInv, StoreInv, Healthy, ReadIsStored, Carried, Rests
  <2> QED BY <1>1, <1>2, <1>7, <2>1 DEF ListingRests, Rests, Resolving, Untainted
<1>12. ReadIsStored' /\ NothingAmiss'
  BY <1>1 DEF ReadIsStored, NothingAmiss
<1> QED BY <1>3, <1>8, <1>10, <1>11, <1>12 DEF PublishInv, StoreInv

\* An artifact says what the listing says; it is a draft only of what is wanted.
LEMMA WriteKeeps ==
  ASSUME PublishInv, WriteArtifact
  PROVE  PublishInv'
<1>1. PICK job \in run.todo :
         /\ out' = [out EXCEPT ![job[1]][job[2]] = run.listed[job[2]]]
         /\ run' = [run EXCEPT !.todo = run.todo \ {job}]
  BY DEF WriteArtifact
<1>2. ppc = "writing" /\ UNCHANGED <<storeVars, ppc, work, strayed, stripped, moved>>
  BY DEF WriteArtifact
<1>3. UNCHANGED <<projects, findings, details, records>>
  BY <1>2 DEF storeVars
<1>4. StoreInv'
  BY <1>2, StoreStands
<1>5. run \in Runs /\ out \in [Formats -> Files]
  BY DEF PublishInv, StoreInv, CommandTyped
<1>6. PICK F \in Formats, g \in Findings : job = <<F, g>>
  BY <1>1, <1>5 DEF Runs
<1>7. run.listed[g] \in StoredFinding /\ Wanted(F, run.listed[g]) /\ run.listed \in Files
  BY <1>1, <1>2, <1>5, <1>6 DEF PublishInv, StoreInv, WritesListing, Runs
<1>8. /\ run' \in Runs /\ run'.formats = run.formats /\ run'.listed = run.listed
      /\ run'.todo = run.todo \ {job}
  BY <1>1, <1>5 DEF Runs
<1>9. out' = [out EXCEPT ![F][g] = run.listed[g]]
  BY <1>1, <1>6
<1>10. /\ out' \in [Formats -> Files] /\ out'[F][g] = run.listed[g]
       /\ \A fmt \in Formats, f \in Findings : <<fmt, f>> # <<F, g>> => out'[fmt][f] = out[fmt][f]
  BY <1>5, <1>7, <1>9 DEF Files, Entries
<1>11. CommandTyped'
  BY <1>2, <1>8, <1>10 DEF PublishInv, StoreInv, CommandTyped
<1>12. DraftsPastCandidate'
  BY <1>7, <1>10 DEF PublishInv, StoreInv, DraftsPastCandidate, Wanted
<1>13. WritesListing'
  <2>1. WritesListing
    BY DEF PublishInv, StoreInv
  <2>2. ASSUME NEW fmt \in Formats, NEW f \in Findings
        PROVE  /\ <<fmt, f>> \in run'.todo => run.listed[f] # None /\ Wanted(fmt, run.listed[f])
               /\ fmt \in run.formats /\ run.listed[f] # None /\ Wanted(fmt, run.listed[f]) =>
                     <<fmt, f>> \in run'.todo \/ out'[fmt][f] = run.listed[f]
    BY <1>2, <1>6, <1>8, <1>10, <2>1 DEF WritesListing
  <2> QED BY <1>2, <1>8, <2>1, <2>2 DEF WritesListing, Wanted
<1>14. ListingRests'
  BY <1>2, <1>3, <1>8 DEF PublishInv, ListingRests, Rests, Resolving, Untainted
<1>15. ReadIsStored' /\ NothingAmiss'
  BY <1>2 DEF ReadIsStored, NothingAmiss
<1> QED BY <1>4, <1>11, <1>12, <1>13, <1>14, <1>15 DEF PublishInv, StoreInv

\* A new run has read nothing yet.
LEMMA BeginKeeps ==
  ASSUME PublishInv, Publish
  PROVE  PublishInv'
<1>1. /\ UNCHANGED <<storeVars, out, work, strayed, stripped>>
      /\ ppc' = "projects" /\ run' = NoRun /\ moved' = FALSE
  BY DEF Publish
<1>2. StoreInv' /\ DraftsPastCandidate'
  BY <1>1, StoreStands DEF PublishInv, DraftsPastCandidate
<1>3. CommandTyped'
  BY <1>1, NoRunTyped DEF PublishInv, CommandTyped, Stages
<1> QED BY <1>1, <1>2, <1>3
        DEF PublishInv, ReadIsStored, NothingAmiss, WritesListing, ListingRests

LEMMA StepKeeps == PublishInv /\ [Next]_vars => PublishInv'
<1> SUFFICES ASSUME PublishInv, [Next]_vars PROVE PublishInv'
  OBVIOUS
<1>1. CASE Environment
  BY <1>1, EnvironmentKeeps
<1>2. CASE Command
  <2>1. CASE RefusePublish \/ Finish \/ Abort
    <3>1. Over /\ UNCHANGED <<storeVars, out, work, strayed, stripped>>
      BY <2>1 DEF RefusePublish, Finish, Abort
    <3> QED BY <3>1, OverKeeps
  <2> QED BY <1>2, <2>1, ReadingKeeps, JudgeKeeps, ListKeeps, WriteKeeps, BeginKeeps DEF Command
<1>3. CASE UNCHANGED vars
  <2>1. UNCHANGED <<projects, findings, details, records, ppc, run, out, work, strayed, stripped, moved>>
    BY <1>3 DEF vars, storeVars, publishVars
  <2>2. StoreInv'
    BY <2>1, StoreStands DEF storeVars
  <2> QED BY <2>1, <2>2
          DEF PublishInv, CommandTyped, ReadIsStored, NothingAmiss, DraftsPastCandidate, WritesListing,
              ListingRests, Wanted, Registered, Stored, Rests, Resolving, Untainted
<1> QED BY <1>1, <1>2, <1>3 DEF Next

\* The invariant of the store, check and publish, in every reachable state.
THEOREM PublishSound == Spec => []PublishInv
  BY InitPublish, StepKeeps, PTL DEF Spec

LEMMA KeepsGreen == PublishInv => SessionsKeepGreen
<1> SUFFICES ASSUME PublishInv, Untainted, ppc = "judging", ~moved PROVE run.ok /\ Supported
  BY DEF SessionsKeepGreen, Untainted
<1>1. /\ run.ok /\ run.checked = findings /\ Healthy
      /\ run.drawn = {r.finding : r \in {s \in records : s.drew}}
  BY DEF PublishInv, StoreInv, NothingAmiss, ReadIsStored
<1>2. \A f \in run.drawn : Drafts(f) \in details
  BY <1>1 DEF Healthy, Refers
<1>3. \A f \in Findings : findings[f] # None => Carried(findings[f])
  BY <1>1 DEF Healthy
<1> QED BY <1>1, <1>2, <1>3 DEF Supported, Carried

\* Sessions keep the store as check wants it, whatever stale copies they save: a
\* publish that nothing disturbs is refused only for what a hand, a torn write, a
\* mistyped id or the revert of an overlapping VERIFY has left there.
THEOREM SessionsKeepTheStoreGreen == Spec => []SessionsKeepGreen
  BY PublishSound, KeepsGreen, PTL

LEMMA DraftsRest == PublishInv => DraftsRestOnEvidence
<1> SUFFICES ASSUME PublishInv, ppc = "writing", Untainted \/ ~moved,
                    NEW fmt \in run.formats, NEW f \in Findings,
                    run.listed[f] # None, <<fmt, f>> \notin run.todo
             PROVE  /\ out[fmt][f] = run.listed[f] <=> fmt = "osv" \/ run.listed[f].status # "candidate"
                    /\ Rests(run.listed[f])
  BY DEF DraftsRestOnEvidence, Untainted
<1>1. fmt \in Formats /\ Rests(run.listed[f])
  BY DEF PublishInv, StoreInv, CommandTyped, Runs, ListingRests
<1>2. Wanted(fmt, run.listed[f]) => out[fmt][f] = run.listed[f]
  BY <1>1 DEF PublishInv, StoreInv, WritesListing
<1>3. out[fmt][f] = run.listed[f] => Wanted(fmt, run.listed[f])
  BY <1>1 DEF PublishInv, StoreInv, DraftsPastCandidate, Wanted
<1> QED BY <1>1, <1>2, <1>3 DEF Wanted

\* Every draft publish writes is of a finding past candidate which has what its
\* status demands: whatever sessions save between check, listing and writing,
\* stale copies included, until a hand edits the store or a revert strips the
\* evidence from a finding that was promoted meanwhile; and after that still in
\* every run under which the store stands.
THEOREM PublishedDraftsRestOnEvidence == Spec => []DraftsRestOnEvidence
  BY PublishSound, DraftsRest, PTL
=============================================================================
