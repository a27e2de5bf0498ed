----------------------------- MODULE HuntProofs -----------------------------
(***************************************************************************)
(* SIBLING HUNT beside a DISCOVER, for every set of projects, siblings,    *)
(* SARIF documents, findings on disk and workers.  The inductive invariant *)
(* follows one batch from the worker's answer to the ledger: what the      *)
(* firewall keeps is new to the store and lies in a scope the gate let     *)
(* proceed, what is not saved yet is on nobody's disk but DISCOVER's, and  *)
(* what is ledgered was saved whole.  The second half follows the targets:  *)
(* what a closed session reports is all it did, and what was due is filed.  *)
(***************************************************************************)
EXTENDS SiblingHunt, FiniteSetTheorems, SequenceTheorems, TLAPS

Batch == UNION {[S -> Candidate] : S \in SUBSET Nat}

Nodes == UNION {[S -> Node] : S \in SUBSET Nat}

HuntLocals ==
    [doc : HuntDocs \cup {NoDoc}, class : Classes \cup {NoClass}, locus : Places,
     queue : Seq(Projects), target : Projects, scope : SUBSET Areas, start : Nat,
     kept : Batch, todo : SUBSET Nat, prims : Nodes, areas : SUBSET Areas, reason : Reasons,
     saved : SUBSET Ids, recorded : SUBSET Areas, touched : SUBSET Ids]

DiscLocals ==
    [project : Projects, doc : Docs \cup {NoDoc}, scope : SUBSET Areas, start : Nat,
     found : Batch, todo : SUBSET Nat, areas : SUBSET Areas, touched : SUBSET Nat]

Typed ==
    /\ registry \in [Projects -> StoredContexts \cup {NoProject, TornProject}]
    /\ findings \in [Ids -> Record \cup {NoFinding}]
    /\ coverage \subseteq CoverageRecord
    /\ dpc \in {"idle", "reading", "saving", "teaching", "closed", "raised"}
    /\ disc \in DiscLocals /\ hunt \in HuntLocals
    /\ hpc \in Labels
    /\ approved \in [Projects -> StoredContexts \cup {NoProject}]

LEMMA HuntStartTyped == HuntStart \in HuntLocals
<1>1. NoCandidates \in Batch
  <2>1. NoCandidates \in [{} -> Candidate]
    BY DEF NoCandidates
  <2> QED BY <2>1 DEF Batch
<1>2. NoCandidates \in Nodes
  <2>1. NoCandidates \in [{} -> Node]
    BY DEF NoCandidates
  <2> QED BY <2>1 DEF Nodes
<1> QED BY <1>1, <1>2, HuntAssumption DEF HuntStart, HuntLocals, Places, Reasons

LEMMA NewBatchTyped ==
  ASSUME NEW local \in HuntLocals
  PROVE  NewBatch(local) \in HuntLocals
  BY HuntStartTyped DEF HuntStart, NewBatch, HuntLocals, Reasons

-----------------------------------------------------------------------------
\* What a worker's answer is made of, whoever made it: candidates that are new,
\* the source's own, or of no id; and primitives of the taxonomy.
Shaped(a) ==
    /\ a.findings \in Batch /\ DOMAIN a.primitives \subseteq Nat
    /\ \A i \in DOMAIN a.findings : a.findings[i].id \in {0, SourceFinding} \/ a.findings[i].id >= hunt.start
    /\ \A i \in DOMAIN a.primitives : /\ a.primitives[i].kind \in Classes
                                      /\ a.primitives[i].locus \in Places
    /\ a.areas \subseteq Areas
    /\ a.outcome \in {"resolved", "empty", "blocked"}

\* A document is a sequence of results.
LEMMA DocTyped ==
  ASSUME NEW doc \in Docs \cup HuntDocs
  PROVE  /\ doc \in Seq(Result) /\ DOMAIN doc \subseteq Nat /\ IsFiniteSet(DOMAIN doc)
         /\ \A i \in DOMAIN doc : doc[i] \in Result
<1>1. doc \in Seq(Result)
  BY HuntAssumption
<1>2. DOMAIN doc = 1 .. Len(doc) /\ Len(doc) \in Nat
  BY <1>1
<1> QED BY <1>1, <1>2, FS_Interval

\* sarif_to_findings builds candidates of the project, numbered from start, no
\* two with one id.
LEMMA FoundTyped ==
  ASSUME NEW doc \in Docs \cup HuntDocs, NEW project \in Projects, NEW start \in Nat,
         NEW scope \in SUBSET Areas
  PROVE  LET found == SarifToFindings(doc, project, start, scope)
         IN /\ DOMAIN found = Accepted(doc, scope) /\ DOMAIN found \subseteq Nat
            /\ found \in Batch
            /\ \A i \in DOMAIN found : found[i].id >= start
            /\ \A i, j \in DOMAIN found : found[i].id = found[j].id => i = j
<1> DEFINE accepted == Accepted(doc, scope)
           found == SarifToFindings(doc, project, start, scope)
           before(i) == {j \in accepted : j < i}
<1>1. accepted \subseteq DOMAIN doc /\ accepted \subseteq Nat /\ IsFiniteSet(accepted)
  BY DocTyped, FS_Subset DEF Accepted
<1>2. \A i \in accepted : IsFiniteSet(before(i)) /\ Cardinality(before(i)) \in Nat
  BY <1>1, FS_Subset, FS_CardinalityType
<1>3. DOMAIN found = accepted
      /\ \A i \in accepted : found[i] = [id |-> start + Cardinality(before(i)), project |-> project,
                                         place |-> doc[i].place, class |-> doc[i].class,
                                         status |-> "candidate"]
  BY DEF SarifToFindings
<1>4. \A i \in accepted : found[i] \in Candidate
  <2> TAKE i \in accepted
  <2>1. doc[i] \in Result
    BY <1>1, DocTyped
  <2>2. doc[i].place \in Places /\ doc[i].class \in Classes \cup {NoClass}
    BY <2>1 DEF Result
  <2>3. start + Cardinality(before(i)) \in Nat
    BY <1>2
  <2> HIDE DEF before
  <2> QED BY <1>3, <2>2, <2>3 DEF Candidate
<1>5. found \in [accepted -> Candidate]
  BY <1>3, <1>4 DEF SarifToFindings
<1>6. found \in Batch
  BY <1>1, <1>5 DEF Batch
<1>7. ASSUME NEW i \in accepted, NEW j \in accepted, i < j
      PROVE  Cardinality(before(i)) < Cardinality(before(j))
  <2>1. before(i) \subseteq before(j) /\ i \in before(j) /\ i \notin before(i)
    BY <1>1, <1>7
  <2>2. before(i) # before(j)
    BY <2>1
  <2> HIDE DEF before
  <2> QED BY <1>2, <2>1, <2>2, FS_Subset
<1>8. \A i, j \in accepted : found[i].id = found[j].id => i = j
  <2> SUFFICES ASSUME NEW i \in accepted, NEW j \in accepted, i # j
               PROVE  found[i].id # found[j].id
    OBVIOUS
  <2> HIDE DEF before
  <2>1. CASE i < j
    BY <1>2, <1>3, <1>7, <2>1
  <2>2. CASE j < i
    BY <1>2, <1>3, <1>7, <2>2
  <2> QED BY <1>1, <2>1, <2>2
<1>9. \A i \in accepted : found[i].id >= start
  <2> HIDE DEF before
  <2> QED BY <1>2, <1>3
<1> QED BY <1>1, <1>3, <1>6, <1>8, <1>9

LEMMA InBatch ==
  ASSUME NEW f \in Batch
  PROVE  /\ DOMAIN f \subseteq Nat /\ f = [i \in DOMAIN f |-> f[i]]
         /\ \A i \in DOMAIN f : f[i] \in Candidate
<1>1. PICK S \in SUBSET Nat : f \in [S -> Candidate]
  BY DEF Batch
<1> QED BY <1>1

LEMMA SameClassShaped ==
  ASSUME Typed, hunt.doc # NoDoc
  PROVE  Shaped(SameClass)
<1> DEFINE found == SarifToFindings(hunt.doc, hunt.target, hunt.start, hunt.scope)
           prims == SarifToPrimitives(hunt.doc, found, hunt.scope)
           same  == {i \in DOMAIN prims : prims[i].kind = hunt.class}
<1>1. /\ hunt.doc \in Docs \cup HuntDocs /\ hunt.target \in Projects /\ hunt.start \in Nat
      /\ hunt.scope \in SUBSET Areas
  BY DEF Typed, HuntLocals
<1>2. /\ DOMAIN found = Accepted(hunt.doc, hunt.scope) /\ DOMAIN found \subseteq Nat
      /\ found \in Batch /\ \A i \in DOMAIN found : found[i].id >= hunt.start
  BY <1>1, FoundTyped
<1>3. DOMAIN prims = {j \in DOMAIN found : hunt.doc[j].class # NoClass}
      /\ \A i \in DOMAIN prims : /\ prims[i].kind = hunt.doc[i].class
                                 /\ prims[i].locus = hunt.doc[i].place
  BY <1>2 DEF SarifToPrimitives
<1>4. \A i \in DOMAIN prims : prims[i].kind \in Classes /\ prims[i].locus \in Places
  <2> SUFFICES ASSUME NEW i \in DOMAIN prims
               PROVE  prims[i].kind \in Classes /\ prims[i].locus \in Places
    OBVIOUS
  <2>1. i \in DOMAIN hunt.doc /\ hunt.doc[i].class # NoClass
    BY <1>2, <1>3 DEF Accepted
  <2>2. hunt.doc[i] \in Result
    BY <1>1, <2>1, DocTyped
  <2> QED BY <1>3, <2>1, <2>2 DEF Result
<1> HIDE DEF found, prims
<1>5. /\ SameClass.findings = [i \in same |-> found[i]]
      /\ SameClass.primitives = [i \in same |-> prims[i]]
      /\ SameClass.areas = hunt.scope \ LongAreas
      /\ SameClass.outcome \in {"resolved", "empty"}
  BY DEF SameClass, found, prims
<1>6. same \subseteq DOMAIN found /\ same \in SUBSET Nat
  BY <1>2, <1>3
<1>7. SameClass.findings \in Batch
  <2>1. \A i \in same : found[i] \in Candidate
    BY <1>2, <1>6, InBatch
  <2>2. SameClass.findings \in [same -> Candidate]
    BY <1>5, <2>1
  <2> HIDE DEF same
  <2> QED BY <1>6, <2>2 DEF Batch
<1>8. \A i \in DOMAIN SameClass.findings : SameClass.findings[i].id >= hunt.start
  BY <1>2, <1>5, <1>6
<1>9. \A i \in DOMAIN SameClass.primitives : /\ SameClass.primitives[i].kind \in Classes
                                             /\ SameClass.primitives[i].locus \in Places
  BY <1>4, <1>5
<1>10. SameClass.areas \subseteq Areas /\ DOMAIN SameClass.primitives \subseteq Nat
  BY <1>1, <1>5, <1>6
<1> QED BY <1>5, <1>7, <1>8, <1>9, <1>10 DEF Shaped

LEMMA AnswersShaped ==
  ASSUME Typed, NEW a \in Answers
  PROVE  Shaped(a)
<1>1. ASSUME NEW outcome \in {"empty", "blocked"}, a = Nothing(outcome, {}) PROVE Shaped(a)
  <2>1. NoCandidates \in Batch
    BY HuntStartTyped DEF HuntStart, HuntLocals
  <2> QED BY <1>1, <2>1 DEF Nothing, Shaped, NoCandidates
<1>2. CASE hunt.doc = NoDoc
  BY <1>1, <1>2 DEF Answers
<1>3. CASE hunt.doc # NoDoc
  <2> DEFINE own == SameClass
  <2>1. Shaped(own)
    BY <1>3, SameClassShaped
  <2>2. \/ a = own \/ a = Nothing("blocked", {}) \/ a = [own EXCEPT !.valid = FALSE]
        \/ \E s \in Strays, attested \in BOOLEAN, k \in Classes : a = WithStray(own, s, attested, k)
    BY <1>3 DEF Answers
  <2>3. own = [valid |-> own.valid, outcome |-> own.outcome, findings |-> own.findings,
               written |-> own.written, primitives |-> own.primitives, areas |-> own.areas]
    BY DEF SameClass
  <2> HIDE DEF own
  <2>4. CASE a = [own EXCEPT !.valid = FALSE]
    BY <2>1, <2>3, <2>4 DEF Shaped
  <2>5. ASSUME NEW s \in Strays, NEW attested \in BOOLEAN, NEW k \in Classes,
               a = WithStray(own, s, attested, k)
        PROVE  Shaped(a)
    <3>1. /\ a.findings = At0(own.findings, s) /\ a.areas = Areas /\ a.outcome = own.outcome
          /\ DOMAIN a.primitives = DOMAIN own.primitives \cup {0}
          /\ a.primitives[0].kind = k /\ a.primitives[0].locus = s.place
          /\ \A i \in DOMAIN own.primitives \ {0} : a.primitives[i] = own.primitives[i]
      BY <2>3, <2>5 DEF WithStray, At0
    <3>2. s \in Candidate /\ (s.id \in {0, SourceFinding} \/ s.id >= hunt.start)
      BY HuntAssumption DEF Strays, Candidate, Typed, HuntLocals, Ids
    <3>3. /\ DOMAIN a.findings = DOMAIN own.findings \cup {0} /\ a.findings[0] = s
          /\ \A i \in DOMAIN own.findings \ {0} : a.findings[i] = own.findings[i]
      BY <3>1 DEF At0
    <3>4. DOMAIN own.findings \subseteq Nat /\ \A i \in DOMAIN own.findings : own.findings[i] \in Candidate
      BY <2>1, InBatch DEF Shaped
    <3>5. a.findings \in Batch
      <4>1. a.findings \in [DOMAIN own.findings \cup {0} -> Candidate]
        BY <3>1, <3>2, <3>4 DEF At0
      <4>2. DOMAIN own.findings \cup {0} \in SUBSET Nat
        BY <3>4
      <4> QED BY <4>1, <4>2 DEF Batch
    <3>6. s.place \in Places
      BY <3>2 DEF Candidate
    <3>7. DOMAIN a.primitives \subseteq Nat
          /\ \A i \in DOMAIN a.primitives : a.primitives[i].kind \in Classes /\ a.primitives[i].locus \in Places
      BY <2>1, <3>1, <3>6 DEF Shaped
    <3> QED BY <2>1, <3>1, <3>2, <3>3, <3>5, <3>7 DEF Shaped
  <2> QED BY <1>1, <2>1, <2>2, <2>4, <2>5
<1> QED BY <1>2, <1>3
-----------------------------------------------------------------------------
\* What the firewall keeps of an answer while the source finding is on disk.
LEMMA KeptSound ==
  ASSUME Typed, NEW a \in Answers, findings[SourceFinding] # NoFinding
  PROVE  LET kept == [i \in Kept(a) |-> a.findings[i]]
         IN /\ Kept(a) \subseteq Nat /\ kept \in Batch
            /\ \A i \in Kept(a) :
                 /\ kept[i].id \in Ids /\ kept[i].id >= hunt.start
                 /\ findings[kept[i].id] = NoFinding
                 /\ kept[i].project = hunt.target /\ kept[i].status = "candidate"
                 /\ kept[i].place # NoPlace /\ kept[i].place.area \in hunt.scope
            /\ \A i, j \in Kept(a) : kept[i].id = kept[j].id => i = j
<1>1. Shaped(a)
  BY AnswersShaped
<1>2. /\ DOMAIN a.findings \subseteq Nat
      /\ \A i \in DOMAIN a.findings : a.findings[i] \in Candidate
  BY <1>1, InBatch DEF Shaped
<1>3. Kept(a) \subseteq DOMAIN a.findings /\ \A i \in Kept(a) : Admitted(a, a.findings[i])
  BY DEF Kept
<1>4. [i \in Kept(a) |-> a.findings[i]] \in Batch
  <2>1. [i \in Kept(a) |-> a.findings[i]] \in [Kept(a) -> Candidate]
    BY <1>2, <1>3
  <2> QED BY <1>2, <1>3, <2>1 DEF Batch
<1>5. ASSUME NEW i \in Kept(a)
      PROVE  /\ a.findings[i].id \in Ids /\ findings[a.findings[i].id] = NoFinding
             /\ a.findings[i].project = hunt.target /\ a.findings[i].status = "candidate"
             /\ a.findings[i].place # NoPlace /\ a.findings[i].place.area \in hunt.scope
  BY <1>3 DEF Admitted, Credible, Located
<1>6. \A i \in Kept(a) : a.findings[i].id >= hunt.start
  BY <1>1, <1>3, <1>5 DEF Shaped, Ids
<1>7. ASSUME NEW i \in Kept(a), NEW j \in Kept(a), a.findings[i].id = a.findings[j].id
      PROVE  i = j
  <2>1. ~(i < j) /\ ~(j < i)
    BY <1>3, <1>7 DEF Kept
  <2> QED BY <1>2, <1>3, <2>1
<1> QED BY <1>2, <1>3, <1>4, <1>5, <1>6, <1>7

\* The primitives the hunt keeps are suspected and bind what it keeps.
LEMMA NormalisedSound ==
  ASSUME Typed, NEW a \in Answers, findings[SourceFinding] # NoFinding, hunt.class \in Classes
  PROVE  LET prims == Normalised(a, Kept(a))
         IN /\ prims \in Nodes
            /\ \A i \in DOMAIN prims :
                 /\ prims[i].kind = hunt.class /\ prims[i].preconditions = {}
                 /\ \E k \in Kept(a) : a.findings[k].id = prims[i].ref
<1> DEFINE prims == Normalised(a, Kept(a))
<1>1. Shaped(a)
  BY AnswersShaped
<1>2. \A k \in Kept(a) : a.findings[k].id \in Ids
  BY KeptSound
<1>3. DOMAIN prims \subseteq DOMAIN a.primitives
      /\ \A i \in DOMAIN prims :
           /\ prims[i] = [kind |-> hunt.class, locus |-> a.primitives[i].locus,
                          ref |-> a.primitives[i].ref, grants |-> {hunt.class}, preconditions |-> {}]
           /\ \E k \in Kept(a) : a.findings[k].id = a.primitives[i].ref
  BY DEF Normalised
<1>4. prims = [i \in DOMAIN prims |-> prims[i]]
  BY DEF Normalised
<1> HIDE DEF prims
<1>5. \A i \in DOMAIN prims : prims[i] \in Node
  BY <1>1, <1>2, <1>3 DEF Shaped, Node
<1>6. prims \in [DOMAIN prims -> Node]
  BY <1>4, <1>5
<1>7. DOMAIN prims \in SUBSET Nat
  BY <1>1, <1>3 DEF Shaped
<1>8. prims \in Nodes
  BY <1>6, <1>7 DEF Nodes
<1> QED BY <1>3, <1>8 DEF prims
-----------------------------------------------------------------------------
Working == {"number", "work", "saving", "covering"}

\* Each target was gated as it is now, the source as it was before an edit; the
\* hunt has written nothing before its class is derived.
Gates ==
    /\ hpc = "idle" => \A p \in Projects : approved[p] = NoProject
    /\ hpc = "gated" => approved[Source] # NoProject
    /\ hpc \in {"idle", "gated"} => /\ ledger = << >>
                                    /\ \A i \in Ids : ~Hunted(i)
                                    /\ \A r \in coverage : r.by # "hunt"
    /\ \A p \in Projects : approved[p] # NoProject =>
          Evaluate(approved[p]) = "proceed" /\ (p # Source => approved[p] = registry[p])
    /\ hpc \in Working =>
          /\ approved[hunt.target] # NoProject
          /\ hunt.scope = Contained(registry[hunt.target].scope, Escaping[hunt.target])
    /\ hpc \in Working \cup {"next"} => hunt.class \in Classes /\ findings[SourceFinding] # NoFinding

\* The batch: bare candidates of the target in its scope, each of an id of its
\* own; one that waits to be saved may meet only what DISCOVER saved since.
BatchSound ==
    /\ hunt.todo \subseteq DOMAIN hunt.kept /\ hunt.areas \subseteq hunt.scope
    /\ hpc # "saving" => hunt.todo = {}
    /\ hpc \notin {"saving", "covering"} => hunt.kept = NoCandidates
    /\ \A i \in DOMAIN hunt.kept :
          /\ hunt.kept[i].id \in Ids /\ hunt.kept[i].id >= hunt.start
          /\ hunt.kept[i].project = hunt.target /\ hunt.kept[i].status = "candidate"
          /\ hunt.kept[i].place # NoPlace /\ hunt.kept[i].place.area \in hunt.scope
    /\ \A i, j \in DOMAIN hunt.kept : hunt.kept[i].id = hunt.kept[j].id => i = j
    /\ \A i \in hunt.todo :
          findings[hunt.kept[i].id] # NoFinding => findings[hunt.kept[i].id].by = "discover"

\* A finding that a primitive may bind: on disk, and whole if it is the hunt's.
Backed(id) == /\ findings[id] # NoFinding
              /\ Hunted(id) => findings[id].status = "candidate"

\* What has been saved of the batch backs its primitives, and the ledger's nodes
\* are backed by findings that the batch will not write again.
LedgerSound ==
    /\ \A i \in DOMAIN hunt.kept \ hunt.todo : Backed(hunt.kept[i].id)
    /\ \A i \in DOMAIN hunt.prims :
          /\ hunt.prims[i].kind = hunt.class /\ hunt.prims[i].preconditions = {}
          /\ \E k \in DOMAIN hunt.kept : hunt.kept[k].id = hunt.prims[i].ref
    /\ ledger \in Seq(Node)
    /\ \A n \in 1 .. Len(ledger) :
          /\ ledger[n].kind = hunt.class /\ ledger[n].preconditions = {}
          /\ Backed(ledger[n].ref)
          /\ \A i \in hunt.todo : hunt.kept[i].id # ledger[n].ref

\* DISCOVER's batch: ids of their own, none below the first it was given; one
\* that waits to be saved may meet only what the hunt saved since.
DiscSound ==
    /\ disc.todo \subseteq DOMAIN disc.found /\ disc.areas \subseteq disc.scope
    /\ dpc = "idle" => disc.areas = {}
    /\ \A i \in DOMAIN disc.found : disc.found[i].id >= disc.start
    /\ \A i, j \in DOMAIN disc.found : disc.found[i].id = disc.found[j].id => i = j
    /\ \A i \in disc.todo :
          disc.found[i].id \in Ids /\ findings[disc.found[i].id] # NoFinding
             => findings[disc.found[i].id].by = "hunt"

\* The outcomes, the history of races, and the ledger's bound and keys.
Kempt ==
    /\ outcomes \in [Projects -> OutcomeRecord \cup {NoOutcome}]
    /\ raced \subseteq Projects
    /\ Len(ledger) <= MaxPrimitives
    /\ \A i, j \in 1 .. Len(ledger) : NodeKey(ledger[i]) = NodeKey(ledger[j]) => i = j

IInv == Typed /\ Gates /\ BatchSound /\ LedgerSound /\ DiscSound /\ GatedOnly

\* A record that carries a candidate of the taxonomy is a record.
LEMMA SavedTyped ==
  ASSUME NEW f \in Candidate, NEW command \in Commands
  PROVE  /\ Saved(f, command) \in Record
         /\ Saved([f EXCEPT !.status = "torn"], command) \in Record
         /\ Saved(f, command).by = command /\ Saved(f, command).project = f.project
         /\ Saved(f, command).place = f.place /\ Saved(f, command).status = f.status
         /\ Saved([f EXCEPT !.status = "torn"], command).by = command
         /\ Saved([f EXCEPT !.status = "torn"], command).project = f.project
         /\ Saved([f EXCEPT !.status = "torn"], command).place = f.place
  BY DEF Candidate, Saved, Record, Commands
-----------------------------------------------------------------------------
LEMMA DiscStartTyped == DiscStart \in DiscLocals
<1>1. NoCandidates \in Batch
  BY HuntStartTyped DEF HuntStart, HuntLocals
<1>2. (CHOOSE p \in Projects : TRUE) \in Projects
  BY HuntAssumption
<1> QED BY <1>1, <1>2 DEF DiscStart, DiscLocals

\* DISCOVER between its file operations: the store is not touched.
LEMMA DiscoverThinks ==
  ASSUME IInv, Begin \/ NothingToRead \/ ReadSarif \/ IngestEnvelope \/ DiscoverReturns
               \/ DiscoverRaises,
         UNCHANGED huntVars
  PROVE  IInv'
<1>1. UNCHANGED <<registry, findings, coverage, hpc, hunt, ledger, approved>>
  BY DEF Begin, NothingToRead, ReadSarif, IngestEnvelope, DiscoverReturns, DiscoverRaises, huntVars
<1>2. disc' \in DiscLocals /\ DiscSound'
      /\ dpc' \in {"idle", "reading", "saving", "teaching", "closed", "raised"}
  <2>1. CASE Begin
    <3>1. PICK p \in Projects, doc \in Docs \cup {NoDoc} :
              Gated(p) /\ disc' = [disc EXCEPT !.project = p, !.doc = doc,
                                     !.scope = Contained(registry[p].scope, Escaping[p])]
      BY <2>1 DEF Begin
    <3>2. Contained(registry[p].scope, Escaping[p]) \subseteq Areas
      BY <3>1 DEF Gated, Contained, StoredContexts, GateContext
    <3> QED BY <1>1, <2>1, <3>1, <3>2 DEF IInv, Typed, DiscLocals, DiscSound, Begin
  <2>2. CASE NothingToRead \/ IngestEnvelope
    <3>1. disc' = disc /\ dpc' = "teaching"
      BY <2>2 DEF NothingToRead, IngestEnvelope
    <3> QED BY <1>1, <3>1 DEF IInv, Typed, DiscSound
  <2>3. CASE ReadSarif
    <3> DEFINE found(n) == SarifToFindings(disc.doc, disc.project, n, disc.scope)
    <3>1. PICK n \in Ids :
            /\ NextIndex(n)
            /\ disc' = [disc EXCEPT !.start = n, !.found = found(n), !.todo = DOMAIN found(n),
                                    !.areas = disc.scope \ LongAreas]
            /\ dpc' = "saving"
      BY <2>3 DEF ReadSarif
    <3>2. /\ disc.doc \in Docs \cup HuntDocs /\ disc.project \in Projects /\ n \in Nat
          /\ disc.scope \in SUBSET Areas
      <4>1. disc.doc # NoDoc
        BY <2>3 DEF ReadSarif
      <4>2. disc.doc \in Docs \cup {NoDoc} /\ disc.project \in Projects /\ disc.scope \in SUBSET Areas
        BY DEF IInv, Typed, DiscLocals
      <4> QED BY <4>1, <4>2 DEF Ids
    <3>3. /\ DOMAIN found(n) \subseteq Nat /\ found(n) \in Batch
          /\ \A i \in DOMAIN found(n) : found(n)[i].id >= n
          /\ \A i, j \in DOMAIN found(n) : found(n)[i].id = found(n)[j].id => i = j
      BY <3>2, FoundTyped
    <3> HIDE DEF found
    <3>4. \A i \in DOMAIN found(n) : found(n)[i].id \in Ids => findings[found(n)[i].id] = NoFinding
      BY <3>1, <3>2, <3>3 DEF NextIndex, Ids
    <3>5. disc' \in DiscLocals
      BY <3>1, <3>2, <3>3 DEF IInv, Typed, DiscLocals
    <3>6. /\ disc'.start = n /\ disc'.found = found(n) /\ disc'.todo = DOMAIN found(n)
          /\ disc'.areas \subseteq disc'.scope
      BY <3>1 DEF IInv, Typed, DiscLocals
    <3> QED BY <1>1, <3>1, <3>3, <3>4, <3>5, <3>6 DEF DiscSound
  <2>4. CASE DiscoverReturns \/ DiscoverRaises
    <3>1. PICK S \in SUBSET Nat : disc' = [DiscStart EXCEPT !.touched = S]
      <4>1. CASE DiscoverReturns
        <5>1. \A i \in DOMAIN disc.found : disc.found[i] \in Candidate
          BY InBatch DEF IInv, Typed, DiscLocals
        <5>2. {disc.found[i].id : i \in DOMAIN disc.found} \in SUBSET Nat
          BY <5>1 DEF Candidate
        <5> QED BY <4>1, <5>2 DEF DiscoverReturns
      <4>2. CASE DiscoverRaises
        <5>1. DiscStart = [DiscStart EXCEPT !.touched = {}]
          BY DEF DiscStart
        <5> QED BY <4>2, <5>1 DEF DiscoverRaises
      <4> QED BY <2>4, <4>1, <4>2
    <3>2. disc' \in DiscLocals
      BY <3>1, DiscStartTyped DEF DiscLocals
    <3>3. disc'.todo = {} /\ disc'.areas = {} /\ disc'.found = NoCandidates
      BY <3>1 DEF DiscStart
    <3>4. dpc' \in {"closed", "raised"}
      BY <2>4 DEF DiscoverReturns, DiscoverRaises
    <3> QED BY <3>2, <3>3, <3>4 DEF DiscSound, NoCandidates
  <2> QED BY <2>1, <2>2, <2>3, <2>4
<1> QED BY <1>1, <1>2 DEF IInv, Typed, Gates, BatchSound, LedgerSound, Backed, GatedOnly, Cleared, Hunted

\* DISCOVER saves a candidate, or tears it, or records an area: what it writes is
\* its own, and no candidate of the hunt's.
LEMMA DiscoverWrites ==
  ASSUME IInv, SaveCandidate \/ TearCandidate \/ RecordArea, UNCHANGED huntVars
  PROVE  IInv'
<1>1. UNCHANGED <<registry, hpc, hunt, ledger, approved>>
  BY DEF SaveCandidate, TearCandidate, RecordArea, huntVars
<1>2. CASE RecordArea
  <2>1. PICK a \in disc.areas :
          /\ coverage' = coverage \cup {[project |-> disc.project, area |-> a, by |-> "discover"]}
          /\ disc' = [disc EXCEPT !.areas = @ \ {a}]
    BY <1>2 DEF RecordArea
  <2>2. UNCHANGED <<findings, dpc>>
    BY <1>2 DEF RecordArea
  <2>3. coverage' \subseteq CoverageRecord /\ \A r \in coverage' : r.by = "hunt" => r \in coverage
    BY <2>1 DEF IInv, Typed, DiscLocals, CoverageRecord, Commands
  <2>4. disc' \in DiscLocals /\ DiscSound'
    BY <2>1, <2>2 DEF IInv, Typed, DiscLocals, DiscSound
  <2> QED BY <1>1, <2>2, <2>3, <2>4
          DEF IInv, Typed, Gates, BatchSound, LedgerSound, Backed, GatedOnly, Cleared, Hunted
<1>3. ASSUME NEW i \in disc.todo, disc.found[i].id \in Ids, NEW rec,
             rec \in Record, rec.by = "discover", UNCHANGED coverage,
             findings' = [findings EXCEPT ![disc.found[i].id] = rec],
             disc' \in DiscLocals, DiscSound',
             dpc' \in {"saving", "raised"}
      PROVE  IInv'
  <2> DEFINE id == disc.found[i].id
  <2>1. findings' \in [Ids -> Record \cup {NoFinding}]
    BY <1>3 DEF IInv, Typed
  <2>2. findings'[id] = rec /\ rec # NoFinding /\ \A j \in Ids \ {id} : findings'[j] = findings[j]
    BY <1>3, HuntAssumption DEF IInv, Typed
  <2>3. \A j \in Ids : Hunted(j)' => Hunted(j) /\ findings'[j] = findings[j]
    BY <1>3, <2>2 DEF Hunted
  <2>4. \A j \in Ids : /\ Backed(j) => Backed(j)'
                       /\ findings[j] # NoFinding => findings'[j] # NoFinding
    BY <2>2, <2>3 DEF Backed, Hunted
  <2> HIDE DEF id
  <2>5. Typed'
    BY <1>1, <1>3, <2>1 DEF IInv, Typed
  <2>6. Gates'
    BY <1>1, <1>3, <2>3, <2>4, HuntAssumption DEF IInv, Gates
  <2>7. BatchSound'
    BY <1>1, <1>3, <2>2 DEF IInv, BatchSound
  <2>8. LedgerSound'
    <3>1. \A n \in 1 .. Len(ledger) : ledger[n].ref \in Ids
      <4>1. \A n \in 1 .. Len(ledger) : ledger[n] \in Node
        BY DEF IInv, LedgerSound
      <4> QED BY <4>1 DEF Node
    <3>2. \A k \in DOMAIN hunt.kept : hunt.kept[k].id \in Ids
      BY DEF IInv, BatchSound
    <3> QED BY <1>1, <2>4, <3>1, <3>2 DEF IInv, LedgerSound
  <2>9. GatedOnly'
    BY <1>1, <1>3, <2>3 DEF IInv, GatedOnly, Cleared
  <2> QED BY <1>3, <2>5, <2>6, <2>7, <2>8, <2>9 DEF IInv
<1>4. \A i \in disc.todo : disc.found[i] \in Candidate
  BY InBatch DEF IInv, Typed, DiscLocals, DiscSound
<1>5. CASE SaveCandidate
  <2>1. PICK i \in disc.todo : /\ disc.found[i].id \in Ids
                               /\ SaveFinding(disc.found[i], "discover")
                               /\ disc' = [disc EXCEPT !.todo = @ \ {i}]
    BY <1>5 DEF SaveCandidate
  <2>2. dpc' = "saving" /\ UNCHANGED coverage
    BY <1>5 DEF SaveCandidate
  <2>3. disc' \in DiscLocals
    BY <2>1 DEF IInv, Typed, DiscLocals
  <2>4. \A j \in disc.todo \ {i} : disc.found[j].id # disc.found[i].id
    BY DEF IInv, DiscSound
  <2>5. DiscSound'
    BY <2>1, <2>2, <2>3, <2>4 DEF IInv, Typed, DiscLocals, DiscSound, SaveFinding
  <2>6. Saved(disc.found[i], "discover") \in Record /\ Saved(disc.found[i], "discover").by = "discover"
    BY <1>4, SavedTyped DEF Commands
  <2> QED BY <1>3, <2>1, <2>2, <2>3, <2>5, <2>6 DEF SaveFinding
<1>6. CASE TearCandidate
  <2>1. PICK i \in disc.todo : /\ disc.found[i].id \in Ids
                               /\ TearFinding(disc.found[i], "discover")
    BY <1>6 DEF TearCandidate
  <2>2. dpc' = "raised" /\ disc' = DiscStart /\ UNCHANGED coverage
    BY <1>6 DEF TearCandidate
  <2>3. DiscSound'
    BY <2>2 DEF DiscSound, DiscStart, NoCandidates
  <2> DEFINE rec == Saved([disc.found[i] EXCEPT !.status = "torn"], "discover")
  <2>4. rec \in Record /\ rec.by = "discover"
    BY <1>4, SavedTyped DEF Commands
  <2>5. findings' = [findings EXCEPT ![disc.found[i].id] = rec]
    BY <2>1 DEF TearFinding
  <2> HIDE DEF rec
  <2> QED BY <1>3, <2>1, <2>2, <2>3, <2>4, <2>5, DiscStartTyped
<1> QED BY <1>2, <1>5, <1>6
-----------------------------------------------------------------------------
\* What a batch that is empty has to satisfy.
LEMMA NoBatch ==
  ASSUME hunt' \in HuntLocals, hunt'.kept = NoCandidates, hunt'.todo = {},
         hunt'.prims = NoCandidates, hunt'.areas = {}
  PROVE  /\ BatchSound'
         /\ ledger' = << >> => LedgerSound'
         /\ (LedgerSound /\ UNCHANGED <<findings, ledger>> /\ hunt'.class = hunt.class) => LedgerSound'
<1>1. DOMAIN NoCandidates = {}
  BY DEF NoCandidates
<1>2. BatchSound'
  BY <1>1 DEF BatchSound
<1>3. ledger' = << >> => LedgerSound'
  BY <1>1 DEF LedgerSound
<1>4. (LedgerSound /\ UNCHANGED <<findings, ledger>> /\ hunt'.class = hunt.class) => LedgerSound'
  BY <1>1 DEF LedgerSound, Backed, Hunted
<1> QED BY <1>2, <1>3, <1>4

\* Steps before the first target, between targets and after the last one.
LEMMA HuntOutside ==
  ASSUME IInv, Kempt, UNCHANGED <<discVars, raced>>,
         Dispatch \/ EditSource \/ SourceGone \/ Refuse \/ TeachBack \/ Interrupt
         \/ \E p \in Projects : PassOver(p) \/ SiblingTorn(p) \/ GateStops(p)
  PROVE  IInv'
<1>1. UNCHANGED <<findings, coverage, disc, dpc>> /\ DiscSound'
  BY DEF IInv, DiscSound, discVars, Dispatch, EditSource, SourceGone, Refuse, TeachBack, Interrupt,
         PassOver, SiblingTorn, GateStops
<1>2. CASE Dispatch
  <2>1. PICK doc \in HuntDocs \cup {NoDoc} : hunt' = [hunt EXCEPT !.doc = doc]
    BY <1>2 DEF Dispatch
  <2>2. /\ hpc = "idle" /\ hpc' = "gated" /\ registry[Source] \in StoredContexts
        /\ Evaluate(registry[Source]) = "proceed"
        /\ approved' = [approved EXCEPT ![Source] = registry[Source]]
        /\ UNCHANGED <<registry, ledger>>
    BY <1>2 DEF Dispatch, Gated
  <2>3. hunt' \in HuntLocals /\ BatchSound' /\ LedgerSound'
    BY <1>1, <2>1, <2>2 DEF IInv, Typed, HuntLocals, BatchSound, LedgerSound, Backed, Hunted
  <2>4. approved' \in [Projects -> StoredContexts \cup {NoProject}]
        /\ registry[Source] # NoProject
    BY <2>2, HuntAssumption DEF IInv, Typed
  <2>5. Typed'
    BY <1>1, <2>2, <2>3, <2>4 DEF IInv, Typed, Labels
  <2>6. Gates'
    BY <1>1, <2>2, <2>4, HuntAssumption DEF IInv, Typed, Gates, Working, Hunted
  <2>7. GatedOnly'
    BY <1>1, <2>2 DEF IInv, Gates, GatedOnly, Hunted
  <2> QED BY <1>1, <2>3, <2>5, <2>6, <2>7 DEF IInv
<1>3. CASE EditSource
  <2>1. PICK c \in Edits : registry' = [registry EXCEPT ![Source] = c]
    BY <1>3 DEF EditSource
  <2>2. hpc = "gated" /\ UNCHANGED huntVars
    BY <1>3 DEF EditSource
  <2>3. registry' \in [Projects -> StoredContexts \cup {NoProject, TornProject}]
        /\ \A p \in Projects \ {Source} : registry'[p] = registry[p]
    BY <2>1, HuntAssumption DEF IInv, Typed
  <2>4. Typed' /\ BatchSound' /\ LedgerSound'
    BY <1>1, <2>2, <2>3 DEF IInv, Typed, BatchSound, LedgerSound, Backed, Hunted, huntVars
  <2>5. Gates'
    BY <1>1, <2>2, <2>3 DEF IInv, Gates, Working, Hunted, huntVars
  <2>6. GatedOnly'
    BY <1>1, <2>2 DEF IInv, Gates, GatedOnly, Hunted
  <2> QED BY <1>1, <2>4, <2>5, <2>6 DEF IInv
<1>4. ASSUME Aborted, UNCHANGED <<registry, approved>> PROVE IInv'
  <2>1. hpc' = "aborted" /\ hunt' = HuntStart /\ ledger' = << >>
    BY <1>4 DEF Aborted
  <2>2. BatchSound' /\ LedgerSound'
    BY <2>1, HuntStartTyped, NoBatch DEF HuntStart
  <2>3. Typed' /\ Gates' /\ GatedOnly'
    BY <1>1, <1>4, <2>1, HuntStartTyped DEF IInv, Typed, Labels, Gates, Working, GatedOnly, Hunted, Cleared
  <2> QED BY <1>1, <2>2, <2>3 DEF IInv
<1>5. CASE SourceGone \/ Interrupt \/ \E p \in Projects : SiblingTorn(p)
  BY <1>4, <1>5 DEF SourceGone, Interrupt, SiblingTorn
<1>6. ASSUME hpc' \in {"next", "closed"}, hpc' = "next" => hpc = "next",
             UNCHANGED <<registry, approved, ledger>>, hpc \in {"gated", "next"},
             \/ hunt' = hunt
             \/ hunt' = [hunt EXCEPT !.queue = Tail(@)] /\ hunt.queue # << >>
             \/ \E S \in SUBSET Ids : hunt' = [hunt EXCEPT !.touched = S]
      PROVE  IInv'
  <2>1. /\ hunt' \in HuntLocals
        /\ hunt'.kept = hunt.kept /\ hunt'.todo = hunt.todo /\ hunt'.prims = hunt.prims
        /\ hunt'.areas = hunt.areas /\ hunt'.class = hunt.class /\ hunt'.target = hunt.target
        /\ hunt'.scope = hunt.scope /\ hunt'.start = hunt.start
    <3>1. hunt.queue # << >> => Tail(hunt.queue) \in Seq(Projects)
      BY DEF IInv, Typed, HuntLocals
    <3> QED BY <1>6, <3>1 DEF IInv, Typed, HuntLocals
  <2>2. BatchSound' /\ LedgerSound'
    BY <1>1, <1>6, <2>1 DEF IInv, BatchSound, LedgerSound, Backed, Hunted
  <2>3. Typed'
    BY <1>1, <1>6, <2>1 DEF IInv, Typed, Labels
  <2>4. Gates' /\ GatedOnly'
    BY <1>1, <1>6, <2>1 DEF IInv, Gates, Working, GatedOnly, Hunted, Cleared
  <2> QED BY <1>1, <2>2, <2>3, <2>4 DEF IInv
<1>7. CASE Refuse
  BY <1>6, <1>7 DEF Refuse
<1>8. CASE \E p \in Projects : PassOver(p) \/ GateStops(p)
  BY <1>6, <1>8 DEF PassOver, GateStops, Sibling, Popped, Answered
<1>9. CASE TeachBack
  <2> DEFINE S == UNION {outcomes[p].findings : p \in {q \in Projects : outcomes[q] # NoOutcome}}
  <2>1. hunt' = [hunt EXCEPT !.touched = S] /\ hpc = "next" /\ hpc' = "closed"
        /\ UNCHANGED <<registry, approved, ledger>>
    BY <1>9 DEF TeachBack
  <2>2. S \in SUBSET Ids
    BY DEF Kempt, OutcomeRecord
  <2> QED BY <1>6, <2>1, <2>2
<1> QED BY <1>2, <1>3, <1>5, <1>7, <1>8, <1>9
-----------------------------------------------------------------------------
\* A target is taken up: the source after it was gated by the harness, a sibling
\* after its own gate.
LEMMA HuntTakesUp ==
  ASSUME IInv, UNCHANGED <<discVars, raced>>, Derive \/ \E p \in Projects : GatePasses(p)
  PROVE  IInv'
<1>1. UNCHANGED <<registry, findings, coverage, disc, dpc, ledger>> /\ DiscSound' /\ hpc' = "number"
  BY DEF IInv, DiscSound, discVars, Derive, GatePasses
<1>2. ASSUME NEW p \in Projects, NEW local \in HuntLocals, local.class \in Classes,
             hunt' = Targeted(local, p), registry[p] \in StoredContexts,
             ledger # << >> => local.class = hunt.class,
             approved' \in [Projects -> StoredContexts \cup {NoProject}],
             approved'[p] # NoProject, Evaluate(approved'[p]) = "proceed",
             p # Source => approved'[p] = registry[p],
             \A q \in Projects \ {p} : approved'[q] = approved[q],
             approved[p] # NoProject => approved'[p] = approved[p],
             findings[SourceFinding] # NoFinding
      PROVE  IInv'
  <2> DEFINE scope == Contained(registry[p].scope, Escaping[p])
  <2>1. scope \subseteq Areas
    BY <1>2 DEF Contained, StoredContexts, GateContext
  <2>2. hunt' = [NewBatch(local) EXCEPT !.target = p, !.scope = scope]
    BY <1>2 DEF Targeted
  <2> HIDE DEF scope
  <2>3. NewBatch(local) \in HuntLocals
    BY <1>2, NewBatchTyped
  <2>4. /\ hunt' \in HuntLocals /\ hunt'.target = p /\ hunt'.scope = scope
        /\ hunt'.kept = NewBatch(local).kept /\ hunt'.todo = NewBatch(local).todo
        /\ hunt'.prims = NewBatch(local).prims /\ hunt'.areas = NewBatch(local).areas
        /\ hunt'.class = NewBatch(local).class
    BY <2>1, <2>2, <2>3 DEF HuntLocals
  <2>5. /\ hunt'.kept = NoCandidates /\ hunt'.todo = {} /\ hunt'.prims = NoCandidates
        /\ hunt'.areas = {} /\ hunt'.class = local.class
    BY <2>4 DEF NewBatch, HuntLocals
  <2>6. BatchSound' /\ LedgerSound'
    <3>1. CASE ledger = << >>
      BY <1>1, <2>4, <2>5, <3>1, NoBatch
    <3>2. CASE ledger # << >>
      BY <1>1, <1>2, <2>4, <2>5, <3>2, NoBatch DEF IInv
    <3> QED BY <3>1, <3>2
  <2>7. Typed'
    BY <1>1, <1>2, <2>4 DEF IInv, Typed, Labels
  <2>8. Gates'
    BY <1>1, <1>2, <2>4, <2>5 DEF IInv, Gates, Working, scope
  <2>9. GatedOnly'
    <3>1. ASSUME NEW q \in Projects, NEW area, Cleared(q, area) PROVE Cleared(q, area)'
      <4>1. approved'[q] = approved[q]
        BY <1>2, <3>1 DEF Cleared
      <4> QED BY <1>1, <3>1, <4>1 DEF Cleared
    <3>2. \A i \in Ids : findings[i] # NoFinding => findings[i].project \in Projects
      BY DEF IInv, Typed, Record
    <3>3. \A r \in coverage : r.project \in Projects
      BY DEF IInv, Typed, CoverageRecord
    <3> QED BY <1>1, <3>1, <3>2, <3>3 DEF IInv, GatedOnly, Hunted
  <2> QED BY <1>1, <2>6, <2>7, <2>8, <2>9 DEF IInv
<1>3. CASE Derive
  <2> DEFINE f == findings[SourceFinding]
             local == [hunt EXCEPT !.class = f.class, !.locus = f.place]
  <2>1. /\ hpc = "gated" /\ registry[Source] \in StoredContexts /\ Huntable(f)
        /\ hunt' = Targeted(local, Source) /\ approved' = approved
    BY <1>3 DEF Derive
  <2>2. f \in Record /\ f # NoFinding /\ f.class \in Classes
    BY <2>1, HuntAssumption DEF IInv, Typed, Huntable, Record
  <2>3. f.place \in Places
    BY <2>2 DEF Record
  <2> HIDE DEF f
  <2>4. local \in HuntLocals /\ local.class = f.class
    BY <2>2, <2>3 DEF IInv, Typed, HuntLocals
  <2>5. ledger = << >> /\ approved[Source] # NoProject /\ Evaluate(approved[Source]) = "proceed"
    BY <2>1, HuntAssumption DEF IInv, Gates
  <2> HIDE DEF local
  <2> QED BY <1>2, <2>1, <2>2, <2>4, <2>5, HuntAssumption DEF IInv, Typed, f
<1>4. ASSUME NEW p \in Projects, GatePasses(p) PROVE IInv'
  <2>1. /\ hpc = "next" /\ hunt.queue # << >> /\ p # Source
        /\ registry[p] \in StoredContexts /\ Evaluate(registry[p]) = "proceed"
        /\ approved' = [approved EXCEPT ![p] = registry[p]]
        /\ hunt' = Targeted([hunt EXCEPT !.queue = Tail(@)], p)
    BY <1>4 DEF GatePasses, Sibling, Popped, Gated
  <2>2. registry[p] # NoProject
    BY <2>1, HuntAssumption
  <2> DEFINE local == [hunt EXCEPT !.queue = Tail(@)]
  <2>3. local \in HuntLocals /\ local.class = hunt.class
    <3>1. Tail(hunt.queue) \in Seq(Projects)
      BY <2>1 DEF IInv, Typed, HuntLocals
    <3> QED BY <3>1 DEF IInv, Typed, HuntLocals
  <2>4. hunt.class \in Classes /\ findings[SourceFinding] # NoFinding
    BY <2>1 DEF IInv, Gates
  <2>5. /\ approved' \in [Projects -> StoredContexts \cup {NoProject}]
        /\ approved'[p] = registry[p] /\ \A q \in Projects \ {p} : approved'[q] = approved[q]
    BY <2>1 DEF IInv, Typed
  <2>6. approved[p] # NoProject => approved'[p] = approved[p]
    BY <2>1, <2>5 DEF IInv, Gates
  <2> HIDE DEF local
  <2> QED BY <1>2, <2>1, <2>2, <2>3, <2>4, <2>5, <2>6 DEF local
<1> QED BY <1>3, <1>4

\* Number, the firewall, the detail and the coverage: no finding is written.
LEMMA HuntThinks ==
  ASSUME IInv, UNCHANGED <<discVars, raced>>, Number \/ Filter \/ PageDetail \/ RecordRead
  PROVE  IInv'
<1>1. /\ UNCHANGED <<registry, findings, disc, dpc, ledger, approved>> /\ DiscSound'
      /\ hpc \in Working /\ hpc' \in Working
  BY DEF IInv, DiscSound, discVars, Number, Filter, PageDetail, RecordRead, Working
<1>2. CASE Number
  <2>1. PICK n \in Ids : hunt' = [hunt EXCEPT !.start = n]
    BY <1>2 DEF Number
  <2>2. hpc = "number" /\ hpc' = "work" /\ UNCHANGED coverage
    BY <1>2 DEF Number
  <2>3. hunt.kept = NoCandidates
    BY <2>2 DEF IInv, BatchSound
  <2>4. /\ hunt' \in HuntLocals /\ hunt'.kept = hunt.kept /\ hunt'.todo = hunt.todo
        /\ hunt'.prims = hunt.prims /\ hunt'.areas = hunt.areas /\ hunt'.class = hunt.class
        /\ hunt'.target = hunt.target /\ hunt'.scope = hunt.scope
    BY <2>1 DEF IInv, Typed, HuntLocals, Ids
  <2>5. BatchSound' /\ LedgerSound'
    BY <1>1, <2>2, <2>3, <2>4 DEF IInv, BatchSound, LedgerSound, Backed, Hunted, NoCandidates
  <2>6. Typed' /\ Gates' /\ GatedOnly'
    BY <1>1, <2>2, <2>4 DEF IInv, Typed, Labels, Gates, Working, GatedOnly, Hunted, Cleared
  <2> QED BY <1>1, <2>5, <2>6 DEF IInv
<1>3. CASE Filter
  <2>1. PICK a \in Answers :
          hunt' = [hunt EXCEPT !.kept = [i \in Kept(a) |-> a.findings[i]],
                               !.todo = Kept(a), !.prims = Normalised(a, Kept(a)),
                               !.areas = a.areas \cap hunt.scope, !.reason = a.outcome]
    BY <1>3 DEF Filter
  <2>2. hpc = "work" /\ hpc' = "saving" /\ UNCHANGED coverage
    BY <1>3 DEF Filter
  <2>3. hunt.class \in Classes /\ findings[SourceFinding] # NoFinding
    BY <2>2 DEF IInv, Gates, Working
  <2> DEFINE kept == [i \in Kept(a) |-> a.findings[i]]
             prims == Normalised(a, Kept(a))
  <2>4. /\ Kept(a) \subseteq Nat /\ kept \in Batch /\ DOMAIN kept = Kept(a)
        /\ \A i \in Kept(a) :
             /\ kept[i].id \in Ids /\ kept[i].id >= hunt.start
             /\ findings[kept[i].id] = NoFinding
             /\ kept[i].project = hunt.target /\ kept[i].status = "candidate"
             /\ kept[i].place # NoPlace /\ kept[i].place.area \in hunt.scope
        /\ \A i, j \in Kept(a) : kept[i].id = kept[j].id => i = j
    BY <2>3, KeptSound DEF IInv
  <2>5. /\ prims \in Nodes
        /\ \A i \in DOMAIN prims :
             /\ prims[i].kind = hunt.class /\ prims[i].preconditions = {}
             /\ \E k \in Kept(a) : kept[k].id = prims[i].ref
    BY <2>3, NormalisedSound DEF IInv
  <2>6. a.areas \subseteq Areas /\ a.outcome \in {"resolved", "empty", "blocked"}
    BY AnswersShaped DEF IInv, Shaped
  <2> HIDE DEF kept, prims
  <2>7. /\ hunt' = [hunt EXCEPT !.kept = kept, !.todo = Kept(a), !.prims = prims,
                                !.areas = a.areas \cap hunt.scope, !.reason = a.outcome]
        /\ hunt \in HuntLocals
    BY <2>1 DEF IInv, Typed, kept, prims
  <2>8. hunt' \in HuntLocals
    BY <2>4, <2>5, <2>6, <2>7 DEF HuntLocals, Reasons
  <2>9. /\ hunt'.kept = kept /\ hunt'.todo = Kept(a) /\ hunt'.prims = prims
        /\ hunt'.areas = a.areas \cap hunt.scope /\ hunt'.class = hunt.class
        /\ hunt'.target = hunt.target /\ hunt'.scope = hunt.scope /\ hunt'.start = hunt.start
    BY <2>7 DEF HuntLocals
  <2>10. BatchSound'
    BY <1>1, <2>2, <2>4, <2>9 DEF BatchSound
  <2>11. LedgerSound'
    <3>1. \A n \in 1 .. Len(ledger) : findings[ledger[n].ref] # NoFinding
      BY DEF IInv, LedgerSound, Backed
    <3> QED BY <1>1, <2>4, <2>5, <2>9, <3>1 DEF IInv, LedgerSound, Backed, Hunted
  <2>12. Typed' /\ Gates' /\ GatedOnly'
    BY <1>1, <2>2, <2>8, <2>9 DEF IInv, Typed, Labels, Gates, Working, GatedOnly, Hunted, Cleared
  <2> QED BY <1>1, <2>10, <2>11, <2>12 DEF IInv
<1>4. CASE PageDetail
  <2>1. hpc = "saving" /\ hpc' = "covering" /\ hunt.todo = {} /\ UNCHANGED <<hunt, coverage>>
    BY <1>4 DEF PageDetail
  <2>2. BatchSound' /\ LedgerSound'
    BY <1>1, <2>1 DEF IInv, BatchSound, LedgerSound, Backed, Hunted
  <2>3. Typed' /\ Gates' /\ GatedOnly'
    BY <1>1, <2>1 DEF IInv, Typed, Labels, Gates, Working, GatedOnly, Hunted, Cleared
  <2> QED BY <1>1, <2>2, <2>3 DEF IInv
<1>5. CASE RecordRead
  <2>1. PICK a \in hunt.areas :
          /\ coverage' = coverage \cup {[project |-> hunt.target, area |-> a, by |-> "hunt"]}
          /\ hunt' = [hunt EXCEPT !.areas = @ \ {a}, !.recorded = @ \cup {a}]
    BY <1>5 DEF RecordRead
  <2>2. hpc = "covering" /\ hpc' = hpc
    BY <1>5 DEF RecordRead
  <2>3. /\ hunt' \in HuntLocals /\ hunt'.kept = hunt.kept /\ hunt'.todo = hunt.todo
        /\ hunt'.prims = hunt.prims /\ hunt'.areas \subseteq hunt.areas /\ hunt'.class = hunt.class
        /\ hunt'.target = hunt.target /\ hunt'.scope = hunt.scope /\ hunt'.start = hunt.start
    BY <2>1 DEF IInv, Typed, HuntLocals
  <2>4. BatchSound' /\ LedgerSound'
    BY <1>1, <2>2, <2>3 DEF IInv, BatchSound, LedgerSound, Backed, Hunted
  <2>5. coverage' \subseteq CoverageRecord
    BY <2>1 DEF IInv, Typed, HuntLocals, CoverageRecord, Commands
  <2>6. Typed' /\ Gates'
    BY <1>1, <2>2, <2>3, <2>5 DEF IInv, Typed, Labels, Gates, Working
  <2>7. Cleared(hunt.target, a)
    <3>1. a \in hunt.scope /\ hunt.target \in Projects
      BY DEF IInv, Typed, HuntLocals, BatchSound
    <3> QED BY <2>2, <3>1 DEF IInv, Gates, Working, Contained, Cleared
  <2>8. GatedOnly'
    BY <1>1, <2>1, <2>7 DEF IInv, GatedOnly, Hunted, Cleared
  <2> QED BY <1>1, <2>4, <2>6, <2>8 DEF IInv
<1> QED BY <1>2, <1>3, <1>4, <1>5

\* A finding of the batch is written, whole or torn.
LEMMA HuntWrites ==
  ASSUME IInv, hpc = "saving", NEW i \in hunt.todo, NEW rec \in Record, rec.by = "hunt",
         rec.project = hunt.target, rec.place = hunt.kept[i].place,
         findings' = [findings EXCEPT ![hunt.kept[i].id] = rec],
         UNCHANGED <<registry, coverage, disc, dpc, ledger, approved>>
  PROVE  /\ findings' \in [Ids -> Record \cup {NoFinding}]
         /\ findings'[SourceFinding] # NoFinding
         /\ hunt.kept[i].id \in Ids /\ findings'[hunt.kept[i].id] = rec
         /\ \A j \in Ids \ {hunt.kept[i].id} : findings'[j] = findings[j] /\ Backed(j)' = Backed(j)
         /\ \A n \in 1 .. Len(ledger) : ledger[n].ref \in Ids /\ Backed(ledger[n].ref)'
         /\ DiscSound' /\ GatedOnly'
<1> DEFINE id == hunt.kept[i].id
<1>1. id \in Ids /\ hunt.kept[i].place # NoPlace /\ hunt.kept[i].place.area \in hunt.scope
  BY DEF IInv, BatchSound
<1>2. /\ findings' \in [Ids -> Record \cup {NoFinding}] /\ findings'[id] = rec /\ rec # NoFinding
      /\ \A j \in Ids \ {id} : findings'[j] = findings[j]
  BY <1>1, HuntAssumption DEF IInv, Typed
<1>3. \A j \in Ids \ {id} : Backed(j)' = Backed(j)
  BY <1>2 DEF Backed, Hunted
<1>4. ASSUME NEW n \in 1 .. Len(ledger) PROVE ledger[n].ref \in Ids /\ Backed(ledger[n].ref)'
  <2>1. ledger[n] \in Node
    BY DEF IInv, LedgerSound
  <2>2. ledger[n].ref \in Ids /\ ledger[n].ref # id /\ Backed(ledger[n].ref)
    BY <2>1 DEF IInv, LedgerSound, Node
  <2> QED BY <1>3, <2>2
<1> HIDE DEF id
<1>5. DiscSound'
  BY <1>2 DEF IInv, DiscSound
<1>6. Cleared(hunt.target, hunt.kept[i].place.area)
  <2>1. hunt.target \in Projects
    BY DEF IInv, Typed, HuntLocals
  <2> QED BY <1>1, <2>1 DEF IInv, Gates, Working, Contained, Cleared
<1>7. GatedOnly'
  BY <1>1, <1>2, <1>6 DEF IInv, GatedOnly, Hunted, Cleared
<1> QED BY <1>1, <1>2, <1>3, <1>4, <1>5, <1>7 DEF id, IInv, Gates, Working

\* A finding of the batch is saved.
LEMMA HuntSaves ==
  ASSUME IInv, UNCHANGED <<discVars, raced>>, SaveVariant
  PROVE  IInv'
<1>1. PICK i \in hunt.todo :
        /\ SaveFinding(hunt.kept[i], "hunt")
        /\ hunt' = [hunt EXCEPT !.todo = @ \ {i}, !.saved = @ \cup {hunt.kept[i].id}]
  BY DEF SaveVariant
<1>2. hpc = "saving" /\ hpc' = "saving" /\ UNCHANGED <<registry, coverage, disc, dpc, ledger, approved>>
  BY DEF SaveVariant, discVars
<1> DEFINE rec == Saved(hunt.kept[i], "hunt")
           id == hunt.kept[i].id
<1>3. /\ hunt.kept[i] \in Candidate /\ i \in DOMAIN hunt.kept /\ hunt.kept[i].project = hunt.target
      /\ hunt.kept[i].status = "candidate"
  BY InBatch DEF IInv, Typed, HuntLocals, BatchSound
<1>4. /\ rec \in Record /\ rec.by = "hunt" /\ rec.project = hunt.target
      /\ rec.place = hunt.kept[i].place /\ rec.status = "candidate"
  BY <1>3, SavedTyped DEF Commands
<1>5. findings' = [findings EXCEPT ![id] = rec]
  BY <1>1 DEF SaveFinding
<1> HIDE DEF rec, id
<1>6. /\ findings' \in [Ids -> Record \cup {NoFinding}]
      /\ findings'[SourceFinding] # NoFinding
      /\ id \in Ids /\ findings'[id] = rec
      /\ \A j \in Ids \ {id} : findings'[j] = findings[j] /\ Backed(j)' = Backed(j)
      /\ \A n \in 1 .. Len(ledger) : ledger[n].ref \in Ids /\ Backed(ledger[n].ref)'
      /\ DiscSound' /\ GatedOnly'
  BY <1>2, <1>4, <1>5, HuntWrites DEF id
<1>7. /\ hunt' \in HuntLocals /\ hunt'.kept = hunt.kept /\ hunt'.todo = hunt.todo \ {i}
      /\ hunt'.prims = hunt.prims /\ hunt'.areas = hunt.areas /\ hunt'.class = hunt.class
      /\ hunt'.target = hunt.target /\ hunt'.scope = hunt.scope /\ hunt'.start = hunt.start
  BY <1>1, <1>6 DEF IInv, Typed, HuntLocals, id
<1>8. Typed'
  BY <1>2, <1>6, <1>7 DEF IInv, Typed
<1>9. Gates'
  BY <1>2, <1>6, <1>7 DEF IInv, Gates, Working
<1>10. \A j \in DOMAIN hunt.kept : hunt.kept[j].id \in Ids /\ (j # i => hunt.kept[j].id # id)
  BY <1>3 DEF IInv, BatchSound, id
<1>11. BatchSound'
  BY <1>2, <1>6, <1>7, <1>10 DEF IInv, BatchSound
<1>12. \A x \in Ids : x = id => Backed(x)'
  BY <1>4, <1>6, HuntAssumption DEF Backed, Hunted
<1>13. LedgerSound'
  <2>1. ASSUME NEW j \in DOMAIN hunt.kept, j \notin hunt.todo \/ j = i, NEW x, x = hunt.kept[j].id
        PROVE  Backed(x)'
    <3>1. CASE j = i
      BY <1>6, <1>12, <2>1, <3>1 DEF id
    <3>2. CASE j # i
      <4>1. x \in Ids \ {id} /\ Backed(x)
        BY <1>10, <2>1, <3>2 DEF IInv, LedgerSound
      <4> QED BY <1>6, <4>1
    <3> QED BY <3>1, <3>2
  <2>2. (\A j \in DOMAIN hunt.kept \ hunt.todo : Backed(hunt.kept[j].id))'
    BY <1>7, <2>1 DEF Backed, Hunted
  <2> QED BY <1>2, <1>6, <1>7, <2>2 DEF IInv, LedgerSound
<1> QED BY <1>6, <1>8, <1>9, <1>11, <1>13 DEF IInv

\* A target is done, rejected, or fails: its batch is dropped, and a finding of
\* it may be left torn.
LEMMA HuntConcludes ==
  ASSUME IInv, UNCHANGED <<discVars, raced>>, Reject \/ Conclude \/ TargetFails
  PROVE  IInv'
<1>1. /\ UNCHANGED <<registry, coverage, disc, dpc, ledger, approved>>
      /\ hpc \in Working /\ hpc' = "next" /\ hunt' = NewBatch(hunt)
  BY DEF Reject, Conclude, TargetFails, Answered, Working, discVars
<1>2. hunt \in HuntLocals /\ hunt' \in HuntLocals
  BY <1>1, NewBatchTyped DEF IInv, Typed
<1>3. /\ hunt'.kept = NoCandidates /\ hunt'.todo = {} /\ hunt'.prims = NoCandidates
      /\ hunt'.areas = {} /\ hunt'.class = hunt.class
  BY <1>1, <1>2 DEF NewBatch, HuntLocals
<1>4. BatchSound'
  BY <1>2, <1>3, NoBatch
<1>5. CASE UNCHANGED findings
  <2>1. LedgerSound' /\ DiscSound'
    BY <1>1, <1>2, <1>3, <1>5, NoBatch DEF IInv, DiscSound
  <2>2. Typed' /\ Gates' /\ GatedOnly'
    BY <1>1, <1>2, <1>3, <1>5 DEF IInv, Typed, Labels, Gates, Working, GatedOnly, Hunted, Cleared
  <2> QED BY <1>4, <2>1, <2>2 DEF IInv
<1>6. ASSUME hpc = "saving", NEW i \in hunt.todo, TearFinding(hunt.kept[i], "hunt") PROVE IInv'
  <2> DEFINE rec == Saved([hunt.kept[i] EXCEPT !.status = "torn"], "hunt")
  <2>1. hunt.kept[i] \in Candidate /\ hunt.kept[i].project = hunt.target
    BY InBatch DEF IInv, Typed, HuntLocals, BatchSound
  <2>2. /\ rec \in Record /\ rec.by = "hunt" /\ rec.project = hunt.target
        /\ rec.place = hunt.kept[i].place
    BY <2>1, SavedTyped DEF Commands
  <2>3. findings' = [findings EXCEPT ![hunt.kept[i].id] = rec]
    BY <1>6 DEF TearFinding
  <2> HIDE DEF rec
  <2>4. /\ findings' \in [Ids -> Record \cup {NoFinding}]
        /\ findings'[SourceFinding] # NoFinding
        /\ \A n \in 1 .. Len(ledger) : Backed(ledger[n].ref)'
        /\ DiscSound' /\ GatedOnly'
    BY <1>1, <1>6, <2>2, <2>3, HuntWrites
  <2>5. LedgerSound'
    BY <1>1, <1>3, <2>4 DEF IInv, LedgerSound, NoCandidates
  <2>6. Typed' /\ Gates'
    BY <1>1, <1>2, <1>3, <2>4 DEF IInv, Typed, Labels, Gates, Working
  <2> QED BY <1>4, <2>4, <2>5, <2>6 DEF IInv
<1> QED BY <1>5, <1>6 DEF Reject, Conclude, TargetFails
-----------------------------------------------------------------------------
Distinct(nodes) ==
    \A i, j \in 1 .. Len(nodes) : NodeKey(nodes[i]) = NodeKey(nodes[j]) => i = j

\* What is in one ledger was in the other.
Within(new, nodes) == \A k \in 1 .. Len(new) : \E m \in 1 .. Len(nodes) : new[k] = nodes[m]

LEMMA WithoutOne ==
  ASSUME NEW nodes \in Seq(Node), Distinct(nodes), NEW i \in 1 .. Len(nodes)
  PROVE  /\ Without(nodes, i) \in Seq(Node) /\ Distinct(Without(nodes, i))
         /\ Within(Without(nodes, i), nodes)
         /\ \A k \in 1 .. Len(Without(nodes, i)) : NodeKey(Without(nodes, i)[k]) # NodeKey(nodes[i])
<1> DEFINE new == Without(nodes, i)
           at(k) == IF k < i THEN k ELSE k + 1
<1>1. Len(nodes) \in Nat
  OBVIOUS
<1> DEFINE front == SubSeq(nodes, 1, i - 1)
           back == SubSeq(nodes, i + 1, Len(nodes))
<1>a. \A k \in 1 .. Len(nodes) : nodes[k] \in Node
  OBVIOUS
<1>b. /\ front \in Seq(Node) /\ Len(front) = i - 1
      /\ \A k \in 1 .. i - 1 : front[k] = nodes[k]
  BY <1>1, <1>a, SubSeqProperties
<1>c. /\ back \in Seq(Node) /\ Len(back) = Len(nodes) - i
      /\ \A k \in 1 .. Len(nodes) - i : back[k] = nodes[i + k]
  <2>1. /\ back \in Seq(Node)
        /\ Len(back) = IF i + 1 <= Len(nodes) THEN (Len(nodes) - (i + 1)) + 1 ELSE 0
        /\ \A k \in 1 .. (Len(nodes) - (i + 1)) + 1 : back[k] = nodes[((i + 1) + k) - 1]
    BY <1>1, <1>a, SubSeqProperties
  <2> HIDE DEF back
  <2> QED BY <1>1, <2>1
<1>d. new = front \o back
  BY DEF Without
<1> HIDE DEF front, back, new
<1>e. /\ new \in Seq(Node) /\ Len(new) = (i - 1) + (Len(nodes) - i)
      /\ \A k \in 1 .. (i - 1) + (Len(nodes) - i) :
            new[k] = IF k <= i - 1 THEN front[k] ELSE back[k - (i - 1)]
  <2>1. /\ new \in Seq(Node) /\ Len(new) = Len(front) + Len(back)
        /\ \A k \in 1 .. Len(front) + Len(back) :
              new[k] = IF k <= Len(front) THEN front[k] ELSE back[k - Len(front)]
    BY <1>b, <1>c, <1>d, ConcatProperties
  <2>2. Len(front) = i - 1 /\ Len(back) = Len(nodes) - i
    BY <1>b, <1>c
  <2> QED BY <2>1, <2>2
<1>2. new \in Seq(Node) /\ Len(new) = Len(nodes) - 1
  BY <1>1, <1>e
<1>3. \A k \in 1 .. Len(new) : new[k] = nodes[at(k)]
  <2> TAKE k \in 1 .. Len(new)
  <2>1. CASE k < i
    BY <1>1, <1>2, <1>b, <1>e, <2>1
  <2>2. CASE ~(k < i)
    <3>1. k - (i - 1) \in 1 .. Len(nodes) - i /\ i + (k - (i - 1)) = k + 1
      BY <1>1, <1>2, <2>2
    <3>2. new[k] = back[k - (i - 1)]
      BY <1>1, <1>2, <1>e, <2>2
    <3>3. back[k - (i - 1)] = nodes[i + (k - (i - 1))]
      BY <1>c, <3>1
    <3> QED BY <2>2, <3>1, <3>2, <3>3
  <2> QED BY <2>1, <2>2
<1>4. \A k \in 1 .. Len(new) : at(k) \in 1 .. Len(nodes) /\ at(k) # i
  BY <1>1, <1>2
<1>5. \A j, k \in 1 .. Len(new) : at(j) = at(k) => j = k
  BY <1>1, <1>2
<1> HIDE DEF new, at
<1>6. Distinct(new)
  BY <1>3, <1>4, <1>5 DEF Distinct
<1>7. Within(new, nodes)
  BY <1>3, <1>4 DEF Within
<1>8. \A k \in 1 .. Len(new) : NodeKey(new[k]) # NodeKey(nodes[i])
  BY <1>3, <1>4 DEF Distinct
<1> QED BY <1>2, <1>6, <1>7, <1>8 DEF new

LEMMA ForgottenSound ==
  ASSUME NEW nodes \in Seq(Node), Distinct(nodes), NEW p \in Node
  PROVE  /\ Forgotten(nodes, p) \in Seq(Node) /\ Distinct(Forgotten(nodes, p))
         /\ Within(Forgotten(nodes, p), nodes)
         /\ \A k \in 1 .. Len(Forgotten(nodes, p)) : NodeKey(Forgotten(nodes, p)[k]) # NodeKey(p)
<1> DEFINE same == {i \in 1 .. Len(nodes) : NodeKey(nodes[i]) = NodeKey(p)}
<1>1. CASE same = {}
  <2>1. Forgotten(nodes, p) = nodes
    BY <1>1 DEF Forgotten
  <2> QED BY <1>1, <2>1 DEF Within
<1>2. CASE same # {}
  <2> DEFINE i == CHOOSE i \in same : TRUE
  <2>1. i \in same
    BY <1>2
  <2>2. Forgotten(nodes, p) = Without(nodes, i)
    BY <1>2 DEF Forgotten
  <2> HIDE DEF i
  <2> QED BY <2>1, <2>2, WithoutOne
<1> QED BY <1>1, <1>2

\* A primitive is ledgered: the bound and the keys are kept, and what is in the
\* ledger is the primitive or was there.
LEMMA AddPrimitiveSound ==
  ASSUME NEW nodes \in Seq(Node), Distinct(nodes), NEW p \in Node
  PROVE  LET new == AddPrimitive(nodes, p)
         IN /\ new \in Seq(Node) /\ Len(new) <= MaxPrimitives /\ Distinct(new)
            /\ \A k \in 1 .. Len(new) : new[k] = p \/ \E m \in 1 .. Len(nodes) : new[k] = nodes[m]
<1> DEFINE rest == Forgotten(nodes, p)
           all == Append(rest, p)
           new == AddPrimitive(nodes, p)
           cut == Len(all) - MaxPrimitives
<1>1. /\ rest \in Seq(Node) /\ Distinct(rest) /\ Within(rest, nodes)
      /\ \A k \in 1 .. Len(rest) : NodeKey(rest[k]) # NodeKey(p)
  BY ForgottenSound
<1>2. new = IF Len(all) > MaxPrimitives THEN SubSeq(all, cut + 1, Len(all)) ELSE all
  BY DEF AddPrimitive
<1> HIDE DEF rest, new
<1>3. /\ all \in Seq(Node) /\ Len(all) = Len(rest) + 1 /\ Len(rest) \in Nat
      /\ all[Len(all)] = p /\ \A k \in 1 .. Len(rest) : all[k] = rest[k]
  BY <1>1
<1>4. Distinct(all)
  <2> SUFFICES ASSUME NEW i \in 1 .. Len(all), NEW j \in 1 .. Len(all), i # j
               PROVE  NodeKey(all[i]) # NodeKey(all[j])
    BY DEF Distinct
  <2>1. CASE i = Len(all)
    <3>1. j \in 1 .. Len(rest)
      BY <1>3, <2>1
    <3> HIDE DEF all
    <3> QED BY <1>1, <1>3, <2>1, <3>1
  <2>2. CASE j = Len(all)
    <3>1. i \in 1 .. Len(rest)
      BY <1>3, <2>2
    <3> HIDE DEF all
    <3> QED BY <1>1, <1>3, <2>2, <3>1
  <2>3. CASE i # Len(all) /\ j # Len(all)
    <3>1. i \in 1 .. Len(rest) /\ j \in 1 .. Len(rest)
      BY <1>3, <2>3
    <3> HIDE DEF all
    <3> QED BY <1>1, <1>3, <3>1 DEF Distinct
  <2> QED BY <2>1, <2>2, <2>3
<1>5. \A k \in 1 .. Len(all) : all[k] = p \/ \E m \in 1 .. Len(nodes) : all[k] = nodes[m]
  <2> TAKE k \in 1 .. Len(all)
  <2>1. k = Len(all) \/ k \in 1 .. Len(rest)
    BY <1>3
  <2> HIDE DEF all
  <2> QED BY <1>1, <1>3, <2>1 DEF Within
<1> HIDE DEF all
<1>6. MaxPrimitives \in Nat /\ Len(all) \in Nat
  BY <1>3, LedgerAssumption
<1>7. CASE Len(all) > MaxPrimitives
  <2>1. /\ new \in Seq(Node) /\ Len(new) = MaxPrimitives
        /\ \A k \in 1 .. Len(new) : new[k] = all[k + cut] /\ k + cut \in 1 .. Len(all)
    <3>1. new = SubSeq(all, cut + 1, Len(all)) /\ cut + 1 \in Int /\ cut \in Nat
      BY <1>2, <1>6, <1>7
    <3>2. \A k \in cut + 1 .. Len(all) : all[k] \in Node
      BY <1>3, <3>1
    <3>3. /\ new \in Seq(Node)
          /\ Len(new) = IF cut + 1 <= Len(all) THEN (Len(all) - (cut + 1)) + 1 ELSE 0
          /\ \A k \in 1 .. (Len(all) - (cut + 1)) + 1 : new[k] = all[((cut + 1) + k) - 1]
      BY <1>6, <3>1, <3>2, SubSeqProperties
    <3>4. Len(new) = MaxPrimitives
      BY <1>6, <3>1, <3>3
    <3>5. ASSUME NEW k \in 1 .. MaxPrimitives
          PROVE  new[k] = all[k + cut] /\ k + cut \in 1 .. Len(all)
      <4>1. /\ k \in 1 .. (Len(all) - (cut + 1)) + 1 /\ ((cut + 1) + k) - 1 = k + cut
            /\ k + cut \in 1 .. Len(all)
        BY <1>6, <3>1
      <4> HIDE DEF cut
      <4> QED BY <3>3, <4>1
    <3> HIDE DEF cut
    <3> QED BY <3>3, <3>4, <3>5
  <2>2. cut \in Nat
    BY <1>6, <1>7
  <2> HIDE DEF cut
  <2>3. Distinct(new)
    <3> SUFFICES ASSUME NEW i \in 1 .. Len(new), NEW j \in 1 .. Len(new),
                        NodeKey(new[i]) = NodeKey(new[j])
                 PROVE  i = j
      BY DEF Distinct
    <3>1. i + cut = j + cut
      BY <1>4, <2>1 DEF Distinct
    <3> QED BY <2>1, <2>2, <1>6, <3>1
  <2> QED BY <1>5, <1>6, <2>1, <2>3 DEF new
<1>8. CASE ~(Len(all) > MaxPrimitives)
  BY <1>2, <1>3, <1>4, <1>5, <1>6, <1>8 DEF new
<1> QED BY <1>7, <1>8

\* A primitive of the batch, all of which is saved, is ledgered.
LEMMA HuntLedgers ==
  ASSUME IInv, Kempt, UNCHANGED <<discVars, raced>>, LedgerPrimitive
  PROVE  IInv'
<1>1. PICK i \in DOMAIN hunt.prims :
        /\ ledger' = AddPrimitive(ledger, hunt.prims[i])
        /\ hunt' = [hunt EXCEPT !.prims = [j \in DOMAIN hunt.prims \ {i} |-> hunt.prims[j]]]
  BY DEF LedgerPrimitive
<1>2. /\ hpc = "covering" /\ hpc' = "covering"
      /\ UNCHANGED <<registry, findings, coverage, disc, dpc, approved>>
  BY DEF LedgerPrimitive, discVars
<1> DEFINE rest == [j \in DOMAIN hunt.prims \ {i} |-> hunt.prims[j]]
<1>3. hunt.prims[i] \in Node /\ rest \in Nodes
  <2>1. PICK S \in SUBSET Nat : hunt.prims \in [S -> Node]
    BY DEF IInv, Typed, HuntLocals, Nodes
  <2>2. rest \in [S \ {i} -> Node] /\ S \ {i} \in SUBSET Nat
    BY <2>1
  <2> QED BY <2>1, <2>2 DEF Nodes
<1>4. /\ ledger' \in Seq(Node)
      /\ \A n \in 1 .. Len(ledger') :
            ledger'[n] = hunt.prims[i] \/ \E m \in 1 .. Len(ledger) : ledger'[n] = ledger[m]
  BY <1>1, <1>3, AddPrimitiveSound DEF IInv, LedgerSound, Kempt, Distinct
<1>5. /\ DOMAIN rest = DOMAIN hunt.prims \ {i}
      /\ \A j \in DOMAIN rest : rest[j] = hunt.prims[j]
  OBVIOUS
<1> HIDE DEF rest
<1>6. /\ hunt' \in HuntLocals /\ hunt'.kept = hunt.kept /\ hunt'.todo = hunt.todo
      /\ hunt'.prims = rest /\ hunt'.areas = hunt.areas /\ hunt'.class = hunt.class
      /\ hunt'.target = hunt.target /\ hunt'.scope = hunt.scope /\ hunt'.start = hunt.start
  BY <1>1, <1>3 DEF IInv, Typed, HuntLocals, rest
<1>7. hunt.todo = {}
  BY <1>2 DEF IInv, BatchSound
<1>8. /\ hunt.prims[i].kind = hunt.class /\ hunt.prims[i].preconditions = {}
      /\ Backed(hunt.prims[i].ref)
  BY <1>7 DEF IInv, LedgerSound
<1>9. \A x \in Ids : Backed(x)' = Backed(x)
  BY <1>2 DEF Backed, Hunted
<1>10. LedgerSound'
  <2>1. ASSUME NEW n \in 1 .. Len(ledger')
        PROVE  /\ ledger'[n].kind = hunt.class /\ ledger'[n].preconditions = {}
               /\ ledger'[n].ref \in Ids /\ Backed(ledger'[n].ref)
    <3>1. CASE ledger'[n] = hunt.prims[i]
      BY <1>3, <1>8, <3>1 DEF Node
    <3>2. ASSUME NEW m \in 1 .. Len(ledger), ledger'[n] = ledger[m]
          PROVE  /\ ledger'[n].kind = hunt.class /\ ledger'[n].preconditions = {}
                 /\ ledger'[n].ref \in Ids /\ Backed(ledger'[n].ref)
      <4>1. ledger[m] \in Node
        BY DEF IInv, LedgerSound
      <4> QED BY <3>2, <4>1 DEF IInv, LedgerSound, Node
    <3> QED BY <1>4, <3>1, <3>2
  <2> QED BY <1>2, <1>4, <1>5, <1>6, <1>7, <2>1 DEF IInv, LedgerSound, Backed, Hunted
<1>11. BatchSound' /\ DiscSound'
  BY <1>2, <1>6, <1>7 DEF IInv, BatchSound, DiscSound
<1>12. Typed' /\ Gates' /\ GatedOnly'
  BY <1>2, <1>6 DEF IInv, Typed, Labels, Gates, Working, GatedOnly, Hunted, Cleared
<1> QED BY <1>10, <1>11, <1>12 DEF IInv

\* The outcomes stay typed, the ledger bounded and its keys distinct.
LEMMA KemptKept ==
  ASSUME IInv, Kempt, [Next]_vars
  PROVE  Kempt'
<1>1. CASE UNCHANGED <<outcomes, raced, ledger>>
  BY <1>1 DEF Kempt
<1>2. ASSUME UNCHANGED <<raced, ledger>>,
             \E p \in Projects, o \in OutcomeRecord : outcomes' = [outcomes EXCEPT ![p] = o]
      PROVE  Kempt'
  BY <1>2 DEF Kempt
<1>3. ASSUME UNCHANGED raced, Aborted PROVE Kempt'
  BY <1>3, LedgerAssumption DEF Kempt, Aborted
<1>4. hunt.target \in Projects /\ hunt.saved \subseteq Ids /\ hunt.recorded \subseteq Areas
      /\ hunt.reason \in Reasons
  BY DEF IInv, Typed, HuntLocals
<1>5. ASSUME NEW p \in Projects, PassOver(p) \/ GateStops(p), UNCHANGED raced PROVE Kempt'
  <2>1. UNCHANGED ledger
    BY <1>5 DEF PassOver, GateStops
  <2>2. UNCHANGED outcomes \/ \E reason \in {"skipped", "error", "hold", "refuse"} :
           outcomes' = [outcomes EXCEPT ![p] = Outcome(FALSE, reason, {}, {})]
    BY <1>5 DEF PassOver, GateStops, Answered, Evaluate
  <2>3. \A reason \in Reasons : Outcome(FALSE, reason, {}, {}) \in OutcomeRecord
    BY DEF Outcome, OutcomeRecord
  <2> QED BY <1>1, <1>2, <1>5, <2>1, <2>2, <2>3 DEF Reasons
<1>6. CASE (Reject \/ Conclude \/ TargetFails) /\ UNCHANGED raced
  <2>1. Outcome(TRUE, "rejected", {}, {}) \in OutcomeRecord
        /\ Outcome(TRUE, hunt.reason, hunt.saved, hunt.recorded) \in OutcomeRecord
        /\ Outcome(TRUE, "failed", hunt.saved, hunt.recorded) \in OutcomeRecord
    BY <1>4 DEF Outcome, OutcomeRecord, Reasons
  <2> QED BY <1>2, <1>4, <1>6, <2>1 DEF Reject, Conclude, TargetFails, Answered
<1>7. CASE LedgerPrimitive /\ UNCHANGED raced
  <2>1. PICK i \in DOMAIN hunt.prims : ledger' = AddPrimitive(ledger, hunt.prims[i])
    BY <1>7 DEF LedgerPrimitive
  <2>2. hunt.prims[i] \in Node
    BY DEF IInv, Typed, HuntLocals, Nodes
  <2>3. Len(ledger') <= MaxPrimitives /\ Distinct(ledger')
    BY <2>1, <2>2, AddPrimitiveSound DEF IInv, LedgerSound, Kempt, Distinct
  <2>4. UNCHANGED outcomes
    BY <1>7 DEF LedgerPrimitive
  <2> QED BY <1>7, <2>3, <2>4 DEF Kempt, Distinct
<1>8. CASE Discover /\ raced' = raced \cup Disturbed /\ UNCHANGED huntVars
  <2>1. Disturbed \subseteq Projects
    BY <1>4 DEF IInv, Typed, Record, Disturbed
  <2> QED BY <1>8, <2>1 DEF Kempt, huntVars
<1>9. CASE (Dispatch \/ EditSource \/ Refuse \/ Derive \/ TeachBack \/ Number \/ Filter
            \/ SaveVariant \/ PageDetail \/ RecordRead \/ \E p \in Projects : GatePasses(p))
           /\ UNCHANGED raced
  BY <1>1, <1>9 DEF Dispatch, EditSource, Refuse, Derive, TeachBack, Number, Filter, SaveVariant,
       PageDetail, RecordRead, GatePasses, huntVars
<1>10. CASE (SourceGone \/ Interrupt \/ \E p \in Projects : SiblingTorn(p)) /\ UNCHANGED raced
  BY <1>3, <1>10 DEF SourceGone, Interrupt, SiblingTorn
<1>11. CASE UNCHANGED vars
  BY <1>1, <1>11 DEF vars, huntVars
<1> QED BY <1>5, <1>6, <1>7, <1>8, <1>9, <1>10, <1>11 DEF Next, HuntStep

LEMMA IInvKept ==
  ASSUME IInv, Kempt, [Next]_vars
  PROVE  IInv'
<1>1. CASE UNCHANGED vars
  BY <1>1 DEF vars, huntVars, discVars, IInv, Typed, Gates, BatchSound, LedgerSound, Backed, DiscSound,
              GatedOnly, Hunted, Cleared
<1>2. CASE Discover /\ raced' = raced \cup Disturbed /\ UNCHANGED huntVars
  BY <1>2, DiscoverThinks, DiscoverWrites DEF Discover
<1>3. CASE (Dispatch \/ EditSource \/ HuntStep \/ Interrupt) /\ UNCHANGED <<discVars, raced>>
  BY <1>3, HuntOutside, HuntTakesUp, HuntThinks, HuntSaves, HuntConcludes, HuntLedgers DEF HuntStep
<1> QED BY <1>1, <1>2, <1>3 DEF Next

LEMMA InitSound == Init => IInv /\ Kempt
<1> SUFFICES ASSUME Init PROVE IInv /\ Kempt
  OBVIOUS
<1>1. PICK w \in Worlds : registry = w.registry /\ findings = w.findings
  BY DEF Init
<1>2. /\ registry \in [Projects -> StoredContexts \cup {NoProject, TornProject}]
      /\ findings \in [Ids -> Record \cup {NoFinding}]
      /\ \A i \in Ids : ~Hunted(i)
  BY <1>1, HuntAssumption DEF Hunted
<1>3. /\ coverage = {} /\ dpc = "idle" /\ disc = DiscStart /\ hpc = "idle" /\ hunt = HuntStart
      /\ ledger = << >> /\ approved = [p \in Projects |-> NoProject] /\ raced = {}
      /\ outcomes = [p \in Projects |-> NoOutcome]
  BY DEF Init, DiscoverInit
<1>4. Typed
  BY <1>2, <1>3, HuntStartTyped, DiscStartTyped DEF Typed, Labels
<1>5. Gates
  BY <1>2, <1>3 DEF Gates, Working
<1>6. BatchSound /\ LedgerSound
  BY <1>3 DEF BatchSound, LedgerSound, HuntStart, NoCandidates
<1>7. DiscSound
  BY <1>3 DEF DiscSound, DiscStart, NoCandidates
<1>8. GatedOnly
  BY <1>2, <1>3 DEF GatedOnly
<1>9. Kempt
  BY <1>3, LedgerAssumption DEF Kempt
<1> QED BY <1>4, <1>5, <1>6, <1>7, <1>8, <1>9 DEF IInv

LEMMA IInvHolds == Spec => [](IInv /\ Kempt)
<1>1. IInv /\ Kempt /\ [Next]_vars => (IInv /\ Kempt)'
  BY IInvKept, KemptKept
<1> QED BY InitSound, <1>1, PTL DEF Spec
-----------------------------------------------------------------------------
\* Whatever a worker answers and whichever write fails, every variable keeps its
\* type, the ledger its bound and its nodes their keys.
THEOREM HuntTyping == Spec => []TypeOK
<1>1. IInv /\ Kempt => TypeOK
  <2> SUFFICES ASSUME IInv, Kempt PROVE TypeOK
    OBVIOUS
  <2>1. \A i \in DOMAIN disc.found : disc.found[i] \in Candidate
    BY InBatch DEF IInv, Typed, DiscLocals
  <2>2. DiscoverTypeOK
    BY <2>1 DEF IInv, Typed, DiscLocals, DiscSound, DiscoverTypeOK
  <2>3. \A i \in DOMAIN hunt.kept : hunt.kept[i] \in Candidate /\ hunt.kept[i].id \in Ids
    BY InBatch DEF IInv, Typed, HuntLocals, BatchSound
  <2>4. \A i \in DOMAIN hunt.prims : hunt.prims[i] \in Node
    BY DEF IInv, Typed, HuntLocals, Nodes
  <2> QED BY <2>2, <2>3, <2>4 DEF IInv, Typed, HuntLocals, BatchSound, LedgerSound, Kempt, TypeOK
<1> QED BY <1>1, IInvHolds, PTL

\* A hunt writes only into a contained scope that was gated for its own project.
THEOREM HuntIsGated == Spec => []GatedOnly
<1>1. IInv => GatedOnly
  BY DEF IInv
<1> QED BY <1>1, IInvHolds, PTL

\* Every primitive in the ledger is backed by a record on disk, and none chains.
THEOREM LedgerStaysBacked == Spec => []LedgerIsBacked
<1>1. IInv => LedgerIsBacked
  <2> SUFFICES ASSUME IInv PROVE LedgerIsBacked
    OBVIOUS
  <2>1. Compositions(ledger) = {}
    BY DEF IInv, LedgerSound, Compositions
  <2> QED BY <2>1 DEF IInv, LedgerSound, Backed, LedgerIsBacked
<1> QED BY <1>1, IInvHolds, PTL

\* Neither command writes over a finding that was there when it numbered.
THEOREM RecordsAreKept == Spec => RecordsKept
<1> DEFINE Kind(i) == findings'[i] # findings[i] /\ findings[i] # NoFinding =>
              /\ findings'[i].by # findings[i].by /\ findings[i].by # "earlier"
              /\ i >= IF findings'[i].by = "hunt" THEN hunt.start ELSE disc.start
<1>1. ASSUME IInv, [Next]_vars PROVE \A i \in Ids : Kind(i)
  <2>1. CASE UNCHANGED findings
    BY <2>1
  <2>2. ASSUME NEW id \in Ids, NEW rec, findings' = [findings EXCEPT ![id] = rec],
               \/ /\ rec.by = "hunt" /\ id >= hunt.start
                  /\ findings[id] # NoFinding => findings[id].by = "discover"
               \/ /\ rec.by = "discover" /\ id >= disc.start
                  /\ findings[id] # NoFinding => findings[id].by = "hunt"
        PROVE  \A j \in Ids : Kind(j)
    <3>1. findings'[id] = rec /\ \A j \in Ids \ {id} : findings'[j] = findings[j]
      BY <1>1, <2>2 DEF IInv, Typed
    <3>2. Kind(id)
      BY <2>2, <3>1
    <3>3. \A j \in Ids \ {id} : Kind(j)
      BY <3>1
    <3> HIDE DEF Kind
    <3> QED BY <3>2, <3>3
  <2> HIDE DEF Kind
  <2>3. \A f, command : Saved(f, command).by = command
    BY DEF Saved
  <2>4. CASE SaveCandidate \/ TearCandidate
    <3>1. PICK i \in disc.todo :
            /\ disc.found[i].id \in Ids
            /\ \/ SaveFinding(disc.found[i], "discover")
               \/ TearFinding(disc.found[i], "discover")
      BY <2>4 DEF SaveCandidate, TearCandidate
    <3>2. /\ disc.found[i].id >= disc.start
          /\ findings[disc.found[i].id] # NoFinding => findings[disc.found[i].id].by = "hunt"
      BY <1>1, <3>1 DEF IInv, DiscSound
    <3>3. disc.found[i] \in Candidate
      BY <1>1, InBatch DEF IInv, Typed, DiscLocals, DiscSound
    <3>4. [disc.found[i] EXCEPT !.status = "torn"].id = disc.found[i].id
      BY <3>3 DEF Candidate
    <3>5. \E rec : /\ findings' = [findings EXCEPT ![disc.found[i].id] = rec]
                   /\ rec.by = "discover"
      BY <2>3, <3>1, <3>4 DEF SaveFinding, TearFinding
    <3> QED BY <2>2, <3>1, <3>2, <3>5
  <2>5. CASE SaveVariant \/ (TargetFails /\ findings' # findings)
    <3>1. PICK i \in hunt.todo :
            SaveFinding(hunt.kept[i], "hunt") \/ TearFinding(hunt.kept[i], "hunt")
      BY <2>5 DEF SaveVariant, TargetFails
    <3>2. /\ hunt.kept[i].id \in Ids /\ hunt.kept[i].id >= hunt.start
          /\ findings[hunt.kept[i].id] # NoFinding => findings[hunt.kept[i].id].by = "discover"
      BY <1>1, <3>1 DEF IInv, BatchSound
    <3>3. hunt.kept[i] \in Candidate
      BY <1>1, InBatch DEF IInv, Typed, HuntLocals, BatchSound
    <3>4. [hunt.kept[i] EXCEPT !.status = "torn"].id = hunt.kept[i].id
      BY <3>3 DEF Candidate
    <3>5. \E rec : /\ findings' = [findings EXCEPT ![hunt.kept[i].id] = rec]
                   /\ rec.by = "hunt"
      BY <2>3, <3>1, <3>4 DEF SaveFinding, TearFinding
    <3> QED BY <2>2, <3>2, <3>5
  <2>6. CASE Discover \/ UNCHANGED vars
    BY <2>1, <2>4, <2>6 DEF Discover, Begin, NothingToRead, ReadSarif, IngestEnvelope, RecordArea,
                            DiscoverReturns, DiscoverRaises, vars
  <2>7. CASE Dispatch \/ EditSource \/ HuntStep \/ Interrupt
    BY <2>1, <2>5, <2>7
       DEF HuntStep, Dispatch, EditSource, SourceGone, Refuse, Derive, PassOver, SiblingTorn,
           GateStops, GatePasses, Number, Filter, Reject, PageDetail, RecordRead, LedgerPrimitive,
           Conclude, TeachBack, Interrupt
  <2> QED BY <1>1, <2>6, <2>7 DEF Next
<1>2. IInv /\ [Next]_vars => [\A i \in Ids : Kind(i)]_vars
  BY <1>1
<1> QED BY <1>2, IInvHolds, PTL DEF Spec, RecordsKept
-----------------------------------------------------------------------------
\* The siblings still to come, each once.  The source among them is passed over.
Ahead == {hunt.queue[k] : k \in DOMAIN hunt.queue} \ {Source}

Targets == {Source} \cup {Siblings[k] : k \in DOMAIN Siblings}

\* The targets are taken one after another, none twice, and none is forgotten.
QueueSound ==
    /\ \A i, j \in DOMAIN hunt.queue : hunt.queue[i] = hunt.queue[j] => i = j
    /\ hpc \in {"idle", "gated"} =>
          /\ hunt.queue = Siblings /\ hunt.class = NoClass
          /\ \A p \in Projects : outcomes[p] = NoOutcome
    /\ \A p \in Ahead : outcomes[p] = NoOutcome
    /\ hpc \in Working => hunt.target \notin Ahead
    /\ hpc \in Working \cup {"next", "closed"} /\ hunt.class # NoClass =>
          \A p \in Targets : \/ outcomes[p] # NoOutcome
                             \/ hpc \in Working /\ p = hunt.target
                             \/ hpc # "closed" /\ p \in Ahead

Whole(i) == Hunted(i) /\ findings[i].status # "torn"

\* A whole record and read coverage of the hunt's are in the outcome of their
\* target, or among the local variables of the one under way.
Reported ==
    hpc # "aborted" =>
        /\ \A i \in Ids : Whole(i) =>
              LET p == findings[i].project
              IN IF hpc \in Working /\ p = hunt.target THEN i \in hunt.saved
                 ELSE outcomes[p] # NoOutcome /\ outcomes[p].proceeded /\ i \in outcomes[p].findings
        /\ \A r \in coverage : r.by = "hunt" =>
              IF hpc \in Working /\ r.project = hunt.target THEN r.area \in hunt.recorded
              ELSE outcomes[r.project] # NoOutcome /\ r.area \in outcomes[r.project].areas

ReadBy(p, area) == [project |-> p, area |-> area, by |-> "hunt"] \in coverage

\* ... and what these name is on disk.
TrueToDisk ==
    /\ hpc \in {"number", "work"} => hunt.saved = {} /\ hunt.recorded = {}
    /\ \A i \in hunt.saved : findings[i] # NoFinding
    /\ hpc \in Working => \A a \in hunt.recorded : ReadBy(hunt.target, a)
    /\ \A p \in Projects : outcomes[p] # NoOutcome =>
          /\ \A i \in outcomes[p].findings : findings[i] # NoFinding
          /\ \A a \in outcomes[p].areas : ReadBy(p, a)

InOutcomes == UNION {outcomes[p].findings : p \in {q \in Projects : outcomes[q] # NoOutcome}}

TellInv == /\ QueueSound /\ Reported /\ TrueToDisk
           /\ hpc = "closed" => IF hunt.class = NoClass THEN \A i \in Ids : ~Hunted(i)
                                ELSE hunt.touched = InOutcomes
           /\ hunt.class = NoClass => hunt.touched = {}

\* What DISCOVER has saved so far is what it will report.
DiscTold ==
    LET done == {disc.found[j].id : j \in DOMAIN disc.found \ disc.todo}
    IN /\ \A i \in Ids : findings[i] # NoFinding /\ findings[i].by = "discover" =>
             \/ dpc \in {"saving", "teaching"} /\ i \in done
             \/ dpc = "closed" /\ i \in disc.touched
             \/ dpc = "raised"
       /\ dpc \in {"idle", "reading"} => disc.found = NoCandidates
       /\ dpc \in {"idle", "reading", "teaching"} => disc.todo = {}
       /\ \A i \in done \cup disc.touched : i \in Ids /\ findings[i] # NoFinding

\* A located same-class instance of the SARIF in the scope of p, as VariantsFiled
\* counts them.
Due(p, place) ==
    /\ hunt.doc # NoDoc
    /\ \E i \in Accepted(hunt.doc, Contained(registry[p].scope, Escaping[p])) :
          hunt.doc[i].class = hunt.class /\ hunt.doc[i].place = place
    /\ place # NoPlace
    /\ p = Source => place # hunt.locus

Filed(p, place) == \E id \in Ids : Hunted(id) /\ findings[id].project = p /\ findings[id].place = place

RanThrough == {"resolved", "empty"}

\* A target that ran through has every instance that was due.
Promised ==
    \A p \in Projects \ (Rogue \cup raced) :
        outcomes[p] # NoOutcome /\ outcomes[p].reason \in RanThrough =>
            \A place \in Places : Due(p, place) => Filed(p, place)

\* ... or, of the batch under way, has it waiting to be saved.
Underway ==
    hpc \in {"saving", "covering"} /\ hunt.target \notin Rogue \cup raced /\ hunt.reason \in RanThrough =>
        \A place \in Places : Due(hunt.target, place) =>
            Filed(hunt.target, place) \/ \E k \in hunt.todo : hunt.kept[k].place = place

\* Unless DISCOVER came between, the ids from the start are free until the firewall
\* reads the store.
FreeAhead ==
    hpc = "work" => /\ hunt.start \in Ids
                    /\ hunt.target \notin raced =>
                          \A i \in Ids : i >= hunt.start => findings[i] = NoFinding

FiledInv ==
    /\ hpc \in {"idle", "gated"} => \A p \in Projects : outcomes[p] = NoOutcome
    /\ FreeAhead /\ Underway /\ Promised
-----------------------------------------------------------------------------
\* A step of the hunt writes at most one finding, of its own and of its target,
\* and over none of its own.
LEMMA VariantWritten ==
  ASSUME IInv, hpc = "saving", NEW i \in hunt.todo, NEW id, id = hunt.kept[i].id,
         SaveFinding(hunt.kept[i], "hunt") \/ TearFinding(hunt.kept[i], "hunt")
  PROVE  /\ id \in Ids /\ ~Hunted(id) /\ findings'[id] # NoFinding
         /\ findings'[id].by = "hunt" /\ findings'[id].project = hunt.target
         /\ findings'[id].place = hunt.kept[i].place
         /\ TearFinding(hunt.kept[i], "hunt") => findings'[id].status = "torn"
         /\ \A j \in Ids \ {id} : findings'[j] = findings[j]
<1>1. hunt.kept[i] \in Candidate /\ hunt.kept[i].project = hunt.target /\ id \in Ids
  BY InBatch DEF IInv, Typed, HuntLocals, BatchSound
<1>2. ~Hunted(id)
  BY DEF IInv, BatchSound, Hunted
<1>3. ASSUME NEW rec \in Record, findings' = [findings EXCEPT ![id] = rec]
      PROVE  findings'[id] = rec /\ rec # NoFinding /\ \A j \in Ids \ {id} : findings'[j] = findings[j]
  BY <1>1, <1>3, HuntAssumption DEF IInv, Typed
<1> DEFINE whole == Saved(hunt.kept[i], "hunt")
           torn == Saved([hunt.kept[i] EXCEPT !.status = "torn"], "hunt")
<1>4. /\ whole \in Record /\ whole.by = "hunt" /\ whole.project = hunt.target
      /\ whole.place = hunt.kept[i].place
      /\ torn \in Record /\ torn.by = "hunt" /\ torn.project = hunt.target
      /\ torn.place = hunt.kept[i].place
  BY <1>1, SavedTyped DEF Commands
<1>5. torn.status = "torn"
  BY <1>1 DEF Saved, Candidate
<1>6. CASE TearFinding(hunt.kept[i], "hunt")
  <2>1. findings' = [findings EXCEPT ![id] = torn]
    BY <1>6 DEF TearFinding
  <2> HIDE DEF torn, whole
  <2> QED BY <1>1, <1>2, <1>3, <1>4, <1>5, <2>1
<1>7. CASE ~TearFinding(hunt.kept[i], "hunt")
  <2>1. findings' = [findings EXCEPT ![id] = whole]
    BY <1>7 DEF SaveFinding
  <2> HIDE DEF torn, whole
  <2> QED BY <1>1, <1>2, <1>3, <1>4, <1>7, <2>1
<1> QED BY <1>6, <1>7

\* What DISCOVER writes is its own.
LEMMA CandidateWritten ==
  ASSUME IInv, NEW i \in disc.todo, NEW id, id = disc.found[i].id, id \in Ids,
         SaveFinding(disc.found[i], "discover") \/ TearFinding(disc.found[i], "discover")
  PROVE  /\ findings'[id] # NoFinding /\ findings'[id].by = "discover"
         /\ findings'[id] # findings[id]
         /\ \A j \in Ids \ {id} : findings'[j] = findings[j]
<1>1. disc.found[i] \in Candidate
  BY InBatch DEF IInv, Typed, DiscLocals, DiscSound
<1>2. findings[id] # NoFinding => findings[id].by = "hunt"
  BY DEF IInv, DiscSound
<1>3. ASSUME NEW rec \in Record, findings' = [findings EXCEPT ![id] = rec]
      PROVE  findings'[id] = rec /\ rec # NoFinding /\ \A j \in Ids \ {id} : findings'[j] = findings[j]
  BY <1>3, HuntAssumption DEF IInv, Typed
<1> DEFINE whole == Saved(disc.found[i], "discover")
           torn == Saved([disc.found[i] EXCEPT !.status = "torn"], "discover")
<1>4. whole \in Record /\ whole.by = "discover" /\ torn \in Record /\ torn.by = "discover"
  BY <1>1, SavedTyped DEF Commands
<1>5. findings' = [findings EXCEPT ![id] = whole] \/ findings' = [findings EXCEPT ![id] = torn]
  <2>1. [disc.found[i] EXCEPT !.status = "torn"].id = id
    BY <1>1 DEF Candidate
  <2> QED BY <2>1 DEF SaveFinding, TearFinding
<1> HIDE DEF whole, torn
<1> QED BY <1>2, <1>3, <1>4, <1>5

\* The steps of the hunt that write a finding.
LEMMA HuntWritesOne ==
  ASSUME IInv, Dispatch \/ EditSource \/ HuntStep \/ Interrupt, findings' # findings
  PROVE  /\ hpc = "saving"
         /\ \/ SaveVariant
            \/ TargetFails /\ \E i \in hunt.todo : TearFinding(hunt.kept[i], "hunt")
  BY DEF HuntStep, Dispatch, EditSource, SourceGone, Refuse, Derive, PassOver, SiblingTorn,
         GateStops, GatePasses, Number, Filter, Reject, SaveVariant, PageDetail, RecordRead,
         LedgerPrimitive, Conclude, TargetFails, TeachBack, Interrupt

\* A hunt step leaves DISCOVER's findings that it does not write over, and loses none.
LEMMA HuntSpares ==
  ASSUME IInv, Dispatch \/ EditSource \/ HuntStep \/ Interrupt
  PROVE  \A j \in Ids : /\ findings[j] # NoFinding => findings'[j] # NoFinding
                        /\ findings'[j] = findings[j] \/ findings'[j].by = "hunt"
<1>1. CASE findings' = findings
  BY <1>1
<1>2. CASE findings' # findings
  <2>1. PICK i \in hunt.todo : SaveFinding(hunt.kept[i], "hunt") \/ TearFinding(hunt.kept[i], "hunt")
    BY <1>2, HuntWritesOne DEF SaveVariant
  <2>2. PICK id : id = hunt.kept[i].id
    OBVIOUS
  <2>3. hpc = "saving"
    BY <1>2, HuntWritesOne
  <2> QED BY <2>1, <2>2, <2>3, VariantWritten
<1> QED BY <1>1, <1>2
-----------------------------------------------------------------------------
LEMMA DiscoverTells ==
  ASSUME IInv, DiscTold, Discover
  PROVE  DiscTold'
<1> DEFINE done == {disc.found[j].id : j \in DOMAIN disc.found \ disc.todo}
           Mine(i) == findings[i] # NoFinding /\ findings[i].by = "discover"
<1>1. DOMAIN NoCandidates = {}
  BY DEF NoCandidates
<1>2. DiscStart.found = NoCandidates /\ DiscStart.todo = {} /\ DiscStart.touched = {}
  BY DEF DiscStart
<1>3. disc \in DiscLocals
  BY DEF IInv, Typed
<1>4. CASE Begin \/ NothingToRead \/ IngestEnvelope \/ RecordArea
  <2>1. disc'.found = disc.found /\ disc'.todo = disc.todo /\ disc'.touched = disc.touched
        /\ UNCHANGED findings
    BY <1>3, <1>4 DEF Begin, NothingToRead, IngestEnvelope, RecordArea, DiscLocals
  <2>2. \/ dpc = "idle" /\ dpc' = "reading"
        \/ dpc = "reading" /\ dpc' = "teaching"
        \/ dpc = "saving" /\ dpc' = "teaching" /\ disc.todo = {}
        \/ dpc = "teaching" /\ dpc' = "teaching"
    BY <1>4 DEF Begin, NothingToRead, IngestEnvelope, RecordArea
  <2> QED BY <2>1, <2>2 DEF DiscTold
<1>5. CASE ReadSarif
  <2>1. /\ dpc = "reading" /\ dpc' = "saving" /\ UNCHANGED findings
        /\ disc'.todo = DOMAIN disc'.found /\ disc'.touched = disc.touched
    BY <1>3, <1>5 DEF ReadSarif, DiscLocals
  <2> QED BY <2>1 DEF DiscTold
<1>6. CASE SaveCandidate
  <2>1. PICK i \in disc.todo : /\ disc.found[i].id \in Ids
                               /\ SaveFinding(disc.found[i], "discover")
                               /\ disc' = [disc EXCEPT !.todo = @ \ {i}]
    BY <1>6 DEF SaveCandidate
  <2>2. PICK id : id = disc.found[i].id
    OBVIOUS
  <2>3. /\ findings'[id] # NoFinding /\ findings'[id].by = "discover"
        /\ \A j \in Ids \ {id} : findings'[j] = findings[j]
    BY <2>1, <2>2, CandidateWritten
  <2>4. dpc = "saving" /\ dpc' = "saving"
    BY <1>6 DEF SaveCandidate
  <2>5. disc'.found = disc.found /\ disc'.todo = disc.todo \ {i} /\ disc'.touched = disc.touched
    BY <1>3, <2>1 DEF DiscLocals
  <2>6. i \in DOMAIN disc.found
    BY DEF IInv, DiscSound
  <2>7. done' = done \cup {id}
    BY <2>2, <2>5, <2>6
  <2>8. \A j \in done \cup disc.touched : j \in Ids /\ findings[j] # NoFinding
    BY DEF DiscTold
  <2>9. \A j \in Ids : Mine(j) => j \in done
    BY <2>4 DEF DiscTold
  <2> HIDE DEF done
  <2>10. \A j \in Ids : Mine(j)' => j \in done'
    BY <2>3, <2>7, <2>9
  <2>11. \A j \in done' \cup disc'.touched : j \in Ids /\ findings'[j] # NoFinding
    BY <2>1, <2>2, <2>3, <2>5, <2>7, <2>8
  <2> QED BY <2>4, <2>10, <2>11 DEF DiscTold, done
<1>7. ASSUME disc' = DiscStart, dpc' = "raised" PROVE DiscTold'
  BY <1>1, <1>2, <1>7 DEF DiscTold
<1>8. CASE TearCandidate \/ DiscoverRaises
  BY <1>7, <1>8 DEF TearCandidate, DiscoverRaises
<1>9. CASE DiscoverReturns
  <2>1. /\ dpc = "teaching" /\ dpc' = "closed" /\ UNCHANGED findings
        /\ disc' = [DiscStart EXCEPT !.touched = {disc.found[i].id : i \in DOMAIN disc.found}]
    BY <1>9 DEF DiscoverReturns
  <2>2. disc.todo = {} /\ done = {disc.found[i].id : i \in DOMAIN disc.found}
    BY <2>1 DEF DiscTold
  <2>3. disc'.touched = done /\ disc'.found = NoCandidates
    BY <2>1, <2>2 DEF DiscStart
  <2>4. \A j \in Ids : Mine(j) => j \in done
    BY <2>1 DEF DiscTold
  <2>5. \A j \in done : j \in Ids /\ findings[j] # NoFinding
    BY DEF DiscTold
  <2> HIDE DEF done
  <2> QED BY <1>1, <2>1, <2>3, <2>4, <2>5 DEF DiscTold
<1> QED BY <1>4, <1>5, <1>6, <1>8, <1>9 DEF Discover

LEMMA DiscToldKept ==
  ASSUME IInv, DiscTold, [Next]_vars
  PROVE  DiscTold'
<1>1. CASE Discover
  BY <1>1, DiscoverTells
<1>2. CASE (Dispatch \/ EditSource \/ HuntStep \/ Interrupt) /\ UNCHANGED discVars
  <2>1. \A j \in Ids : /\ findings[j] # NoFinding => findings'[j] # NoFinding
                       /\ findings'[j] = findings[j] \/ findings'[j].by = "hunt"
    BY <1>2, HuntSpares
  <2>2. disc' = disc /\ dpc' = dpc
    BY <1>2 DEF discVars
  <2> QED BY <2>1, <2>2 DEF DiscTold
<1>3. CASE UNCHANGED vars
  BY <1>3 DEF vars, discVars, DiscTold
<1> QED BY <1>1, <1>2, <1>3 DEF Next
-----------------------------------------------------------------------------
\* Popping a queue in which each is once.
LEMMA PoppedQueue ==
  ASSUME NEW q \in Seq(Projects), q # << >>,
         \A i, j \in DOMAIN q : q[i] = q[j] => i = j
  PROVE  /\ Tail(q) \in Seq(Projects) /\ Head(q) \in Projects
         /\ {Tail(q)[k] : k \in DOMAIN Tail(q)} = {q[k] : k \in DOMAIN q} \ {Head(q)}
         /\ \A i, j \in DOMAIN Tail(q) : Tail(q)[i] = Tail(q)[j] => i = j
<1>1. /\ Tail(q) \in Seq(Projects) /\ Head(q) = q[1] /\ q[1] \in Projects
      /\ Len(q) \in Nat /\ Len(q) >= 1 /\ Len(Tail(q)) = Len(q) - 1
      /\ \A k \in 1 .. Len(q) - 1 : Tail(q)[k] = q[k + 1]
      /\ DOMAIN q = 1 .. Len(q) /\ DOMAIN Tail(q) = 1 .. Len(q) - 1
  OBVIOUS
<1>2. \A k \in 1 .. Len(q) - 1 : k + 1 \in 1 .. Len(q) /\ k + 1 # 1
  BY <1>1
<1>3. \A k \in 1 .. Len(q) : k # 1 => k - 1 \in 1 .. Len(q) - 1 /\ (k - 1) + 1 = k
  BY <1>1
<1>4. {Tail(q)[k] : k \in DOMAIN Tail(q)} \subseteq {q[k] : k \in DOMAIN q} \ {Head(q)}
  BY <1>1, <1>2
<1>5. ASSUME NEW p \in {q[k] : k \in DOMAIN q} \ {Head(q)}
      PROVE  p \in {Tail(q)[k] : k \in DOMAIN Tail(q)}
  <2>1. PICK k \in 1 .. Len(q) : p = q[k] /\ k # 1
    BY <1>1, <1>5
  <2>2. k - 1 \in DOMAIN Tail(q) /\ Tail(q)[k - 1] = p
    BY <1>1, <1>3, <2>1
  <2> QED BY <2>2
<1>6. \A i, j \in DOMAIN Tail(q) : Tail(q)[i] = Tail(q)[j] => i = j
  <2> SUFFICES ASSUME NEW i \in 1 .. Len(q) - 1, NEW j \in 1 .. Len(q) - 1, q[i + 1] = q[j + 1]
               PROVE  i = j
    BY <1>1
  <2>1. i + 1 = j + 1
    BY <1>1, <1>2
  <2> QED BY <2>1
<1> QED BY <1>1, <1>4, <1>5, <1>6

\* The first of the queue is among those ahead, unless it is the source, and
\* the rest is what is ahead after it.
LEMMA PoppedAhead ==
  ASSUME IInv, QueueSound, hunt.queue # << >>, NEW p \in Projects, p = Head(hunt.queue),
         hunt'.queue = Tail(hunt.queue)
  PROVE  /\ Ahead' = Ahead \ {p} /\ (p # Source => p \in Ahead)
         /\ \A i, j \in DOMAIN hunt'.queue : hunt'.queue[i] = hunt'.queue[j] => i = j
<1>1. hunt.queue \in Seq(Projects) /\ \A i, j \in DOMAIN hunt.queue : hunt.queue[i] = hunt.queue[j] => i = j
  BY DEF IInv, Typed, HuntLocals, QueueSound
<1>2. 1 \in DOMAIN hunt.queue /\ Head(hunt.queue) = hunt.queue[1]
  BY <1>1
<1>3. p \in {hunt.queue[k] : k \in DOMAIN hunt.queue}
  BY <1>2
<1> DEFINE In(q) == {q[k] : k \in DOMAIN q}
<1>4. In(hunt.queue)' = In(hunt.queue) \ {p}
  <2>1. In(Tail(hunt.queue)) = In(hunt.queue) \ {p}
    BY <1>1, PoppedQueue
  <2> QED BY <2>1
<1>5. \A i, j \in DOMAIN hunt'.queue : hunt'.queue[i] = hunt'.queue[j] => i = j
  BY <1>1, PoppedQueue
<1> QED BY <1>3, <1>4, <1>5 DEF Ahead
-----------------------------------------------------------------------------
\* Steps that tell of nothing new: inside a target, and outside any.
LEMMA TellsTheSame ==
  ASSUME IInv, TellInv, UNCHANGED <<findings, coverage, outcomes>>,
         UNCHANGED <<hunt.queue, hunt.class, hunt.target, hunt.saved, hunt.recorded, hunt.touched>>,
         hpc \in Working /\ hpc' \in Working, hpc' \in {"number", "work"} => hpc \in {"number", "work"}
  PROVE  TellInv'
<1>1. Ahead' = Ahead /\ InOutcomes' = InOutcomes
  BY DEF Ahead, InOutcomes
<1>2. QueueSound'
  BY <1>1 DEF TellInv, QueueSound, Working
<1>3. Reported'
  BY DEF TellInv, Reported, Whole, Hunted, Working
<1>4. TrueToDisk'
  BY DEF TellInv, TrueToDisk, ReadBy
<1> QED BY <1>2, <1>3, <1>4 DEF TellInv, Working

LEMMA DiscoverTellsNot ==
  ASSUME IInv, Kempt, TellInv, UNCHANGED huntVars,
         \A i \in Ids : /\ Hunted(i)' => findings'[i] = findings[i]
                        /\ findings[i] # NoFinding => findings'[i] # NoFinding,
         \A r \in coverage' : r.by = "hunt" => r \in coverage, coverage \subseteq coverage'
  PROVE  TellInv'
<1>1. Ahead' = Ahead /\ InOutcomes' = InOutcomes /\ hpc' = hpc /\ hunt' = hunt /\ outcomes' = outcomes
  BY DEF Ahead, InOutcomes, huntVars
<1>2. QueueSound'
  BY <1>1 DEF TellInv, QueueSound
<1>3. \A i \in Ids : Hunted(i)' => Hunted(i) /\ findings'[i] = findings[i]
  BY DEF Hunted
<1>4. Reported'
  BY <1>1, <1>3 DEF TellInv, Reported, Whole
<1>5. hunt.saved \subseteq Ids /\ \A p \in Projects : outcomes[p] # NoOutcome => outcomes[p].findings \subseteq Ids
  BY DEF IInv, Typed, HuntLocals, Kempt, OutcomeRecord
<1>6. TrueToDisk'
  BY <1>1, <1>5 DEF TellInv, TrueToDisk, ReadBy
<1> QED BY <1>1, <1>2, <1>3, <1>4, <1>6 DEF TellInv

LEMMA SaveTells ==
  ASSUME IInv, Kempt, TellInv, SaveVariant
  PROVE  TellInv'
<1>1. PICK i \in hunt.todo :
        /\ SaveFinding(hunt.kept[i], "hunt")
        /\ hunt' = [hunt EXCEPT !.todo = @ \ {i}, !.saved = @ \cup {hunt.kept[i].id}]
  BY DEF SaveVariant
<1>2. PICK id : id = hunt.kept[i].id
  OBVIOUS
<1>3. hpc = "saving" /\ hpc' = "saving" /\ UNCHANGED <<coverage, outcomes>>
  BY DEF SaveVariant
<1>4. /\ hunt'.saved = hunt.saved \cup {id} /\ hunt'.recorded = hunt.recorded
      /\ hunt'.queue = hunt.queue /\ hunt'.class = hunt.class /\ hunt'.target = hunt.target
      /\ hunt'.touched = hunt.touched
  BY <1>1, <1>2 DEF IInv, Typed, HuntLocals
<1>5. /\ id \in Ids /\ findings'[id] # NoFinding /\ findings'[id].project = hunt.target
      /\ \A j \in Ids \ {id} : findings'[j] = findings[j]
  BY <1>1, <1>2, <1>3, VariantWritten
<1>6. Ahead' = Ahead
  BY <1>4 DEF Ahead
<1>7. QueueSound'
  BY <1>3, <1>4, <1>6 DEF TellInv, QueueSound, Working
<1>8. Reported'
  <2>1. ASSUME NEW j \in Ids, Whole(j)'
        PROVE  LET p == findings'[j].project
               IN IF p = hunt.target THEN j \in hunt'.saved
                  ELSE outcomes[p] # NoOutcome /\ outcomes[p].proceeded /\ j \in outcomes[p].findings
    <3>1. CASE j = id
      BY <1>4, <1>5, <3>1
    <3>2. CASE j # id
      <4>1. findings'[j] = findings[j] /\ Whole(j)
        BY <1>5, <2>1, <3>2 DEF Whole, Hunted
      <4> QED BY <1>3, <1>4, <4>1 DEF TellInv, Reported, Working
    <3> QED BY <3>1, <3>2
  <2> QED BY <1>3, <1>4, <2>1 DEF TellInv, Reported, Working
<1>9. TrueToDisk'
  <2>1. \A j \in Ids : findings[j] # NoFinding => findings'[j] # NoFinding
    BY <1>5
  <2>2. hunt.saved \subseteq Ids
        /\ \A p \in Projects : outcomes[p] # NoOutcome => outcomes[p].findings \subseteq Ids
    BY DEF IInv, Typed, HuntLocals, Kempt, OutcomeRecord
  <2>3. \A p \in Projects : outcomes[p] # NoOutcome =>
           \A j \in outcomes[p].findings : findings'[j] # NoFinding
    BY <2>1, <2>2 DEF TellInv, TrueToDisk
  <2> QED BY <1>3, <1>4, <1>5, <2>1, <2>2, <2>3 DEF TellInv, TrueToDisk, ReadBy, Working
<1> QED BY <1>3, <1>4, <1>7, <1>8, <1>9 DEF TellInv

LEMMA ReadTells ==
  ASSUME IInv, TellInv, RecordRead
  PROVE  TellInv'
<1>1. PICK a \in hunt.areas :
        /\ coverage' = coverage \cup {[project |-> hunt.target, area |-> a, by |-> "hunt"]}
        /\ hunt' = [hunt EXCEPT !.areas = @ \ {a}, !.recorded = @ \cup {a}]
  BY DEF RecordRead
<1>2. hpc = "covering" /\ hpc' = "covering" /\ UNCHANGED <<findings, outcomes>>
  BY DEF RecordRead
<1>3. /\ hunt'.saved = hunt.saved /\ hunt'.recorded = hunt.recorded \cup {a}
      /\ hunt'.queue = hunt.queue /\ hunt'.class = hunt.class /\ hunt'.target = hunt.target
      /\ hunt'.touched = hunt.touched
  BY <1>1 DEF IInv, Typed, HuntLocals
<1>4. Ahead' = Ahead
  BY <1>3 DEF Ahead
<1>5. QueueSound'
  BY <1>2, <1>3, <1>4 DEF TellInv, QueueSound, Working
<1>6. Reported'
  BY <1>1, <1>2, <1>3 DEF TellInv, Reported, Whole, Hunted, Working
<1>7. TrueToDisk'
  BY <1>1, <1>2, <1>3 DEF TellInv, TrueToDisk, ReadBy, Working
<1> QED BY <1>2, <1>3, <1>5, <1>6, <1>7 DEF TellInv

\* A target is left, however, with the outcome that tells what it saved.
LEMMA OutcomeTells ==
  ASSUME IInv, Kempt, TellInv, Reject \/ Conclude \/ TargetFails
  PROVE  TellInv'
<1>1. /\ hpc \in Working /\ hpc' = "next" /\ hunt' = NewBatch(hunt) /\ UNCHANGED coverage
      /\ hunt \in HuntLocals
  BY DEF Reject, Conclude, TargetFails, Answered, Working, IInv, Typed
<1> DEFINE t == hunt.target
<1>2. PICK reason \in Reasons : outcomes' = [outcomes EXCEPT ![t] = Outcome(TRUE, reason, hunt.saved, hunt.recorded)]
  <2>1. CASE Reject
    <3>1. hunt.saved = {} /\ hunt.recorded = {}
      BY <2>1 DEF Reject, TellInv, TrueToDisk
    <3> QED BY <2>1, <3>1 DEF Reject, Answered, Reasons
  <2>2. CASE Conclude
    BY <1>1, <2>2 DEF Conclude, Answered, HuntLocals
  <2>3. CASE TargetFails
    BY <2>3 DEF TargetFails, Answered, Reasons
  <2> QED BY <2>1, <2>2, <2>3
<1>3. PICK o : o = Outcome(TRUE, reason, hunt.saved, hunt.recorded)
  OBVIOUS
<1>4. /\ o # NoOutcome /\ o.proceeded /\ o.findings = hunt.saved /\ o.areas = hunt.recorded
  <2>1. o \in OutcomeRecord
    BY <1>1, <1>3 DEF Outcome, OutcomeRecord, HuntLocals
  <2> QED BY <1>3, <2>1, NoOutcomeAssumption DEF Outcome
<1>5. t \in Projects /\ outcomes'[t] = o /\ \A p \in Projects \ {t} : outcomes'[p] = outcomes[p]
  BY <1>1, <1>2, <1>3 DEF HuntLocals, Kempt
<1>6. /\ hunt'.saved = {} /\ hunt'.recorded = {} /\ hunt'.queue = hunt.queue
      /\ hunt'.class = hunt.class /\ hunt'.touched = hunt.touched
  BY <1>1 DEF NewBatch, HuntLocals
<1>7. \A j \in Ids : /\ Whole(j)' => Whole(j) /\ findings'[j] = findings[j]
                     /\ findings[j] # NoFinding => findings'[j] # NoFinding
  <2>1. CASE findings' = findings
    BY <2>1 DEF Whole, Hunted
  <2>2. ASSUME hpc = "saving", NEW i \in hunt.todo, TearFinding(hunt.kept[i], "hunt")
        PROVE  \A j \in Ids : /\ Whole(j)' => Whole(j) /\ findings'[j] = findings[j]
                              /\ findings[j] # NoFinding => findings'[j] # NoFinding
    <3>1. PICK id : id = hunt.kept[i].id
      OBVIOUS
    <3>2. /\ findings'[id] # NoFinding /\ findings'[id].status = "torn"
          /\ \A j \in Ids \ {id} : findings'[j] = findings[j]
      BY <2>2, <3>1, VariantWritten
    <3> QED BY <3>2 DEF Whole, Hunted
  <2> QED BY <2>1, <2>2 DEF Reject, Conclude, TargetFails
<1>8. Ahead' = Ahead
  BY <1>6 DEF Ahead
<1>9. QueueSound'
  <2>1. Targets \subseteq Projects /\ t \notin Ahead
    BY <1>1, HuntAssumption DEF Targets, TellInv, QueueSound
  <2>2. Ahead \subseteq Projects
    BY <1>1 DEF HuntLocals, Ahead
  <2> HIDE DEF t
  <2>3. \A p \in Ahead : outcomes'[p] = NoOutcome
    BY <1>5, <2>1, <2>2 DEF TellInv, QueueSound
  <2>4. hunt.class # NoClass => \A p \in Targets : outcomes'[p] # NoOutcome \/ p \in Ahead
    BY <1>1, <1>4, <1>5, <2>1 DEF TellInv, QueueSound, Working, t
  <2> QED BY <1>1, <1>6, <1>8, <2>3, <2>4 DEF TellInv, QueueSound, Working
<1>10. Reported'
  <2>1. ASSUME NEW j \in Ids, Whole(j)'
        PROVE  LET p == findings'[j].project
               IN outcomes'[p] # NoOutcome /\ outcomes'[p].proceeded /\ j \in outcomes'[p].findings
    <3>1. findings'[j] = findings[j] /\ Whole(j)
      BY <1>7, <2>1
    <3>2. PICK p : p = findings[j].project
      OBVIOUS
    <3>3. p \in Projects
      BY <3>1, <3>2 DEF Whole, Hunted, IInv, Typed, Record
    <3>4. IF p = t THEN j \in hunt.saved
          ELSE outcomes[p] # NoOutcome /\ outcomes[p].proceeded /\ j \in outcomes[p].findings
      BY <1>1, <3>1, <3>2 DEF TellInv, Reported, Working
    <3>5. outcomes'[p] # NoOutcome /\ outcomes'[p].proceeded /\ j \in outcomes'[p].findings
      BY <1>4, <1>5, <3>3, <3>4
    <3> QED BY <3>1, <3>2, <3>5
  <2>2. ASSUME NEW r \in coverage, r.by = "hunt"
        PROVE  outcomes'[r.project] # NoOutcome /\ r.area \in outcomes'[r.project].areas
    <3>1. r.project \in Projects
      BY DEF IInv, Typed, CoverageRecord
    <3>2. IF r.project = t THEN r.area \in hunt.recorded
          ELSE outcomes[r.project] # NoOutcome /\ r.area \in outcomes[r.project].areas
      BY <1>1, <2>2 DEF TellInv, Reported, Working
    <3> QED BY <1>4, <1>5, <3>1, <3>2
  <2> QED BY <1>1, <2>1, <2>2 DEF Reported, Working
<1>11. TrueToDisk'
  <2>1. ASSUME NEW p \in Projects, outcomes'[p] # NoOutcome
        PROVE  /\ \A i \in outcomes'[p].findings : findings'[i] # NoFinding
               /\ \A a \in outcomes'[p].areas : ReadBy(p, a)
    <3>1. CASE p = t
      <4>1. /\ hunt.saved \subseteq Ids /\ \A i \in hunt.saved : findings[i] # NoFinding
            /\ \A a \in hunt.recorded : ReadBy(p, a)
        BY <1>1, <3>1 DEF TellInv, TrueToDisk, HuntLocals
      <4> QED BY <1>4, <1>5, <1>7, <3>1, <4>1
    <3>2. CASE p # t
      <4>1. outcomes'[p] = outcomes[p] /\ outcomes[p].findings \subseteq Ids
        BY <1>5, <2>1, <3>2 DEF Kempt, OutcomeRecord
      <4> QED BY <1>7, <2>1, <4>1 DEF TellInv, TrueToDisk
    <3> QED BY <3>1, <3>2
  <2> QED BY <1>1, <1>6, <2>1 DEF TrueToDisk, ReadBy, Working
<1>12. hpc' # "closed" /\ (hunt.class = NoClass => hunt.touched = {})
  BY <1>1 DEF TellInv
<1> QED BY <1>6, <1>9, <1>10, <1>11, <1>12 DEF TellInv

\* Between targets: a sibling is passed over, stopped or taken up.
LEMMA PopTells ==
  ASSUME IInv, Kempt, TellInv, NEW p \in Projects, PassOver(p) \/ GateStops(p) \/ GatePasses(p)
  PROVE  TellInv'
<1>1. /\ hpc = "next" /\ hunt.queue # << >> /\ p = Head(hunt.queue)
      /\ UNCHANGED <<findings, coverage>> /\ hunt \in HuntLocals
  BY DEF PassOver, GateStops, GatePasses, Sibling, IInv, Typed
<1>2. /\ hunt'.queue = Tail(hunt.queue) /\ hunt'.class = hunt.class /\ hunt'.touched = hunt.touched
  BY <1>1 DEF PassOver, GateStops, GatePasses, Popped, Targeted, NewBatch, HuntLocals
<1>3. /\ Ahead' = Ahead \ {p} /\ (p # Source => p \in Ahead)
      /\ \A i, j \in DOMAIN hunt'.queue : hunt'.queue[i] = hunt'.queue[j] => i = j
  BY <1>1, <1>2, PoppedAhead DEF TellInv
<1>4. /\ Targets \subseteq Projects /\ Source \notin Ahead /\ Ahead \subseteq Projects
      /\ \A q \in Ahead : outcomes[q] = NoOutcome
      /\ hunt.class # NoClass => \A q \in Targets : outcomes[q] # NoOutcome \/ q \in Ahead
  BY <1>1, HuntAssumption DEF Targets, Ahead, TellInv, QueueSound, Working, HuntLocals
<1>5. \A j \in Ids : Whole(j) =>
         LET q == findings[j].project
         IN q \in Projects /\ outcomes[q] # NoOutcome /\ outcomes[q].proceeded /\ j \in outcomes[q].findings
  BY <1>1 DEF TellInv, Reported, Working, Whole, Hunted, IInv, Typed, Record
<1>6. \A r \in coverage : r.by = "hunt" =>
         r.project \in Projects /\ outcomes[r.project] # NoOutcome /\ r.area \in outcomes[r.project].areas
  BY <1>1 DEF TellInv, Reported, Working, IInv, Typed, CoverageRecord
<1>7. \A j \in Ids : Whole(j)' = Whole(j)
  BY <1>1 DEF Whole, Hunted
<1>8. CASE p = Source
  <2>1. hpc' = "next" /\ outcomes' = outcomes /\ hunt' = Popped
    BY <1>1, <1>8 DEF PassOver, GateStops, GatePasses
  <2>2. hunt'.saved = hunt.saved /\ Ahead' = Ahead
    BY <1>1, <1>3, <1>4, <1>8, <2>1 DEF Popped, HuntLocals
  <2>3. QueueSound'
    BY <1>1, <1>2, <1>3, <1>4, <2>1, <2>2 DEF QueueSound, Working
  <2>4. Reported'
    BY <1>1, <1>5, <1>6, <1>7, <2>1 DEF Reported, Working
  <2>5. TrueToDisk'
    BY <1>1, <2>1, <2>2 DEF TellInv, TrueToDisk, ReadBy, Working
  <2> QED BY <1>1, <1>2, <2>1, <2>3, <2>4, <2>5 DEF TellInv
<1>9. ASSUME p # Source, PassOver(p) \/ GateStops(p) PROVE TellInv'
  <2>1. PICK reason \in {"skipped", "error", "hold", "refuse"} :
           outcomes' = [outcomes EXCEPT ![p] = Outcome(FALSE, reason, {}, {})]
    BY <1>9 DEF PassOver, GateStops, Answered, Evaluate
  <2>2. PICK o : o = Outcome(FALSE, reason, {}, {})
    OBVIOUS
  <2>3. o # NoOutcome /\ o.findings = {} /\ o.areas = {}
    <3>1. o \in OutcomeRecord
      BY <2>2 DEF Outcome, OutcomeRecord, Reasons
    <3> QED BY <2>2, <3>1, NoOutcomeAssumption DEF Outcome
  <2>4. outcomes'[p] = o /\ \A q \in Projects \ {p} : outcomes'[q] = outcomes[q]
    BY <2>1, <2>2 DEF Kempt
  <2>5. hpc' = "next" /\ hunt'.saved = hunt.saved
    BY <1>1, <1>9 DEF PassOver, GateStops, Answered, Popped, HuntLocals
  <2>6. outcomes[p] = NoOutcome
    BY <1>3, <1>4, <1>9
  <2>7. QueueSound'
    BY <1>1, <1>2, <1>3, <1>4, <2>3, <2>4, <2>5 DEF QueueSound, Working
  <2>8. \A j \in Ids : Whole(j) =>
           LET q == findings[j].project
           IN outcomes'[q] # NoOutcome /\ outcomes'[q].proceeded /\ j \in outcomes'[q].findings
    BY <1>5, <2>4, <2>6
  <2>9. \A r \in coverage : r.by = "hunt" =>
           outcomes'[r.project] # NoOutcome /\ r.area \in outcomes'[r.project].areas
    BY <1>6, <2>4, <2>6
  <2>10. Reported'
    BY <1>1, <1>7, <2>5, <2>8, <2>9 DEF Reported, Working
  <2>11. TrueToDisk'
    <3>1. \A q \in Projects : outcomes'[q] # NoOutcome =>
             /\ \A i \in outcomes'[q].findings : findings[i] # NoFinding
             /\ \A a \in outcomes'[q].areas : ReadBy(q, a)
      BY <2>3, <2>4 DEF TellInv, TrueToDisk
    <3> QED BY <1>1, <2>5, <3>1 DEF TellInv, TrueToDisk, ReadBy, Working
  <2> QED BY <1>1, <1>2, <2>5, <2>7, <2>10, <2>11 DEF TellInv
<1>10. ASSUME GatePasses(p) PROVE TellInv'
  <2>1. /\ p # Source /\ hpc' = "number" /\ outcomes' = outcomes /\ hunt' = Targeted(Popped, p)
    BY <1>10 DEF GatePasses
  <2>2. hunt'.target = p /\ hunt'.saved = {} /\ hunt'.recorded = {}
    BY <1>1, <2>1 DEF Targeted, NewBatch, Popped, HuntLocals
  <2>3. outcomes[p] = NoOutcome
    BY <1>3, <1>4, <2>1
  <2>4. QueueSound'
    BY <1>1, <1>2, <1>3, <1>4, <2>1, <2>2 DEF QueueSound, Working
  <2>5. Reported'
    BY <1>1, <1>5, <1>6, <1>7, <2>1, <2>2, <2>3 DEF Reported, Working
  <2>6. TrueToDisk'
    BY <1>1, <2>1, <2>2 DEF TellInv, TrueToDisk, ReadBy, Working
  <2> QED BY <1>1, <1>2, <2>1, <2>4, <2>5, <2>6 DEF TellInv
<1> QED BY <1>8, <1>9, <1>10

\* Before the first target and after the last one.
LEMMA FramesTell ==
  ASSUME IInv, Kempt, TellInv, Dispatch \/ EditSource \/ Refuse \/ Derive \/ TeachBack
  PROVE  TellInv'
<1>1. UNCHANGED <<findings, coverage, outcomes>> /\ hunt \in HuntLocals
  BY DEF Dispatch, EditSource, Refuse, Derive, TeachBack, huntVars, IInv, Typed
<1>3. CASE Dispatch
  <2>1. PICK doc : hunt' = [hunt EXCEPT !.doc = doc]
    BY <1>3 DEF Dispatch
  <2>2. hpc = "idle" /\ hpc' = "gated"
    BY <1>3 DEF Dispatch
  <2>3. /\ hunt'.queue = hunt.queue /\ hunt'.class = hunt.class /\ hunt'.target = hunt.target
        /\ hunt'.saved = hunt.saved /\ hunt'.recorded = hunt.recorded /\ hunt'.touched = hunt.touched
    BY <1>1, <2>1 DEF HuntLocals
  <2>4. Ahead' = Ahead
    BY <2>3 DEF Ahead
  <2>5. QueueSound' /\ Reported' /\ TrueToDisk'
    BY <1>1, <2>2, <2>3, <2>4 DEF TellInv, QueueSound, Reported, TrueToDisk, ReadBy, Whole, Hunted, Working
  <2> QED BY <2>2, <2>3, <2>5 DEF TellInv
<1>4. CASE EditSource
  <2>1. hpc' = hpc /\ hunt' = hunt
    BY <1>4 DEF EditSource, huntVars
  <2> QED BY <1>1, <2>1 DEF TellInv, QueueSound, Reported, TrueToDisk, ReadBy, Whole, Hunted, Ahead, InOutcomes
<1>5. CASE Refuse
  <2>1. hpc = "gated" /\ hpc' = "closed" /\ hunt' = hunt /\ hunt.class = NoClass
    BY <1>5 DEF Refuse, TellInv, QueueSound
  <2>2. (\A i \in Ids : ~Hunted(i)) /\ \A r \in coverage : r.by # "hunt"
    BY <2>1 DEF IInv, Gates
  <2>3. QueueSound' /\ TrueToDisk'
    BY <1>1, <2>1 DEF TellInv, QueueSound, TrueToDisk, ReadBy, Ahead, Working
  <2>4. Reported'
    BY <1>1, <2>1, <2>2 DEF Reported, Whole, Hunted
  <2> QED BY <1>1, <2>1, <2>2, <2>3, <2>4 DEF TellInv, Hunted
<1>6. CASE Derive
  <2>1. /\ hpc = "gated" /\ hpc' = "number" /\ Huntable(findings[SourceFinding])
        /\ hunt' = Targeted([hunt EXCEPT !.class = findings[SourceFinding].class,
                                         !.locus = findings[SourceFinding].place], Source)
    BY <1>6 DEF Derive
  <2>2. (\A i \in Ids : ~Hunted(i)) /\ \A r \in coverage : r.by # "hunt"
    BY <2>1 DEF IInv, Gates
  <2>3. /\ hunt'.queue = hunt.queue /\ hunt'.class # NoClass /\ hunt'.target = Source
        /\ hunt'.saved = {} /\ hunt'.recorded = {}
    BY <1>1, <2>1 DEF Huntable, Targeted, NewBatch, HuntLocals
  <2>4. hunt.queue = Siblings
    BY <2>1 DEF TellInv, QueueSound
  <2>5. Ahead' = Ahead /\ Source \notin Ahead /\ \A q \in Targets : q = Source \/ q \in Ahead
    BY <2>3, <2>4 DEF Ahead, Targets
  <2>6. QueueSound'
    BY <1>1, <2>1, <2>3, <2>5 DEF TellInv, QueueSound, Working
  <2>7. Reported'
    BY <1>1, <2>2 DEF Reported, Whole, Hunted
  <2>8. TrueToDisk'
    BY <1>1, <2>1, <2>3 DEF TellInv, TrueToDisk, ReadBy
  <2> QED BY <2>1, <2>3, <2>6, <2>7, <2>8 DEF TellInv
<1>7. CASE TeachBack
  <2>1. /\ hpc = "next" /\ hpc' = "closed" /\ hunt.queue = << >>
        /\ hunt' = [hunt EXCEPT !.touched = InOutcomes]
    BY <1>7 DEF TeachBack, InOutcomes
  <2>2. /\ hunt'.queue = hunt.queue /\ hunt'.class = hunt.class /\ hunt'.saved = hunt.saved
        /\ hunt'.touched = InOutcomes
    BY <1>1, <2>1 DEF HuntLocals
  <2>3. hunt.class # NoClass
    BY <2>1, HuntAssumption DEF IInv, Gates
  <2>4. Ahead' = Ahead /\ Ahead = {} /\ InOutcomes' = InOutcomes
    BY <1>1, <2>1, <2>2 DEF Ahead, InOutcomes
  <2>5. QueueSound' /\ Reported' /\ TrueToDisk'
    BY <1>1, <2>1, <2>2, <2>4
       DEF TellInv, QueueSound, Reported, TrueToDisk, ReadBy, Whole, Hunted, Working
  <2> QED BY <2>1, <2>2, <2>3, <2>4, <2>5 DEF TellInv
<1> QED BY <1>3, <1>4, <1>5, <1>6, <1>7

LEMMA AbortTells ==
  ASSUME Aborted, UNCHANGED <<findings, coverage>>
  PROVE  TellInv'
<1>1. hpc' = "aborted" /\ hunt' = HuntStart /\ \A p \in Projects : outcomes'[p] = NoOutcome
  BY DEF Aborted
<1>2. /\ hunt'.saved = {} /\ hunt'.touched = {} /\ hunt'.class = NoClass
      /\ \A p \in Ahead' : outcomes'[p] = NoOutcome
      /\ \A i, j \in DOMAIN hunt'.queue : hunt'.queue[i] = hunt'.queue[j] => i = j
  <2>1. /\ hunt'.saved = {} /\ hunt'.touched = {} /\ hunt'.class = NoClass /\ hunt'.queue = Siblings
    BY <1>1 DEF HuntStart
  <2>2. Ahead' \subseteq Projects
    BY <2>1, HuntAssumption DEF Ahead
  <2> QED BY <1>1, <2>1, <2>2, HuntAssumption
<1> QED BY <1>1, <1>2 DEF TellInv, QueueSound, Reported, TrueToDisk, Working

LEMMA TellInvKept ==
  ASSUME IInv, Kempt, TellInv, [Next]_vars
  PROVE  TellInv'
<1>1. CASE Number \/ Filter \/ PageDetail \/ LedgerPrimitive
  <2>1. /\ UNCHANGED <<findings, coverage, outcomes>> /\ hpc \in Working /\ hpc' \in Working
        /\ hpc' \in {"number", "work"} => hpc \in {"number", "work"}
    BY <1>1 DEF Number, Filter, PageDetail, LedgerPrimitive, Working
  <2>2. UNCHANGED <<hunt.queue, hunt.class, hunt.target, hunt.saved, hunt.recorded, hunt.touched>>
    BY <1>1 DEF Number, Filter, PageDetail, LedgerPrimitive, IInv, Typed, HuntLocals
  <2> QED BY <2>1, <2>2, TellsTheSame
<1>2. CASE SourceGone \/ Interrupt \/ \E p \in Projects : SiblingTorn(p)
  BY <1>2, AbortTells DEF SourceGone, Interrupt, SiblingTorn
<1>3. CASE Discover /\ UNCHANGED huntVars
  <2>1. CASE UNCHANGED findings
    <3>1. coverage' = coverage \/ \E r : r.by = "discover" /\ coverage' = coverage \cup {r}
      BY <1>3, <2>1 DEF Discover, Begin, NothingToRead, ReadSarif, SaveCandidate, TearCandidate,
                        IngestEnvelope, RecordArea, DiscoverReturns, DiscoverRaises
    <3> QED BY <1>3, <2>1, <3>1, DiscoverTellsNot
  <2>2. ASSUME NEW i \in disc.todo, disc.found[i].id \in Ids, UNCHANGED coverage,
               SaveFinding(disc.found[i], "discover") \/ TearFinding(disc.found[i], "discover")
        PROVE  TellInv'
    <3>1. PICK id : id = disc.found[i].id
      OBVIOUS
    <3>2. /\ findings'[id] # NoFinding /\ findings'[id].by = "discover"
          /\ \A j \in Ids \ {id} : findings'[j] = findings[j]
      BY <2>2, <3>1, CandidateWritten
    <3>3. \A j \in Ids : /\ Hunted(j)' => findings'[j] = findings[j]
                         /\ findings[j] # NoFinding => findings'[j] # NoFinding
      BY <3>2 DEF Hunted
    <3> QED BY <1>3, <2>2, <3>3, DiscoverTellsNot
  <2> QED BY <1>3, <2>1, <2>2
          DEF Discover, Begin, NothingToRead, ReadSarif, SaveCandidate, TearCandidate,
              IngestEnvelope, RecordArea, DiscoverReturns, DiscoverRaises
<1>4. CASE UNCHANGED vars
  BY <1>4, DiscoverTellsNot DEF vars
<1> QED BY <1>1, <1>2, <1>3, <1>4, SaveTells, ReadTells, OutcomeTells, PopTells, FramesTell
        DEF Next, HuntStep

LEMMA InitTells == Init => TellInv /\ DiscTold
<1> SUFFICES ASSUME Init PROVE TellInv /\ DiscTold
  OBVIOUS
<1>1. /\ coverage = {} /\ dpc = "idle" /\ disc = DiscStart /\ hpc = "idle" /\ hunt = HuntStart
      /\ \A p \in Projects : outcomes[p] = NoOutcome
  BY DEF Init, DiscoverInit
<1>2. \A i \in Ids : findings[i] # NoFinding => findings[i].by = "earlier"
  BY HuntAssumption DEF Init
<1>3. /\ hunt.saved = {} /\ hunt.recorded = {} /\ hunt.touched = {} /\ hunt.class = NoClass
      /\ hunt.queue = Siblings
  BY <1>1 DEF HuntStart
<1>4. Ahead \subseteq Projects
  BY <1>3, HuntAssumption DEF Ahead
<1>5. TellInv
  BY <1>1, <1>2, <1>3, <1>4, HuntAssumption
     DEF TellInv, QueueSound, Reported, TrueToDisk, Whole, Hunted, Working
<1>6. DiscTold
  BY <1>1, <1>2 DEF DiscTold, DiscStart, NoCandidates
<1> QED BY <1>5, <1>6

LEMMA TellInvHolds == Spec => [](IInv /\ Kempt /\ TellInv /\ DiscTold)
<1>1. IInv /\ Kempt /\ TellInv /\ DiscTold /\ [Next]_vars => (IInv /\ Kempt /\ TellInv /\ DiscTold)'
  BY IInvKept, KemptKept, TellInvKept, DiscToldKept
<1> QED BY InitSound, InitTells, <1>1, PTL DEF Spec

\* A closed session reports what it left on disk, of each command, and nothing
\* else, for any siblings, workers and failures.
THEOREM SessionsAccount == Spec => []AccountedFor
<1>1. IInv /\ Kempt /\ TellInv /\ DiscTold => AccountedFor
  <2> SUFFICES ASSUME IInv, Kempt, TellInv, DiscTold PROVE AccountedFor
    OBVIOUS
  <2>1. ASSUME hpc = "closed"
        PROVE  /\ \A i \in Ids : Hunted(i) /\ findings[i].status # "torn" => i \in hunt.touched
               /\ \A i \in hunt.touched : findings[i] # NoFinding
    <3>1. CASE hunt.class = NoClass
      BY <2>1, <3>1 DEF TellInv
    <3>2. CASE hunt.class # NoClass
      <4>1. hunt.touched = InOutcomes
        BY <2>1, <3>2 DEF TellInv
      <4>2. ASSUME NEW i \in Ids, Whole(i) PROVE i \in InOutcomes
        <5>1. findings[i].project \in Projects
          BY <4>2 DEF Whole, Hunted, IInv, Typed, Record
        <5>2. outcomes[findings[i].project] # NoOutcome /\ i \in outcomes[findings[i].project].findings
          BY <2>1, <4>2 DEF TellInv, Reported, Working
        <5> QED BY <5>1, <5>2 DEF InOutcomes
      <4>3. \A i \in InOutcomes : findings[i] # NoFinding
        BY DEF TellInv, TrueToDisk, InOutcomes
      <4> QED BY <4>1, <4>2, <4>3 DEF Whole
    <3> QED BY <3>1, <3>2
  <2>2. ASSUME dpc = "closed"
        PROVE  /\ \A i \in Ids : findings[i] # NoFinding /\ findings[i].by = "discover" => i \in disc.touched
               /\ \A i \in disc.touched : findings[i] # NoFinding
    BY <2>2 DEF DiscTold
  <2> QED BY <2>1, <2>2 DEF AccountedFor
<1> QED BY <1>1, TellInvHolds, PTL

\* A hunt answers for every target it was given, and its outcomes are what is on
\* disk, for any queue of siblings.
THEOREM OutcomesAreComplete == Spec => []OutcomesTellAll
<1>1. IInv /\ Kempt /\ TellInv /\ DiscTold => OutcomesTellAll
  <2> SUFFICES ASSUME IInv, TellInv, hpc = "closed", hunt.class # NoClass,
                      NEW p \in {Source} \cup {Siblings[k] : k \in 1 .. Len(Siblings)}
               PROVE  /\ outcomes[p] # NoOutcome
                      /\ \A i \in Ids : Hunted(i) /\ findings[i].project = p /\ findings[i].status # "torn"
                            => outcomes[p].proceeded /\ i \in outcomes[p].findings
                      /\ {r.area : r \in {c \in coverage : c.by = "hunt" /\ c.project = p}}
                            = outcomes[p].areas
    BY DEF OutcomesTellAll
  <2>1. p \in Targets /\ p \in Projects
    BY HuntAssumption DEF Targets
  <2>2. outcomes[p] # NoOutcome
    BY <2>1 DEF TellInv, QueueSound, Working
  <2>3. \A i \in Ids : Hunted(i) /\ findings[i].project = p /\ findings[i].status # "torn"
           => outcomes[p].proceeded /\ i \in outcomes[p].findings
    BY DEF TellInv, Reported, Whole, Working
  <2>4. \A r \in coverage : r.by = "hunt" /\ r.project = p => r.area \in outcomes[p].areas
    BY DEF TellInv, Reported, Working
  <2>5. ASSUME NEW a \in outcomes[p].areas
        PROVE  \E r \in coverage : r.by = "hunt" /\ r.project = p /\ r.area = a
    <3>1. [project |-> p, area |-> a, by |-> "hunt"] \in coverage
      BY <2>1, <2>2 DEF TellInv, TrueToDisk, ReadBy
    <3> QED BY <3>1
  <2> QED BY <2>2, <2>3, <2>4, <2>5
<1> QED BY <1>1, TellInvHolds, PTL
-----------------------------------------------------------------------------
\* The in-repo worker answers with every instance that is due, and the firewall
\* keeps it, as long as the ids it numbers from are free.
LEMMA DueIsKept ==
  ASSUME IInv, hpc = "work", hunt.start \in Ids, hunt.target \notin Rogue,
         \A i \in Ids : i >= hunt.start => findings[i] = NoFinding,
         NEW a \in Answers, a.outcome \in RanThrough,
         \A i \in DOMAIN a.findings : a.findings[i].id \in Ids \cup {0},
         NEW place, Due(hunt.target, place)
  PROVE  \E k \in Kept(a) : a.findings[k].place = place
<1> DEFINE found == SarifToFindings(hunt.doc, hunt.target, hunt.start, hunt.scope)
           prims == SarifToPrimitives(hunt.doc, found, hunt.scope)
           same  == {i \in DOMAIN prims : prims[i].kind = hunt.class}
<1>1. /\ hunt.doc # NoDoc /\ hunt.doc \in Docs \cup HuntDocs /\ hunt.target \in Projects
      /\ hunt.start \in Nat /\ hunt.scope \in SUBSET Areas
      /\ hunt.scope = Contained(registry[hunt.target].scope, Escaping[hunt.target])
      /\ hunt.class \in Classes
  BY DEF IInv, Typed, HuntLocals, Gates, Working, Due
<1>2. a = SameClass
  <2>1. Nothing("blocked", {}).outcome = "blocked"
    BY DEF Nothing
  <2> QED BY <1>1, <2>1 DEF Answers, RanThrough
<1>3. PICK i \in Accepted(hunt.doc, hunt.scope) : hunt.doc[i].class = hunt.class /\ hunt.doc[i].place = place
  BY <1>1 DEF Due
<1>4. place # NoPlace /\ (hunt.target = Source => place # hunt.locus)
  BY DEF Due
<1>5. /\ DOMAIN found = Accepted(hunt.doc, hunt.scope) /\ DOMAIN found \subseteq Nat
      /\ \A j, k \in DOMAIN found : found[j].id = found[k].id => j = k
      /\ \A j \in DOMAIN found : found[j].id >= hunt.start
  BY <1>1, FoundTyped
<1>6. /\ found[i].project = hunt.target /\ found[i].place = place /\ found[i].status = "candidate"
  BY <1>3 DEF SarifToFindings
<1>7. /\ DOMAIN prims = {j \in DOMAIN found : hunt.doc[j].class # NoClass}
      /\ \A j \in DOMAIN prims : prims[j].kind = hunt.doc[j].class /\ prims[j].ref = found[j].id
  BY <1>5 DEF SarifToPrimitives
<1> HIDE DEF found, prims
<1>8. /\ a.findings = [j \in same |-> found[j]] /\ a.primitives = [j \in same |-> prims[j]]
      /\ a.written = {found[j].id : j \in same}
  BY <1>2 DEF SameClass, found, prims
<1>9. i \in same
  BY <1>1, <1>3, <1>5, <1>7, HuntAssumption
<1>10. same \subseteq DOMAIN found
  BY <1>7
<1>11. /\ a.findings[i] = found[i] /\ i \in DOMAIN a.findings /\ i \in DOMAIN a.primitives
       /\ a.primitives[i].kind = hunt.class /\ a.primitives[i].ref = found[i].id
       /\ found[i].id \in a.written /\ DOMAIN a.findings = same
       /\ \A j \in same : a.findings[j] = found[j]
  BY <1>7, <1>8, <1>9
<1> HIDE DEF same
<1>12. found[i].id \in Ids /\ findings[found[i].id] = NoFinding
  <2>1. found[i].id >= hunt.start /\ found[i].id \in Ids \cup {0} /\ hunt.start >= 1
    BY <1>5, <1>9, <1>10, <1>11 DEF Ids
  <2> QED BY <1>1, <2>1
<1>13. Admitted(a, a.findings[i])
  <2>1. Credible(a, a.findings[i])
    BY <1>6, <1>11, <1>12 DEF Credible, Bound
  <2>2. Located(place, hunt.scope)
    BY <1>3, <1>4 DEF Accepted, InScope, Located
  <2> QED BY <1>6, <1>11, <1>12, <2>1, <2>2 DEF Admitted
<1>14. \A j \in DOMAIN a.findings : j < i => a.findings[j].id # a.findings[i].id
  <2> SUFFICES ASSUME NEW j \in same, j < i PROVE found[j].id # found[i].id
    BY <1>11
  <2>1. j # i
    BY <1>5, <1>9, <1>10
  <2> QED BY <1>5, <1>9, <1>10, <2>1
<1>15. i \in Kept(a)
  BY <1>4, <1>6, <1>11, <1>13, <1>14 DEF Kept
<1> QED BY <1>6, <1>11, <1>15
-----------------------------------------------------------------------------
LEMMA DueIsTheSame ==
  ASSUME UNCHANGED <<registry, hunt.doc, hunt.class, hunt.locus>>, NEW p, NEW place
  PROVE  Due(p, place)' <=> Due(p, place)
  BY DEF Due

LEMMA FiledStays ==
  ASSUME NEW p, NEW place, Filed(p, place),
         \A j \in Ids : Hunted(j) /\ findings[j].project = p => findings'[j] = findings[j]
  PROVE  Filed(p, place)'
  BY DEF Filed, Hunted

\* What was promised of a target stays so, when its outcome and its findings do.
LEMMA PromiseStays ==
  ASSUME FiledInv, UNCHANGED <<registry, hunt.doc, hunt.class, hunt.locus>>, raced \subseteq raced',
         NEW p \in Projects, p \notin Rogue \cup raced',
         \A j \in Ids : Hunted(j) /\ findings[j].project = p => findings'[j] = findings[j],
         outcomes'[p] = outcomes[p] \/ outcomes'[p].reason \notin RanThrough,
         outcomes'[p] # NoOutcome, outcomes'[p].reason \in RanThrough,
         NEW place \in Places, Due(p, place)'
  PROVE  Filed(p, place)'
<1>1. Due(p, place)
  BY DueIsTheSame
<1>2. Filed(p, place)
  BY <1>1 DEF FiledInv, Promised
<1> QED BY <1>2, FiledStays

LEMMA PromisedStays ==
  ASSUME FiledInv, UNCHANGED <<registry, hunt.doc, hunt.class, hunt.locus>>, raced \subseteq raced',
         \A p \in Projects \ raced' :
             /\ outcomes'[p] = outcomes[p] \/ outcomes'[p].reason \notin RanThrough
             /\ \A j \in Ids : Hunted(j) /\ findings[j].project = p => findings'[j] = findings[j]
  PROVE  Promised'
  BY PromiseStays DEF Promised

\* DISCOVER breaks no promise: a target whose batch it disturbs is in raced.
LEMMA DiscoverFiles ==
  ASSUME IInv, Kempt, FiledInv, Discover, UNCHANGED huntVars, raced' = raced \cup Disturbed
  PROVE  FiledInv'
<1>1. /\ hpc' = hpc /\ hunt' = hunt /\ outcomes' = outcomes /\ raced \subseteq raced'
  BY DEF huntVars
<1>2. registry' = registry
  BY DEF Discover, Begin, NothingToRead, ReadSarif, SaveCandidate, TearCandidate,
         IngestEnvelope, RecordArea, DiscoverReturns, DiscoverRaises
<1>3. findings' # findings =>
         /\ hpc \in {"work", "saving"} => hunt.target \in raced'
         /\ \A j \in Ids : findings'[j] # findings[j] /\ findings[j] # NoFinding
              => findings[j].project \in raced'
  BY DEF Disturbed
<1>4. \A p \in Projects \ raced' : \A j \in Ids :
         Hunted(j) /\ findings[j].project = p => findings'[j] = findings[j]
  BY <1>3 DEF Hunted
<1>5. Promised'
  BY <1>1, <1>2, <1>4, PromisedStays
<1>6. FreeAhead'
  BY <1>1, <1>3 DEF FiledInv, FreeAhead
<1>7. Underway'
  <2> SUFFICES ASSUME hpc \in {"saving", "covering"}, hunt.target \notin Rogue \cup raced',
                      hunt.reason \in RanThrough, NEW place \in Places, Due(hunt.target, place)'
               PROVE  Filed(hunt.target, place)' \/ \E k \in hunt.todo : hunt.kept[k].place = place
    BY <1>1 DEF Underway
  <2>1. PICK t \in Projects : t = hunt.target
    BY DEF IInv, Typed, HuntLocals
  <2>2. Due(t, place)
    BY <1>1, <1>2, <2>1, DueIsTheSame
  <2>3. Filed(t, place) \/ \E k \in hunt.todo : hunt.kept[k].place = place
    BY <1>1, <2>1, <2>2 DEF FiledInv, Underway
  <2>4. ASSUME Filed(t, place) PROVE Filed(t, place)'
    BY <1>1, <1>4, <2>1, <2>4, FiledStays
  <2> QED BY <1>1, <2>1, <2>3, <2>4
<1> QED BY <1>1, <1>5, <1>6, <1>7 DEF FiledInv

\* Within a target, up to its outcome.
LEMMA BatchFiles ==
  ASSUME IInv, Kempt, FiledInv, UNCHANGED raced,
         Number \/ Filter \/ SaveVariant \/ PageDetail \/ RecordRead \/ LedgerPrimitive
  PROVE  FiledInv'
<1>1. /\ UNCHANGED <<registry, outcomes>> /\ hpc \in Working /\ hpc' \in Working /\ hunt \in HuntLocals
  BY DEF Number, Filter, SaveVariant, PageDetail, RecordRead, LedgerPrimitive, Working, IInv, Typed
<1>2. /\ hunt'.doc = hunt.doc /\ hunt'.class = hunt.class /\ hunt'.locus = hunt.locus
      /\ hunt'.target = hunt.target
  BY <1>1 DEF Number, Filter, SaveVariant, PageDetail, RecordRead, LedgerPrimitive, HuntLocals
<1>3. \A j \in Ids : Hunted(j) => findings'[j] = findings[j]
  <2>1. CASE UNCHANGED findings
    BY <2>1
  <2>2. CASE SaveVariant
    <3>1. PICK i \in hunt.todo : SaveFinding(hunt.kept[i], "hunt")
      BY <2>2 DEF SaveVariant
    <3>2. PICK id : id = hunt.kept[i].id
      OBVIOUS
    <3>3. hpc = "saving"
      BY <2>2 DEF SaveVariant
    <3> QED BY <3>1, <3>2, <3>3, VariantWritten
  <2> QED BY <2>1, <2>2 DEF Number, Filter, PageDetail, RecordRead, LedgerPrimitive
<1>4. Promised'
  BY <1>1, <1>2, <1>3, PromisedStays
<1>5. FreeAhead'
  <2>1. CASE Number
    <3>1. PICK n \in Ids : NextIndex(n) /\ hunt' = [hunt EXCEPT !.start = n] /\ UNCHANGED findings
      BY <2>1 DEF Number
    <3>2. hunt'.start = n /\ \A i \in Ids : i >= n => findings[i] = NoFinding
      BY <1>1, <3>1 DEF NextIndex, Ids, HuntLocals
    <3> QED BY <3>1, <3>2 DEF FreeAhead
  <2>2. CASE ~Number
    BY <2>2 DEF Filter, SaveVariant, PageDetail, RecordRead, LedgerPrimitive, FreeAhead
  <2> QED BY <2>1, <2>2
<1>6. Underway'
  <2> SUFFICES ASSUME hpc' \in {"saving", "covering"}, hunt.target \notin Rogue \cup raced,
                      hunt'.reason \in RanThrough, NEW place \in Places,
                      NEW t \in Projects, t = hunt.target, Due(t, place)'
               PROVE  Filed(t, place)' \/ \E k \in hunt'.todo : hunt'.kept[k].place = place
    <3>1. hunt.target \in Projects
      BY <1>1 DEF HuntLocals
    <3> QED BY <1>2, <3>1 DEF Underway
  <2>1. Due(t, place)
    BY <1>1, <1>2, DueIsTheSame
  <2>2. Filed(t, place) => Filed(t, place)'
    BY <1>3, FiledStays
  <2>3. CASE Filter
    <3>1. PICK a \in Answers :
            /\ \A i \in DOMAIN a.findings : a.findings[i].id \in Ids \cup {0}
            /\ hunt' = [hunt EXCEPT !.kept = [i \in Kept(a) |-> a.findings[i]],
                                    !.todo = Kept(a), !.prims = Normalised(a, Kept(a)),
                                    !.areas = a.areas \cap hunt.scope, !.reason = a.outcome]
      BY <2>3 DEF Filter
    <3>2. /\ hunt'.todo = Kept(a) /\ hunt'.reason = a.outcome
          /\ hunt'.kept = [i \in Kept(a) |-> a.findings[i]]
      BY <1>1, <3>1 DEF HuntLocals
    <3>3. /\ hpc = "work" /\ hunt.start \in Ids
          /\ \A i \in Ids : i >= hunt.start => findings[i] = NoFinding
      BY <2>3 DEF Filter, FiledInv, FreeAhead
    <3>4. PICK k \in Kept(a) : a.findings[k].place = place
      BY <2>1, <3>1, <3>2, <3>3, DueIsKept
    <3> QED BY <3>2, <3>4
  <2>4. CASE SaveVariant
    <3>1. PICK i \in hunt.todo :
            /\ SaveFinding(hunt.kept[i], "hunt")
            /\ hunt' = [hunt EXCEPT !.todo = @ \ {i}, !.saved = @ \cup {hunt.kept[i].id}]
      BY <2>4 DEF SaveVariant
    <3>2. hpc = "saving"
      BY <2>4 DEF SaveVariant
    <3>3. hunt'.todo = hunt.todo \ {i} /\ hunt'.kept = hunt.kept /\ hunt'.reason = hunt.reason
      BY <1>1, <3>1 DEF HuntLocals
    <3>4. Filed(t, place) \/ \E k \in hunt.todo : hunt.kept[k].place = place
      BY <2>1, <3>2, <3>3 DEF FiledInv, Underway
    <3>5. ASSUME hunt.kept[i].place = place PROVE Filed(t, place)'
      <4>1. PICK id : id = hunt.kept[i].id
        OBVIOUS
      <4>2. /\ id \in Ids /\ findings'[id] # NoFinding /\ findings'[id].by = "hunt"
            /\ findings'[id].project = t /\ findings'[id].place = place
        BY <3>1, <3>2, <3>5, <4>1, VariantWritten
      <4> QED BY <4>2 DEF Filed, Hunted
    <3> QED BY <2>2, <3>3, <3>4, <3>5
  <2>5. CASE PageDetail \/ RecordRead \/ LedgerPrimitive
    <3>1. /\ hpc \in {"saving", "covering"} /\ hunt'.todo = hunt.todo /\ hunt'.kept = hunt.kept
          /\ hunt'.reason = hunt.reason
      BY <1>1, <2>5 DEF PageDetail, RecordRead, LedgerPrimitive, HuntLocals
    <3>2. Filed(t, place) \/ \E k \in hunt.todo : hunt.kept[k].place = place
      BY <2>1, <3>1 DEF FiledInv, Underway
    <3> QED BY <2>2, <3>1, <3>2
  <2> QED BY <2>3, <2>4, <2>5 DEF Number
<1> QED BY <1>1, <1>4, <1>5, <1>6 DEF FiledInv, Working

\* A target is left: only one that ran through promises anything.
LEMMA OutcomeFiles ==
  ASSUME IInv, Kempt, FiledInv, UNCHANGED raced, Reject \/ Conclude \/ TargetFails
  PROVE  FiledInv'
<1>1. /\ UNCHANGED registry /\ hpc \in Working /\ hpc' = "next" /\ hunt' = NewBatch(hunt)
      /\ hunt \in HuntLocals
  BY DEF Reject, Conclude, TargetFails, Answered, Working, IInv, Typed
<1>2. hunt'.doc = hunt.doc /\ hunt'.class = hunt.class /\ hunt'.locus = hunt.locus
  BY <1>1 DEF NewBatch, HuntLocals
<1>3. PICK t \in Projects : t = hunt.target
  BY <1>1 DEF HuntLocals
<1>4. \A j \in Ids : Hunted(j) => findings'[j] = findings[j]
  <2>1. CASE UNCHANGED findings
    BY <2>1
  <2>2. ASSUME hpc = "saving", NEW i \in hunt.todo, TearFinding(hunt.kept[i], "hunt")
        PROVE  \A j \in Ids : Hunted(j) => findings'[j] = findings[j]
    <3>1. PICK id : id = hunt.kept[i].id
      OBVIOUS
    <3> QED BY <2>2, <3>1, VariantWritten
  <2> QED BY <2>1, <2>2 DEF Reject, Conclude, TargetFails
<1>5. Promised'
  <2>1. CASE Reject \/ TargetFails
    <3>1. \A p \in Projects : outcomes'[p] = outcomes[p] \/ outcomes'[p].reason \notin RanThrough
      BY <2>1 DEF Reject, TargetFails, Answered, Outcome, RanThrough, Kempt
    <3> QED BY <1>1, <1>2, <1>4, <3>1, PromisedStays
  <2>2. CASE Conclude
    <3>1. /\ \A p \in Projects \ {t} : outcomes'[p] = outcomes[p]
          /\ outcomes'[t].reason = hunt.reason
          /\ hpc = "covering"
      BY <1>3, <2>2 DEF Conclude, Answered, Outcome, Kempt
    <3>2. hunt.todo = {}
      BY <3>1 DEF IInv, BatchSound
    <3> SUFFICES ASSUME NEW p \in Projects \ (Rogue \cup raced), outcomes'[p] # NoOutcome,
                        outcomes'[p].reason \in RanThrough, NEW place \in Places, Due(p, place)'
                 PROVE  Filed(p, place)'
      BY DEF Promised
    <3>3. Due(p, place)
      BY <1>1, <1>2, DueIsTheSame
    <3>4. Filed(p, place)
      BY <1>3, <3>1, <3>2, <3>3 DEF FiledInv, Underway, Promised
    <3> QED BY <1>4, <3>4, FiledStays
  <2> QED BY <2>1, <2>2
<1> QED BY <1>1, <1>5 DEF FiledInv, FreeAhead, Underway

\* Between targets, and after the last one.
LEMMA PopFiles ==
  ASSUME IInv, Kempt, FiledInv, UNCHANGED raced,
         TeachBack \/ \E p \in Projects : PassOver(p) \/ GateStops(p) \/ GatePasses(p)
  PROVE  FiledInv'
<1>1. /\ UNCHANGED <<registry, findings>> /\ hpc = "next" /\ hpc' \in {"next", "number", "closed"}
      /\ hunt \in HuntLocals
  BY DEF PassOver, GateStops, GatePasses, TeachBack, Sibling, Answered, IInv, Typed
<1>2. hunt'.doc = hunt.doc /\ hunt'.class = hunt.class /\ hunt'.locus = hunt.locus
  BY <1>1 DEF PassOver, GateStops, GatePasses, TeachBack, Popped, Targeted, NewBatch, HuntLocals
<1>3. \A q \in Projects : outcomes'[q] = outcomes[q] \/ outcomes'[q].reason \notin RanThrough
  <2>1. UNCHANGED outcomes \/ \E p \in Projects, reason \in {"skipped", "error", "hold", "refuse"} :
           outcomes' = [outcomes EXCEPT ![p] = Outcome(FALSE, reason, {}, {})]
    BY DEF PassOver, GateStops, GatePasses, TeachBack, Answered, Evaluate
  <2> QED BY <2>1 DEF Outcome, RanThrough, Kempt
<1>4. Promised'
  BY <1>1, <1>2, <1>3, PromisedStays
<1> QED BY <1>1, <1>4 DEF FiledInv, FreeAhead, Underway

\* Without an outcome nothing is promised.
LEMMA NothingPromised ==
  ASSUME \A p \in Projects : outcomes'[p] = NoOutcome, hpc' \notin Working \ {"number"}
  PROVE  FiledInv'
  BY DEF FiledInv, FreeAhead, Underway, Promised, Working

LEMMA FiledInvKept ==
  ASSUME IInv, Kempt, FiledInv, [Next]_vars
  PROVE  FiledInv'
<1>1. CASE UNCHANGED vars
  <2>1. UNCHANGED <<registry, findings, outcomes, raced, hpc, hunt>>
    BY <1>1 DEF vars, huntVars
  <2> QED BY <2>1 DEF FiledInv, FreeAhead, Underway, Promised, Due, Filed, Hunted
<1>2. CASE Discover /\ raced' = raced \cup Disturbed /\ UNCHANGED huntVars
  BY <1>2, DiscoverFiles
<1>3. CASE (Dispatch \/ EditSource \/ Refuse \/ Derive) /\ UNCHANGED raced
  <2>1. hpc \in {"idle", "gated"} /\ outcomes' = outcomes /\ hpc' \in {"gated", "closed", "number"}
    BY <1>3 DEF Dispatch, EditSource, Refuse, Derive, huntVars
  <2> QED BY <2>1, NothingPromised DEF FiledInv, Working
<1>4. CASE SourceGone \/ Interrupt \/ \E p \in Projects : SiblingTorn(p)
  BY <1>4, NothingPromised DEF SourceGone, Interrupt, SiblingTorn, Aborted, Working
<1> QED BY <1>1, <1>2, <1>3, <1>4, BatchFiles, OutcomeFiles, PopFiles DEF Next, HuntStep

LEMMA FiledInvHolds == Spec => [](IInv /\ Kempt /\ FiledInv)
<1>1. Init => FiledInv
  <2> SUFFICES ASSUME Init PROVE FiledInv
    OBVIOUS
  <2>1. hpc = "idle" /\ \A p \in Projects : outcomes[p] = NoOutcome
    BY DEF Init
  <2> QED BY <2>1 DEF FiledInv, FreeAhead, Underway, Promised
<1>2. IInv /\ Kempt /\ FiledInv /\ [Next]_vars => (IInv /\ Kempt /\ FiledInv)'
  BY IInvKept, KemptKept, FiledInvKept
<1> QED BY InitSound, <1>1, <1>2, PTL DEF Spec

\* A target reported as resolved or empty has every instance that was due on
\* disk, for any SARIF, scopes and siblings, unless DISCOVER came between.
THEOREM VariantsAreFiled == Spec => []VariantsFiled
<1>1. IInv /\ Kempt /\ FiledInv => VariantsFiled
  <2> SUFFICES ASSUME IInv, FiledInv, NEW p \in Projects \ (Rogue \cup raced),
                      outcomes[p] # NoOutcome, outcomes[p].reason \in {"resolved", "empty"},
                      hunt.doc # NoDoc,
                      NEW i \in Accepted(hunt.doc, Contained(registry[p].scope, Escaping[p])),
                      hunt.doc[i].class = hunt.class, hunt.doc[i].place # NoPlace,
                      p = Source => hunt.doc[i].place # hunt.locus
               PROVE  \E id \in Ids : /\ Hunted(id) /\ findings[id].project = p
                                      /\ findings[id].place = hunt.doc[i].place
    BY DEF VariantsFiled
  <2>1. hunt.doc \in Docs \cup HuntDocs
    BY DEF IInv, Typed, HuntLocals
  <2>2. hunt.doc[i] \in Result
    BY <2>1, DocTyped DEF Accepted
  <2>3. PICK place : place = hunt.doc[i].place
    OBVIOUS
  <2>4. place \in Places
    BY <2>2, <2>3 DEF Result
  <2>5. Due(p, place)
    BY <2>3 DEF Due
  <2>6. Filed(p, place)
    BY <2>4, <2>5 DEF FiledInv, Promised, RanThrough
  <2> QED BY <2>3, <2>6 DEF Filed
<1> QED BY <1>1, FiledInvHolds, PTL
=============================================================================
