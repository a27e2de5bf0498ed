-------------------------- MODULE RegistrationProofs --------------------------
(***************************************************************************)
(* NEW PROJECT for any number of registrations, ids, identities and        *)
(* edits: what one of them can only do to a record that raced it.          *)
(***************************************************************************)
EXTENDS NewProject, TLAPS

\* A registration under way was cleared by the gate, and what could be in its
\* way has changed since it looked.
Looked(p) ==
    /\ npc[p] # "idle" => proposal[p] \in Proposal /\ Evaluate(proposal[p].context) = "proceed"
    /\ npc[p] \in {"resolved", "scanned"} => proposal[p].id \in Ids
    /\ npc[p] = "resolved" =>
          \A i \in Ids : OfIdentity(i, proposal[p].identity) => i \in since[p].resolved
    /\ npc[p] = "scanned" =>
          /\ proposal[p].identity \in Identities
          /\ projects[proposal[p].id] # NoProject => proposal[p].id \in since[p].resolved
          /\ \A i \in Ids : OfIdentity(i, proposal[p].identity) /\ i # proposal[p].id
                               => i \in since[p].scanned

IInv == TypeOK /\ \A p \in Procs : Looked(p)

\* The gate refuses what the schema would: a context it lets proceed may be stored.
LEMMA ClearedIsStorable ==
  ASSUME NEW c \in Contexts, Evaluate(c) = "proceed"
  PROVE  c \in StoredContexts
BY RegistrationAssumption DEF Evaluate, Unauthorized, StoredContexts

\* A registration ends without a write.
LEMMA EndsKeeps ==
  ASSUME IInv, NEW p \in Procs, Ends(p)
  PROVE  IInv'
<1>1. TypeOK'
  BY DEF IInv, TypeOK, Ends, Left, Untouched
<1>2. ASSUME NEW q \in Procs PROVE Looked(q)'
  <2>1. CASE q = p
    BY <2>1 DEF IInv, TypeOK, Looked, Ends, Left
  <2>2. CASE q # p
    <3>1. /\ npc'[q] = npc[q] /\ proposal'[q] = proposal[q] /\ since'[q] = since[q]
          /\ projects' = projects
      BY <2>2 DEF IInv, TypeOK, Ends, Left
    <3> QED BY <3>1 DEF IInv, Looked, OfIdentity
  <2> QED BY <2>1, <2>2
<1> QED BY <1>1, <1>2 DEF IInv

\* A file changes: every registration under way takes note of it.
LEMMA BecomesKeeps ==
  ASSUME IInv, NEW i \in Ids, NEW new \in Registration \cup {NoProject, TornProject},
         NEW others \in SUBSET Procs, Becomes(i, new, others),
         npc' \in [Procs -> {"idle", "proposed", "resolved", "scanned"}],
         proposal' \in [Procs -> Proposal \cup {NoProposal}],
         \A q \in Procs : q \notin others => npc'[q] = "idle",
         \A q \in others : npc'[q] = npc[q] /\ proposal'[q] = proposal[q]
  PROVE  IInv'
<1>1. /\ projects' \in [Ids -> Registration \cup {NoProject, TornProject}]
      /\ \A j \in Ids : j # i => projects'[j] = projects[j]
  BY DEF IInv, TypeOK, Becomes
<1>2. /\ since' \in [Procs -> [resolved : SUBSET Ids, scanned : SUBSET Ids]]
      /\ \A q \in others : /\ since'[q].resolved = since[q].resolved \cup {i}
                           /\ since'[q].scanned = since[q].scanned \cup {i}
  BY DEF IInv, TypeOK, Becomes, Untouched
<1>3. ASSUME NEW q \in Procs PROVE Looked(q)'
  <2>1. CASE q \notin others
    BY <2>1 DEF Looked
  <2>2. CASE q \in others
    BY <1>1, <1>2, <2>2 DEF IInv, Looked, OfIdentity
  <2> QED BY <2>1, <2>2
<1> QED BY <1>1, <1>2, <1>3 DEF IInv, TypeOK

\* The two listings of a registration: what each has found is what it knows.
LEMMA ListingKeeps ==
  ASSUME IInv, NEW p \in Procs, Propose(p) \/ ResolveNew(p) \/ Scan(p)
  PROVE  IInv'
<1>1. projects' = projects
  BY DEF Propose, ResolveNew, Scan
<1>2. ASSUME NEW q \in Procs, q # p PROVE Looked(q)'
  <2>1. npc'[q] = npc[q] /\ proposal'[q] = proposal[q] /\ since'[q] = since[q]
    BY <1>2 DEF IInv, TypeOK, Propose, ResolveNew, Scan
  <2> QED BY <1>1, <2>1 DEF IInv, Looked, OfIdentity
<1>3. CASE Propose(p)
  BY <1>1, <1>2, <1>3 DEF IInv, TypeOK, Looked, Propose
<1>4. CASE ResolveNew(p)
  <2>1. TypeOK'
    BY <1>4 DEF IInv, TypeOK, ResolveNew, Untouched
  <2>2. npc'[p] = "resolved" /\ proposal'[p] = proposal[p] /\ npc[p] = "proposed"
    BY <1>4 DEF IInv, TypeOK, ResolveNew
  <2>3. proposal[p] \in Proposal /\ proposal[p].id \in Ids
    BY <1>4, <2>2 DEF IInv, Looked, Proposal, ResolveNew
  <2>4. \A i \in Ids : ~OfIdentity(i, proposal[p].identity)
    BY <1>4, RegistrationAssumption DEF ResolveNew, OfIdentity, Registration
  <2>5. Looked(p)'
    BY <1>1, <2>2, <2>3, <2>4 DEF IInv, Looked, OfIdentity
  <2> QED BY <1>2, <2>1, <2>5 DEF IInv
<1>5. CASE Scan(p)
  <2>1. TypeOK'
    BY <1>5 DEF IInv, TypeOK, Scan
  <2>2. /\ npc'[p] = "scanned" /\ proposal'[p] = proposal[p] /\ npc[p] = "resolved"
        /\ since'[p].resolved = since[p].resolved
    BY <1>5 DEF IInv, TypeOK, Scan
  <2>3. proposal[p] \in Proposal /\ proposal[p].id \in Ids /\ proposal[p].identity \in Identities
    BY <1>5, <2>2 DEF IInv, Looked, Proposal, Scan
  <2>4. \A i \in Ids : projects[i] # NoProject
                          => ((i = proposal[p].id) <=> OfIdentity(i, proposal[p].identity))
    BY <1>5 DEF Scan, Duplicate, OfIdentity
  <2>5. \A i \in Ids : OfIdentity(i, proposal[p].identity) => projects[i] # NoProject
    BY RegistrationAssumption DEF OfIdentity
  <2>6. Looked(p)'
    BY <1>1, <2>2, <2>3, <2>4, <2>5 DEF IInv, Looked, OfIdentity
  <2> QED BY <1>2, <2>1, <2>6 DEF IInv
<1> QED BY <1>3, <1>4, <1>5

\* A record is written, or torn.
LEMMA WriteKeeps ==
  ASSUME IInv, NEW p \in Procs, Write(p)
  PROVE  IInv'
<1>1. npc[p] = "scanned" /\ proposal[p] \in Proposal /\ proposal[p].id \in Ids
      /\ proposal[p].identity \in Identities /\ proposal[p].context \in StoredContexts
  BY ClearedIsStorable DEF IInv, Looked, Proposal, Write
<1>2. PICK new \in Registration \cup {TornProject} : Becomes(proposal[p].id, new, Running \ {p})
  BY <1>1 DEF Write, Registration
<1>3. /\ npc' = [npc EXCEPT ![p] = "idle"]
      /\ proposal' = [proposal EXCEPT ![p] = NoProposal]
  BY DEF Write, Left
<1>4. \A q \in Procs : q \notin Running \ {p} => npc'[q] = "idle"
  BY <1>3 DEF IInv, TypeOK, Running
<1>5. \A q \in Running \ {p} : npc'[q] = npc[q] /\ proposal'[q] = proposal[q]
  BY <1>3 DEF IInv, TypeOK, Running
<1>6. Running \ {p} \in SUBSET Procs
  BY DEF Running
<1> HIDE DEF Running
<1> QED BY <1>1, <1>2, <1>3, <1>4, <1>5, <1>6, BecomesKeeps DEF IInv, TypeOK

\* A person removes a file or edits a record.
LEMMA EditKeeps ==
  ASSUME IInv, NEW i \in Ids, EditProject(i)
  PROVE  IInv'
<1>1. PICK new \in Registration \cup {NoProject} : Becomes(i, new, Running)
  BY DEF EditProject, Registration
<1>2. npc' = npc /\ proposal' = proposal
  BY DEF EditProject
<1>3. \A q \in Procs : q \notin Running => npc'[q] = "idle"
  BY <1>2 DEF Running
<1>4. Running \in SUBSET Procs
  BY DEF Running
<1> HIDE DEF Running
<1> QED BY <1>1, <1>2, <1>3, <1>4, BecomesKeeps DEF IInv, TypeOK

LEMMA IInvHolds == Spec => []IInv
<1>1. Init => IInv
  BY RegistrationAssumption DEF Init, IInv, TypeOK, Looked, Untouched
<1>2. IInv /\ [Next]_vars => IInv'
  <2> SUFFICES ASSUME IInv, [Next]_vars PROVE IInv'
    OBVIOUS
  <2>1. ASSUME NEW p \in Procs, Register(p) PROVE IInv'
    BY <2>1, EndsKeeps, ListingKeeps, WriteKeeps
       DEF Register, RefuseId, ResolveExisting, RefuseUrl, Unnamed, ListingRaises, Collide, Crash
  <2>2. CASE UNCHANGED vars
    BY <2>2 DEF vars, IInv, TypeOK, Looked, OfIdentity
  <2> QED BY <2>1, <2>2, EditKeeps DEF Next
<1> QED BY <1>1, <1>2, PTL DEF Spec
-----------------------------------------------------------------------------
\* Every variable keeps its type; no proposal reaches the schema that it refuses.
THEOREM RegistrationTyping == Spec => []TypeOK
<1>1. IInv => TypeOK
  BY DEF IInv
<1> QED BY <1>1, IInvHolds, PTL

\* A registration overwrites only what changed since it resolved.
THEOREM OverwritesAreRaced == Spec => RecordsKept
<1>1. IInv => \A p \in Procs : Write(p) /\ projects[proposal[p].id] # NoProject
                                 => proposal[p].id \in since[p].resolved
  BY DEF IInv, Looked, Write
<1>2. IInv /\ [Next]_vars => [\A p \in Procs : Write(p) /\ projects[proposal[p].id] # NoProject
                                 => proposal[p].id \in since[p].resolved]_vars
  BY <1>1
<1> QED BY <1>2, IInvHolds, PTL DEF Spec, RecordsKept

\* A registration duplicates only what was written since it listed.
THEOREM OnlyRacesDuplicate == Spec => DuplicatesAreRaced
<1>1. IInv => \A p \in Procs : Write(p) =>
                 \A i \in Ids : OfIdentity(i, proposal[p].identity) /\ i # proposal[p].id
                                   => i \in since[p].scanned
  BY DEF IInv, Looked, Write
<1>2. IInv /\ [Next]_vars => [\A p \in Procs : Write(p) =>
                 \A i \in Ids : OfIdentity(i, proposal[p].identity) /\ i # proposal[p].id
                                   => i \in since[p].scanned]_vars
  BY <1>1
<1> QED BY <1>2, IInvHolds, PTL DEF Spec, DuplicatesAreRaced
=============================================================================
