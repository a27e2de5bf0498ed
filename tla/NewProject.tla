----------------------------- MODULE NewProject -----------------------------
(***************************************************************************)
(* NEW PROJECT (src/deepthought/sessions/new_project.py) over the projects *)
(* of one store (store/filestore.py).  A registration lists the projects   *)
(* twice, once to resolve a repeat and once more inside save_project, asks *)
(* git in between, and only then writes; other registrations and people    *)
(* change the projects meanwhile.  The session record around it is that of *)
(* SessionProtocol and names no project.                                   *)
(***************************************************************************)
EXTENDS Gate

CONSTANTS Procs,        \* processes that register projects
          Ids,          \* safe project ids, named or derived from the identity
          BadId,        \* an explicit id that is not a safe path segment
          Identities,   \* git URLs and local paths
          GitUrls,      \* those that are git URLs
          NoIdentity,   \* neither was given
          Contexts,     \* BOUND: what a person proposes, or edits a record into
          NoProject,    \* an id without a file
          TornProject   \* a file that does not parse

\* A record: what it is the project of, and what the gate reads.
Registration == [identity : Identities, context : StoredContexts]

ASSUME RegistrationAssumption ==
    /\ Contexts \subseteq GateContext
    /\ BadId \notin Ids /\ NoIdentity \notin Identities /\ GitUrls \subseteq Identities
    /\ NoProject # TornProject /\ {NoProject, TornProject} \cap Registration = {}

VARIABLES projects,     \* projects/<id>.md
          npc,          \* where each registration is
          proposal,     \* what it was asked to register
          since         \* history: ids whose file changed since it resolved,
                        \* and since save_project listed

vars == <<projects, npc, proposal, since>>

Proposal == [id : Ids \cup {BadId}, identity : Identities \cup {NoIdentity}, context : Contexts]

NoProposal == [id |-> BadId, identity |-> NoIdentity, context |-> CHOOSE c \in Contexts : TRUE]

Untouched == [resolved |-> {}, scanned |-> {}]

Init == /\ projects = [i \in Ids |-> NoProject]
        /\ npc = [p \in Procs |-> "idle"]
        /\ proposal = [p \in Procs |-> NoProposal]
        /\ since = [p \in Procs |-> Untouched]

\* list_projects parses every file and raises on the first that does not.
Listable == \A i \in Ids : projects[i] # TornProject

OfIdentity(i, identity) == projects[i] \in Registration /\ projects[i].identity = identity

\* The session is over, by return, exception or death: nothing of it is kept.
Left(p) == /\ npc' = [npc EXCEPT ![p] = "idle"]
           /\ proposal' = [proposal EXCEPT ![p] = NoProposal]

\* The file of i becomes new, whatever registrations are under way.
Becomes(i, new, others) ==
    /\ projects' = [projects EXCEPT ![i] = new]
    /\ since' = [p \in Procs |->
          IF p \notin others THEN Untouched
          ELSE [resolved |-> since[p].resolved \cup {i}, scanned |-> since[p].scanned \cup {i}]]

Running == {p \in Procs : npc[p] # "idle"}

\* Ends without a write: the file system is as it was.
Ends(p) == Left(p) /\ since' = [since EXCEPT ![p] = Untouched] /\ UNCHANGED projects
-----------------------------------------------------------------------------
\* Mutant: the gate is not asked, as there is no project yet.
ProposeUngated(p) ==
    /\ npc[p] = "idle"
    /\ \E asked \in Proposal : proposal' = [proposal EXCEPT ![p] = asked]
    /\ npc' = [npc EXCEPT ![p] = "proposed"]
    /\ UNCHANGED <<projects, since>>

\* The gate is asked about the proposal, as there is no project yet; one it
\* holds or refuses changes nothing.
Propose(p) ==
    /\ npc[p] = "idle"
    /\ \E asked \in Proposal :
         /\ Evaluate(asked.context) = "proceed"
         /\ proposal' = [proposal EXCEPT ![p] = asked]
    /\ npc' = [npc EXCEPT ![p] = "proposed"]
    /\ UNCHANGED <<projects, since>>

RefuseId(p) == npc[p] = "proposed" /\ proposal[p].id = BadId /\ Ends(p)

\* resolve_project: a repeat resolves to the record there is.
ResolveExisting(p) == /\ npc[p] = "proposed" /\ proposal[p].id # BadId /\ Listable
                      /\ \E i \in Ids : OfIdentity(i, proposal[p].identity)
                      /\ Ends(p)

\* ... and otherwise, or without an identity to ask for, the registration goes on.
ResolveNew(p) ==
    /\ npc[p] = "proposed" /\ proposal[p].id # BadId
    /\ \/ proposal[p].identity = NoIdentity
       \/ Listable /\ \A i \in Ids : ~OfIdentity(i, proposal[p].identity)
    /\ npc' = [npc EXCEPT ![p] = "resolved"]
    /\ since' = [since EXCEPT ![p] = Untouched]
    /\ UNCHANGED <<projects, proposal>>

\* git ls-remote finds nothing: refused before anything is written.
RefuseUrl(p) == npc[p] = "resolved" /\ proposal[p].identity \in GitUrls /\ Ends(p)

\* The record needs an identity: Project() raises.
Unnamed(p) == npc[p] = "resolved" /\ proposal[p].identity = NoIdentity /\ Ends(p)

\* A file does not parse, so the listing raises.
ListingRaises(p) == /\ npc[p] \in {"proposed", "resolved"} /\ ~Listable
                    /\ proposal[p].id # BadId /\ proposal[p].identity # NoIdentity
                    /\ Ends(p)

\* save_project: another record has the identity, or the id is another's.
Duplicate(p) ==
    LET asked == proposal[p]
    IN \E i \in Ids : /\ projects[i] # NoProject
                      /\ (i = asked.id) # OfIdentity(i, asked.identity)

Collide(p) == /\ npc[p] = "resolved" /\ proposal[p].identity # NoIdentity /\ Listable
              /\ Duplicate(p)
              /\ Ends(p)

\* Mutant: only the identity is compared, not the id.
ScanIdentities(p) ==
    /\ npc[p] = "resolved" /\ proposal[p].identity # NoIdentity /\ Listable
    /\ \A i \in Ids : OfIdentity(i, proposal[p].identity) => i = proposal[p].id
    /\ npc' = [npc EXCEPT ![p] = "scanned"]
    /\ since' = [since EXCEPT ![p].scanned = {}]
    /\ UNCHANGED <<projects, proposal>>

\* Mutant: resolve_project is trusted to have found every duplicate.
ScanIds(p) ==
    /\ npc[p] = "resolved" /\ proposal[p].identity # NoIdentity /\ Listable
    /\ \A i \in Ids : i = proposal[p].id /\ projects[i] # NoProject => OfIdentity(i, proposal[p].identity)
    /\ npc' = [npc EXCEPT ![p] = "scanned"]
    /\ since' = [since EXCEPT ![p].scanned = {}]
    /\ UNCHANGED <<projects, proposal>>

\* save_project finds nothing in the way: the record may be written, and one of
\* this id and identity is updated.
Scan(p) ==
    /\ npc[p] = "resolved" /\ proposal[p].identity # NoIdentity /\ Listable
    /\ ~Duplicate(p)
    /\ npc' = [npc EXCEPT ![p] = "scanned"]
    /\ since' = [since EXCEPT ![p].scanned = {}]
    /\ UNCHANGED <<projects, proposal>>

\* The file is written, whatever is there by now; or the process dies in it.
Write(p) ==
    /\ npc[p] = "scanned"
    /\ \E new \in {TornProject, [identity |-> proposal[p].identity, context |-> proposal[p].context]} :
         Becomes(proposal[p].id, new, Running \ {p})
    /\ Left(p)

Crash(p) == npc[p] # "idle" /\ Ends(p)

\* A person removes a file, or edits what its record authorizes.
EditProject(i) ==
    /\ \/ projects[i] # NoProject /\ Becomes(i, NoProject, Running)
       \/ /\ projects[i] \in Registration
          /\ \E c \in Contexts \cap StoredContexts :
               Becomes(i, [identity |-> projects[i].identity, context |-> c], Running)
    /\ UNCHANGED <<npc, proposal>>

Register(p) == \/ Propose(p) \/ RefuseId(p) \/ ResolveExisting(p) \/ ResolveNew(p)
               \/ RefuseUrl(p) \/ Unnamed(p) \/ ListingRaises(p) \/ Collide(p)
               \/ Scan(p) \/ Write(p) \/ Crash(p)

Next == (\E p \in Procs : Register(p)) \/ (\E i \in Ids : EditProject(i))

Spec == Init /\ [][Next]_vars
-----------------------------------------------------------------------------
\* Every variable holds a value of its kind.  For projects that is a promise
\* of the gate: it reads a proposal that no schema has seen, and lets none
\* through that the record would refuse.
TypeOK ==
    /\ projects \in [Ids -> Registration \cup {NoProject, TornProject}]
    /\ npc \in [Procs -> {"idle", "proposed", "resolved", "scanned"}]
    /\ proposal \in [Procs -> Proposal \cup {NoProposal}]
    /\ since \in [Procs -> [resolved : SUBSET Ids, scanned : SUBSET Ids]]

\* "Never silently overwrite": what a registration writes over has changed
\* since it resolved its identity; what was there before is kept.
RecordsKept ==
    [][\A p \in Procs : Write(p) /\ projects[proposal[p].id] # NoProject
                           => proposal[p].id \in since[p].resolved]_vars

\* A registration makes a second project of an identity only beside one that
\* was written after its own save_project listed the projects.
DuplicatesAreRaced ==
    [][\A p \in Procs : Write(p) =>
         \A i \in Ids : OfIdentity(i, proposal[p].identity) /\ i # proposal[p].id
                           => i \in since[p].scanned]_vars
=============================================================================
