-------------------------- MODULE FindingLifecycle --------------------------
(***************************************************************************)
(* The finding record as far as its lifecycle reads it, and the guard the  *)
(* store puts on its status (src/deepthought/store/base.py, filestore.py). *)
(* A reference to evidence is the number of the session whose detail file  *)
(* it names, 0 for the absent reference.                                   *)
(***************************************************************************)
EXTENDS Naturals, Sequences

Status == {"candidate", "verified", "disclosed", "patched"}

FORWARD_EDGES == {<<"candidate", "verified">>,
                  <<"verified", "disclosed">>, <<"verified", "patched">>}

BACKWARD_EDGES == {<<e[2], e[1]>> : e \in FORWARD_EDGES}

RefKinds == {"cve", "advisory", "fix"}

LogEntry == [from : Status, to : Status, accepted : BOOLEAN]

Finding == [status : Status, evidence : Nat, refs : SUBSET RefKinds, log : Seq(LogEntry)]

\* What DISCOVER and SIBLING HUNT store: a candidate without evidence.
NewCandidate == [status |-> "candidate", evidence |-> 0, refs |-> {}, log |-> <<>>]

\* Mutant: candidate -> verified is checked for its edge, not for its evidence.
AllowedUnproven(f, new, resolving) ==
    \/ f.status = new
    \/ <<f.status, new>> \in BACKWARD_EDGES
    \/ f.status = "candidate" /\ new = "verified"
    \/ f.status = "verified" /\ new = "disclosed" /\ {"cve", "advisory"} \subseteq f.refs
    \/ f.status = "verified" /\ new = "patched" /\ {"cve", "fix"} \subseteq f.refs

\* Mutant: either reference is enough to disclose.
AllowedEitherReference(f, new, resolving) ==
    \/ f.status = new
    \/ <<f.status, new>> \in BACKWARD_EDGES
    \/ f.status = "candidate" /\ new = "verified" /\ f.evidence \in resolving
    \/ f.status = "verified" /\ new = "disclosed" /\ {"cve", "advisory"} \cap f.refs # {}
    \/ f.status = "verified" /\ new = "patched" /\ {"cve", "fix"} \subseteq f.refs

\* _evaluate_transition, given the references that resolve.  A no-op and a
\* backward edge are always allowed; a forward edge needs its evidence.
Allowed(f, new, resolving) ==
    \/ f.status = new
    \/ <<f.status, new>> \in BACKWARD_EDGES
    \/ f.status = "candidate" /\ new = "verified" /\ f.evidence \in resolving
    \/ f.status = "verified" /\ new = "disclosed" /\ {"cve", "advisory"} \subseteq f.refs
    \/ f.status = "verified" /\ new = "patched" /\ {"cve", "fix"} \subseteq f.refs

Entry(f, new, ok) == [from |-> f.status, to |-> new, accepted |-> ok]

\* Mutant: a rejected move is logged as rejected and made all the same.
TransitionedAnyway(f, new, resolving) ==
    LET ok == Allowed(f, new, resolving)
    IN [f EXCEPT !.status = new, !.log = Append(@, Entry(f, new, ok))]

\* The record transition_finding saves: the attempt is logged either way, the
\* status moves only when it was allowed.
Transitioned(f, new, resolving) ==
    LET ok == Allowed(f, new, resolving)
    IN [f EXCEPT !.status = IF ok THEN new ELSE @, !.log = Append(@, Entry(f, new, ok))]

\* Mutant: the entry does not say that the attempt was rejected.
UnreproducedUndecided(f) == [f EXCEPT !.log = Append(@, [from |-> f.status, to |-> "verified"])]

\* Mutant: the attempt replaces the log.
UnreproducedFreshLog(f) == [f EXCEPT !.log = <<Entry(f, "verified", FALSE)>>]

\* The attempt VERIFY logs itself when the repro did not reproduce.
Unreproduced(f) == [f EXCEPT !.log = Append(@, Entry(f, "verified", FALSE))]
-----------------------------------------------------------------------------
After(entry) == IF entry.accepted THEN entry.to ELSE entry.from

\* The log explains the status: read from the candidate every finding starts
\* as, each attempt departs from where the one before it left the finding, and
\* the last one leaves it where it is.
Explained(f) ==
    /\ f.log = <<>> => f.status = "candidate"
    /\ f.log # <<>> => /\ f.log[1].from = "candidate"
                       /\ f.status = After(f.log[Len(f.log)])
    /\ \A i \in 1 .. Len(f.log) : i > 1 => f.log[i].from = After(f.log[i - 1])

\* What check.py demands of the references of an advanced finding at rest.
Referenced(f) ==
    /\ f.status = "disclosed" => {"cve", "advisory"} \subseteq f.refs
    /\ f.status = "patched" => {"cve", "fix"} \subseteq f.refs
=============================================================================
