----------------------------- MODULE SarifIngest -----------------------------
(***************************************************************************)
(* How SARIF becomes candidate findings and suspected primitives           *)
(* (src/deepthought/ingest/sarif.py, with the containment of scope.py).    *)
(* A SARIF document is the sequence of its results.  A result keeps what   *)
(* the ingest tells apart: whether it has a usable message, where it       *)
(* points, and the capability class its rule id and tags map to.  A path   *)
(* is the area of the scope it lies under and the line; a traversal, an    *)
(* absolute path or a foreign scheme lies under no area of any scope.      *)
(***************************************************************************)
EXTENDS Naturals, FiniteSets, Gate

CONSTANTS Lines,        \* lines that tell instances in one area apart
          Classes,      \* the capability taxonomy, as far as results name it
          NoClass,      \* an unmapped result
          NoPlace       \* a result without a usable location

Place  == [area : Areas, line : Lines]
Places == Place \cup {NoPlace}

Result == [text : BOOLEAN, place : Places, class : Classes \cup {NoClass}]

\* _coverage_areas: the areas of the allowlist that stay inside the checkout.
Contained(scope, escaping) == scope \ escaping

\* _in_scope: a result that names no path is in scope unless nothing is.
InScope(place, scope) ==
    IF place = NoPlace THEN scope # {} ELSE place.area \in scope

\* _locus_in_scope: what is to be stored as a variant has to name a place.
Located(place, scope) == place # NoPlace /\ place.area \in scope

\* _accepted_results: the positions in the document of the results kept.
Accepted(doc, scope) == {i \in DOMAIN doc : doc[i].text /\ InScope(doc[i].place, scope)}

\* Mutant: numbered from the last index there is, not from the next one.
SarifToFindingsEarly(doc, project, start, scope) ==
    LET accepted == Accepted(doc, scope)
    IN [i \in accepted |->
          [id |-> (start - 1) + Cardinality({j \in accepted : j < i}),
           project |-> project, place |-> doc[i].place,
           class |-> doc[i].class, status |-> "candidate"]]

\* sarif_to_findings: a candidate per accepted result, numbered from start in
\* document order.  (class: what the summary, rule id first, maps to.)
SarifToFindings(doc, project, start, scope) ==
    LET accepted == Accepted(doc, scope)
    IN [i \in accepted |->
          [id |-> start + Cardinality({j \in accepted : j < i}),
           project |-> project, place |-> doc[i].place,
           class |-> doc[i].class, status |-> "candidate"]]

\* sarif_to_primitives: a suspected primitive for each accepted result that
\* maps to a class, bound to the finding at the same position.
SarifToPrimitives(doc, found, scope) ==
    [i \in {j \in Accepted(doc, scope) : doc[j].class # NoClass} |->
        [kind |-> doc[i].class, locus |-> doc[i].place, ref |-> found[i].id,
         grants |-> {doc[i].class}, preconditions |-> {}]]
=============================================================================
