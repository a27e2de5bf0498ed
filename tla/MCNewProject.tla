---------------------------- MODULE MCNewProject ----------------------------
EXTENDS NewProject, TLC

\* One proposal that may be registered, one that names no scope, one blackbox
\* without a reference and one whose record the schema refuses.
MCContexts ==
    {[basis |-> "own_code", source |-> "open_source", ref |-> FALSE, scope |-> {"src"}],
     [basis |-> "own_code", source |-> "open_source", ref |-> FALSE, scope |-> {}],
     [basis |-> "own_code", source |-> "blackbox", ref |-> FALSE, scope |-> {"src"}],
     [basis |-> "scoped_engagement", source |-> "open_source", ref |-> FALSE, scope |-> {"src"}]}

RegisterSymmetry == Permutations(Procs) \cup Permutations(Ids)
=============================================================================
