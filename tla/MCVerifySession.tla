---- MODULE MCVerifySession ----
EXTENDS VerifySession, TLC

ProcSymmetry == Permutations(Procs)

\* The gate is explored by the session runs: here a project may be worked on
\* once it is registered.
MCContexts ==
    {[basis |-> "own_code", source |-> "open_source", ref |-> FALSE, scope |-> {"src"}]}

MCProjectOf == [f \in Findings |-> "a"]

\* Narrows a search to findings nobody has referenced yet and to processes
\* that work on registered projects.
Unreferenced ==
    /\ \A f \in Findings : findings[f].refs = {}
    /\ \A p \in Procs : pc[p] \in {"numbered", "opened", "running", "returned"} => run[p].project # BadId
    /\ \A id \in Projects : projects[id] # NoProject
====
