---- MODULE MCAutonomousLoop ----
EXTENDS AutonomousLoop

Project(basis, areas) == [basis |-> basis, source |-> "open_source", ref |-> FALSE, scope |-> areas]

\* Authorized with one area and a blank entry, with a broader scope, and no
\* longer authorized.
MCContexts == {Project("own_code", {"src", " "}), Project("own_code", {"src", "lib"}),
               Project("none", {"src"})}

\* Fewer sessions than a run wants; a wall clock, which need not run out.
MCBudgets == {[sessions |-> 2, wall |-> FALSE], [sessions |-> NoLimit, wall |-> TRUE]}
====
