--------------------------- MODULE MCCheckPublish ---------------------------
EXTENDS CheckPublish, TLC

MCFindings == {1}
MCCitations == {{"cve", "advisory"}}

PublishSymmetry == Permutations(Writers)

\* What a hand or a revert has left is no longer claimed to be green once the
\* store moves under the last run: nothing more is asked of such a state.
StillClaimed == runs < MaxRuns \/ ~moved \/ ~(strayed \/ stripped)

\* BOUND: two writers overlap while the finding is uncited and no hand was in
\* the store, one works on it afterwards.
WritersOverlap ==
    strayed \/ (\E f \in Findings : Stored(f) /\ findings[f].refs # {}) =>
        Cardinality({w \in Writers : work[w].at # "idle"}) <= 1
=============================================================================
