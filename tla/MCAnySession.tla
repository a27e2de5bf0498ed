---- MODULE MCAnySession ----
EXTENDS AnySession

\* One context for each outcome of the gate, and one more refusal.
MCContexts ==
    {[basis |-> "own_code", source |-> "open_source", ref |-> FALSE, scope |-> {"src"}],
     [basis |-> "own_code", source |-> "open_source", ref |-> FALSE, scope |-> {}],
     [basis |-> "own_code", source |-> "blackbox", ref |-> FALSE, scope |-> {"src"}]}
====
