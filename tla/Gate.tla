-------------------------------- MODULE Gate --------------------------------
(***************************************************************************)
(* The pre-dispatch gate (src/deepthought/protocol/gate.py).  A gate       *)
(* context carries the fields of the stored project the decision reads:    *)
(* the authorization basis, the kind of source, whether an authorization   *)
(* reference is named, and the scope allowlist.  HermesUltraCodeGate       *)
(* inherits the decision unchanged.                                        *)
(***************************************************************************)

CONSTANT Areas          \* what a scope allowlist may name

Bases    == {"none", "own_code", "permissive_oss", "scoped_engagement"}
Sources  == {"open_source", "blackbox"}
Outcomes == {"proceed", "hold", "refuse"}

GateContext == [basis : Bases, source : Sources, ref : BOOLEAN, scope : SUBSET Areas]

\* What a stored project can hold: the record itself refuses a
\* scoped_engagement that names no authorization_ref.
StoredContexts == {c \in GateContext : c.basis = "scoped_engagement" => c.ref}

\* The three refusals of DefaultGate.evaluate, in any order: each one refuses.
Unauthorized(context) ==
    \/ context.basis = "none"
    \/ context.source = "blackbox" /\ ~context.ref
    \/ context.basis = "scoped_engagement" /\ ~context.ref

\* DefaultGate.evaluate: refusal goes before the empty-scope hold.
Evaluate(context) ==
    IF Unauthorized(context) THEN "refuse"
    ELSE IF context.scope = {} THEN "hold"
    ELSE "proceed"
=============================================================================
