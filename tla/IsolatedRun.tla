----------------------------- MODULE IsolatedRun -----------------------------
(***************************************************************************)
(* What a sandbox promises VERIFY: untrusted containers come up one at a   *)
(* time, none is up when a verdict is returned, and nothing starts after   *)
(* one.  A failed run may leave a container behind; a verdict never does.  *)
(***************************************************************************)
CONSTANT Containers     \* the containers one run may start

VARIABLES verdict,      \* what the caller of the sandbox learns
          up            \* the containers that exist

Init == verdict = "pending" /\ up = {}

Start(c) == verdict \in {"pending", "failed"} /\ up = {} /\ up' = {c} /\ UNCHANGED verdict

Stop == up' = {} /\ UNCHANGED verdict

Conclude == /\ verdict = "pending" /\ up' = {}
            /\ verdict' \in {"reproduced", "not_reproduced", "timed_out"}

Fail == verdict = "pending" /\ verdict' = "failed" /\ up' \in {{}, up}

Next == (\E c \in Containers : Start(c)) \/ Stop \/ Conclude \/ Fail

Spec == Init /\ [][Next]_<<verdict, up>>
=============================================================================
