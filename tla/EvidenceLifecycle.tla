-------------------------- MODULE EvidenceLifecycle --------------------------
(***************************************************************************)
(* What the finding lifecycle promises (Constitution, Article IV), with no *)
(* store, session or process in sight: a finding advances only on          *)
(* evidence.  It becomes verified only once a reproduction of it is on     *)
(* record, is announced only from verified, and falls back one edge at a   *)
(* time.  A reproduction, once on record, stays.                           *)
(***************************************************************************)
EXTENDS FindingLifecycle

CONSTANT Findings

VARIABLES status,       \* the status of each finding
          proven        \* findings with a recorded reproduction

Init ==
    /\ status = [f \in Findings |-> "candidate"]
    /\ proven = {}

Reproduce(f) ==
    /\ proven' = proven \cup {f}
    /\ UNCHANGED status

Move(f, new) ==
    /\ \/ <<status[f], new>> \in FORWARD_EDGES /\ f \in proven
       \/ <<status[f], new>> \in BACKWARD_EDGES
    /\ status' = [status EXCEPT ![f] = new]
    /\ UNCHANGED proven

Next == \E f \in Findings : Reproduce(f) \/ \E new \in Status : Move(f, new)

Spec == Init /\ [][Next]_<<status, proven>>
=============================================================================
