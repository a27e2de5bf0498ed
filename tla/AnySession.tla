----------------------------- MODULE AnySession -----------------------------
(***************************************************************************)
(* run_session with an arbitrary session: the scoped work may return with  *)
(* or without next steps, raise, or die with its process.  Two history     *)
(* variables record what the store should be able to tell the next         *)
(* session.                                                                *)
(***************************************************************************)
EXTENDS SessionProtocol

VARIABLES worked,       \* ids under which a body has started its work
          unfinished    \* ids whose run left run_session without closing

vars == <<projects, sessions, pc, run, worked, unfinished>>

Init == ProtocolInit /\ worked = {} /\ unfinished = {}

\* Past the gate, `running` is left by the body's return or by its exception.
BodyReturns(p) ==
    /\ pc[p] = "running"
    /\ \E steps \in BOOLEAN : run' = [run EXCEPT ![p].steps = steps]
    /\ Goto(p, "returned")
    /\ UNCHANGED <<projects, sessions>>

BodyRaises(p) == pc[p] = "running" /\ Raise(p)

Step(p) ==
    /\ ProtocolStep(p) \/ BodyReturns(p) \/ BodyRaises(p)
    /\ worked' = IF pc'[p] = "running" THEN worked \cup {run[p].sid} ELSE worked
    /\ unfinished' =
         LET left   == pc[p] # "idle" /\ pc'[p] = "idle"
             closed == pc[p] = "invalid" \/ (pc[p] = "returned" /\ run[p].steps)
         IN IF left /\ ~closed THEN unfinished \cup {run[p].sid} ELSE unfinished

Dies(p) ==
    /\ Crash(p)
    /\ unfinished' = IF pc[p] = "numbered" THEN unfinished ELSE unfinished \cup {run[p].sid}
    /\ UNCHANGED worked

Edit(id) == EditProject(id) /\ UNCHANGED <<worked, unfinished>>

Next == (\E p \in Procs : Step(p) \/ Dies(p)) \/ (\E id \in Projects : Edit(id))

Spec == Init /\ [][Next]_vars
-----------------------------------------------------------------------------
\* Types, and what a process that passed the gate holds: the outcome that is
\* written to the record when the session ends.
TypeOK ==
    /\ projects \in [Projects -> Contexts \cup {NoProject}]
    /\ sessions \in [SessionIds -> SessionRecord \cup {NoRecord}]
    /\ pc \in [Procs -> {"idle", "numbered", "invalid", "opened", "running", "returned"}]
    /\ run \in [Procs -> Locals]
    /\ \A p \in Procs : /\ pc[p] = "running" => run[p].gate = "proceed"
                        /\ pc[p] = "returned" => run[p].gate # "none"
    /\ worked \subseteq SessionIds /\ unfinished \subseteq SessionIds

Active == {run[p].sid : p \in {q \in Procs : pc[q] \notin {"idle", "numbered"}}}

\* find_resumable answers with exactly the sessions that were started and left
\* without a clean close - by a crash at any point, an exception, an unknown
\* project or a teach-back without next steps - besides those still running.
ResumableIsUnfinished == Resumable \ Active = unfinished \ Active

\* Article I: no record says held or refused for a session whose body ran, and
\* a session that closed clean under a proceed did run its body.
GateFirst ==
    \A s \in OnDisk :
        /\ s \in worked => sessions[s].gate \notin {"hold", "refuse"}
        /\ sessions[s].gate = "proceed" => s \in worked

\* "Session ids share a monotonic daily counter" (loop/policy.py): the id a
\* starting session writes its record under is above every id on disk, so it
\* overwrites nothing and ids sort in creation order.
MonotonicCounter ==
    [][\A p \in Procs :
         pc[p] = "numbered" /\ pc'[p] \in {"opened", "invalid"}
             => \A s \in OnDisk : s < run[p].sid]_vars
=============================================================================
