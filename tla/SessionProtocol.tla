--------------------------- MODULE SessionProtocol ---------------------------
(***************************************************************************)
(* One session, end to end (src/deepthought/protocol/session.py): a CLI    *)
(* process lists the sessions on disk to number its own, writes the        *)
(* session's record as interrupted, asks the gate, works, teaches back and *)
(* closes.  Several processes may share one store, which has no lock and   *)
(* whose save overwrites the file; a process may die between any two of    *)
(* its file operations.  The scoped work is abstract here (it returns with *)
(* or without next steps, or raises); VerifySession puts VERIFY in its     *)
(* place.                                                                  *)
(***************************************************************************)
EXTENDS Naturals, FiniteSets, Gate

CONSTANTS Procs,        \* processes that run sessions
          Projects,     \* safe project ids
          BadId,        \* a user-supplied id that is not a safe record id
          Contexts,     \* BOUND: what people write into a project record
          MaxSessions   \* BOUND: sessions numbered in the modelled day

CONSTANTS NoProject, NoRecord   \* the answer of get_project, get_session: None

\* The record: gate_outcome ("none" until decided) and close_state.  `closed`
\* is stamped exactly when close_state becomes clean, so it is not a field.
SessionRecord == [gate : Outcomes \cup {"none"}, close : {"interrupted", "clean"}]

ASSUME ProtocolAssumption ==
    /\ MaxSessions \in Nat
    /\ Contexts \subseteq StoredContexts
    /\ BadId \notin Projects
    /\ NoProject \notin GateContext
    /\ NoRecord \notin SessionRecord

VARIABLES projects,     \* projects/<id>.md
          sessions,     \* sessions/S-<today>-<n>.md, by n
          pc,           \* where each process stands
          run           \* each process's local variables in run_session

protocolVars == <<projects, sessions, pc, run>>

SessionIds == 1 .. MaxSessions

Locals == [sid : Nat, project : Projects \cup {BadId},
           gate : Outcomes \cup {"none"}, steps : BOOLEAN]

NotRunning == [sid |-> 0, project |-> BadId, gate |-> "none", steps |-> FALSE]

OnDisk == {s \in SessionIds : sessions[s] # NoRecord}

\* Mutant: only the sessions that proceeded are counted.
NextSessionIdOfProceeded == Cardinality({s \in OnDisk : sessions[s].gate = "proceed"}) + 1

\* generate_session_id: the NUMBER of today's sessions plus one.
NextSessionId == Cardinality(OnDisk) + 1

\* find_resumable: interrupted and never closed.
Resumable == {s \in OnDisk : sessions[s].close = "interrupted"}

ProtocolInit ==
    /\ projects \in [Projects -> Contexts \cup {NoProject}]
    /\ sessions = [s \in SessionIds |-> NoRecord]
    /\ pc = [p \in Procs |-> "idle"]
    /\ run = [p \in Procs |-> NotRunning]

Goto(p, label) == pc' = [pc EXCEPT ![p] = label]

\* run_session ends, by return or by exception: its locals are gone.
Leave(p) == Goto(p, "idle") /\ run' = [run EXCEPT ![p] = NotRunning]

Save(p, gate, close) ==
    sessions' = [sessions EXCEPT ![run[p].sid] = [gate |-> gate, close |-> close]]

-----------------------------------------------------------------------------
\* run_session is called: the listing that numbers the session is read here,
\* the record is written by a later step.
Invoke(p, id) ==
    /\ pc[p] = "idle"
    /\ NextSessionId <= MaxSessions
    /\ run' = [run EXCEPT ![p] = [sid |-> NextSessionId, project |-> id,
                                  gate |-> "none", steps |-> FALSE]]
    /\ Goto(p, "numbered")
    /\ UNCHANGED <<projects, sessions>>

\* The record is persisted immediately, as interrupted.
OpenRecord(p) ==
    /\ pc[p] = "numbered"
    /\ Save(p, "none", "interrupted")
    /\ Goto(p, IF run[p].project = BadId THEN "invalid" ELSE "opened")
    /\ UNCHANGED <<projects, run>>

\* An unsafe project id is refused and closed clean without asking the gate.
RefuseInvalid(p) ==
    /\ pc[p] = "invalid"
    /\ Save(p, "refuse", "clean")
    /\ Leave(p)
    /\ UNCHANGED projects

\* build_gate_context finds no such project and raises: nothing is saved.
UnknownProject(p) ==
    /\ pc[p] = "opened"
    /\ projects[run[p].project] = NoProject
    /\ Leave(p)
    /\ UNCHANGED <<projects, sessions>>

\* Mutant: the decision is not kept for the record.
AskGateForgetful(p) ==
    LET context == projects[run[p].project]
        outcome == Evaluate(context)
    IN /\ pc[p] = "opened"
       /\ context # NoProject
       /\ run' = [run EXCEPT ![p].steps = outcome # "proceed"]
       /\ Goto(p, IF outcome = "proceed" THEN "running" ELSE "returned")
       /\ UNCHANGED <<projects, sessions>>

\* Mutant: a hold does not stop the work, only a refusal does.
AskGateHeldRuns(p) ==
    LET context == projects[run[p].project]
        outcome == Evaluate(context)
    IN /\ pc[p] = "opened"
       /\ context # NoProject
       /\ run' = [run EXCEPT ![p].gate = outcome, ![p].steps = outcome # "proceed"]
       /\ Goto(p, IF outcome # "refuse" THEN "running" ELSE "returned")
       /\ UNCHANGED <<projects, sessions>>

\* The gate decides on the project as stored NOW.  A hold or a refusal goes
\* straight to the teach-back, whose next steps name the reason.
AskGate(p) ==
    LET context == projects[run[p].project]
        outcome == Evaluate(context)
    IN /\ pc[p] = "opened"
       /\ context # NoProject
       /\ run' = [run EXCEPT ![p].gate = outcome, ![p].steps = outcome # "proceed"]
       /\ Goto(p, IF outcome = "proceed" THEN "running" ELSE "returned")
       /\ UNCHANGED <<projects, sessions>>

\* session.run raised: the record keeps the gate's outcome, stays interrupted,
\* and the exception leaves run_session.
Raise(p) ==
    /\ Save(p, run[p].gate, "interrupted")
    /\ Leave(p)
    /\ UNCHANGED projects

\* Mutant: a session without next steps closes clean.
CloseAlways(p) ==
    /\ pc[p] = "returned"
    /\ Save(p, run[p].gate, "clean")
    /\ Leave(p)
    /\ UNCHANGED projects

\* A session without next steps does not close.
Close(p) ==
    /\ pc[p] = "returned"
    /\ Save(p, run[p].gate, IF run[p].steps THEN "clean" ELSE "interrupted")
    /\ Leave(p)
    /\ UNCHANGED projects

\* The process dies: what it held in memory is gone, the store stays.
Crash(p) ==
    /\ pc[p] # "idle"
    /\ Leave(p)
    /\ UNCHANGED <<projects, sessions>>

\* A person registers a project or rewrites its authorization and scope.
EditProject(id) ==
    /\ \E context \in Contexts : projects' = [projects EXCEPT ![id] = context]
    /\ UNCHANGED <<sessions, pc, run>>

\* The steps of run_session before and after the scoped work.
ProtocolStep(p) ==
    \/ \E id \in Projects \cup {BadId} : Invoke(p, id)
    \/ OpenRecord(p)
    \/ RefuseInvalid(p)
    \/ UnknownProject(p)
    \/ AskGate(p)
    \/ Close(p)
=============================================================================
