--------------------------- MODULE AutonomousLoop ---------------------------
(***************************************************************************)
(* `deepthought loop` on one registered project (src/deepthought/loop):    *)
(* the policy proposes the next safe action from the records in the store, *)
(* the driver runs it as a session behind the gate, checks the budget      *)
(* before each, escalates what only a person may do, and leaves one        *)
(* LoopRun.  One command runs at a time; its driven sessions are single    *)
(* steps here (SessionProtocol has their inside), which may fail half-way. *)
(* People edit the project, the checkout, finding statuses and drafts      *)
(* between any two steps, and use other commands between loop runs.        *)
(***************************************************************************)
EXTENDS Naturals, FiniteSets, Sequences, Gate

CONSTANTS Findings,     \* finding ids of this project
          Contexts,     \* BOUND: what people write into the project record
          Budgets,      \* BOUND: the budgets loops are started with
          Blank,        \* an allowlist entry that strips to nothing
          Escaping,     \* areas that leave the repository root
          MaxLoops,     \* BOUND: loop runs recorded
          MaxEvents     \* BOUND: what people and failures do

CONSTANTS NoLimit,      \* a budget without max_sessions
          NoFinding,    \* no finding: the action is about the project
          NoAction      \* no action

Runnable    == {"status", "map", "discover", "sibling_hunt", "disclosure"}
Escalations == {"disclosure_send", "verify_escalation"}

\* LoopAction.  The driver's key of an action is the action itself: project
\* actions carry no finding.
Action == [kind : Runnable \cup Escalations, finding : Findings \cup {NoFinding}]

\* LoopStep: an action and the session it ran, 0 for an escalation.
LoopStep == [kind : Runnable \cup Escalations, finding : Findings \cup {NoFinding},
             session : Nat, gate : Outcomes \cup {"none"}, close : {"clean", "none"}]

\* A budget that limits tokens only never stops a loop: every session reports a
\* zero context cost.  It is [sessions |-> NoLimit, wall |-> FALSE].
Budget == [sessions : (Nat \ {0}) \cup {NoLimit}, wall : BOOLEAN]

StopReasons == {"fixed_point", "budget_exhausted", "hard_stop", "gate_held", "gate_refused"}

LoopRun == [stop : StopReasons, sessions_run : Nat, budget : Budget,
            trace : SUBSET LoopStep, planned : Action \cup {NoAction}]

SessionRecord == [type : Runnable, gate : Outcomes \cup {"none"},
                  close : {"clean", "interrupted"}, touched : Findings \cup {NoFinding}]

FindingState == {"absent", "candidate", "verified", "disclosed", "patched"}

ASSUME LoopAssumption ==
    /\ Contexts \subseteq StoredContexts
    /\ Budgets \subseteq Budget
    /\ Contexts # {} /\ Budgets # {}
    /\ IsFiniteSet(Findings) /\ MaxLoops \in Nat /\ MaxEvents \in Nat
    /\ NoLimit \notin Nat /\ NoFinding \notin Findings /\ NoAction \notin Action

VARIABLES context,      \* the stored project, as far as the gate reads it
          checkout,     \* whether local_path is a directory
          sessions,     \* session records, in the order of their ids
          coverage,     \* last_session of each area's record, 0 for no record
          status,       \* of each finding
          drafts,       \* sessions whose four drafts resolve and validate
          loops,        \* LoopRun records, in the order of their ids
          pc,           \* where run_loop stands
          run,          \* its local variables
          events,       \* what people and failures did so far
          settled       \* history: whether the last run left nothing, undisturbed

store == <<context, checkout, sessions, coverage, status, drafts, loops>>
vars  == <<context, checkout, sessions, coverage, status, drafts, loops, pc, run, events, settled>>

\* seen: the project as run_loop read it.  late: the wall limit has passed.
Locals == [seen : Contexts, budget : Budgets, spent : Nat, late : BOOLEAN,
           trace : SUBSET LoopStep, action : Action \cup {NoAction},
           stop : StopReasons \cup {"none"}]
-----------------------------------------------------------------------------
\* The policy (loop/policy.py) reads the store through these.

\* _completed: gate-held, refused and interrupted attempts are no progress.
Completed(record) == record.gate = "proceed" /\ record.close = "clean"

CompletedSessions(type) ==
    {i \in DOMAIN sessions : sessions[i].type = type /\ Completed(sessions[i])}

Latest(ids) == CHOOSE n \in ids \cup {0} : \A i \in ids : i <= n

Covered == {a \in Areas : coverage[a] # 0}

InScope(c) == c.scope \ {Blank}

\* last_discover_id >= last_map_id; DISCOVER writes coverage too.
DiscoverCurrent ==
    LET last == Latest(CompletedSessions("discover"))
    IN last # 0 /\ last >= Latest({coverage[a] : a \in Areas})

In(s) == {f \in Findings : status[f] = s}

\* Mutant: a run that left something to a person does not count.
HuntedBeforeFixedPoint ==
    {f \in Findings : \E i \in DOMAIN loops : \E t \in loops[i].trace :
        /\ loops[i].stop = "fixed_point"
        /\ t.kind = "sibling_hunt" /\ t.finding = f /\ Completed(t)}

\* hunted_before: what completed in the trace of a recorded run.
HuntedBefore ==
    {f \in Findings : \E i \in DOMAIN loops : \E t \in loops[i].trace :
        t.kind = "sibling_hunt" /\ t.finding = f /\ Completed(t)}

\* _drafted_findings
Drafted == {sessions[i].touched : i \in CompletedSessions("disclosure") \cap drafts}

\* The driver's done set: what this run has dispatched, whatever came of it.
Done(trace) == {[kind |-> t.kind, finding |-> t.finding] : t \in trace}

On(kind, targets) == {[kind |-> kind, finding |-> f] : f \in targets}

Once(kind, condition) == IF condition THEN On(kind, {NoFinding}) ELSE {}

\* What the store calls for, kind by kind.
Wanted(seen) ==
    Once("status", CompletedSessions("status") = {})
      \cup Once("map", ~(InScope(seen) \subseteq Covered))
      \cup Once("discover", Covered # {} /\ ~DiscoverCurrent)
      \cup On("sibling_hunt", In("verified") \ HuntedBefore)
      \cup On("disclosure", In("verified") \ Drafted)
      \cup On("disclosure_send", In("verified") \cap Drafted)
      \cup On("verify_escalation", In("candidate"))

\* The order of the rungs of select_next_action.
Rung == [status |-> 1, map |-> 2, discover |-> 3, sibling_hunt |-> 4,
         disclosure |-> 5, disclosure_send |-> 6, verify_escalation |-> 7]

\* select_next_action: what is fresh on the highest rung that has any.  The
\* code takes the first finding in id order, here it may be any.
Proposals(seen, done) ==
    {a \in Wanted(seen) \ done : \A b \in Wanted(seen) \ done : Rung[a.kind] <= Rung[b.kind]}

\* Mutant: drafts that wait to be sent are not told of.
PendingVerifications ==
    {[kind |-> a.kind, finding |-> a.finding, session |-> 0, gate |-> "none", close |-> "none"] :
        a \in On("verify_escalation", In("candidate"))}

\* pending_escalations, as rows of the trace.
PendingEscalations ==
    {[kind |-> a.kind, finding |-> a.finding, session |-> 0, gate |-> "none", close |-> "none"] :
        a \in On("disclosure_send", In("verified") \cap Drafted)
              \cup On("verify_escalation", In("candidate"))}

\* Mutant: the session to come is not counted.
WouldExceedAfterwards ==
    \/ run.budget.sessions # NoLimit /\ run.spent > run.budget.sessions
    \/ run.late

\* LoopBudget.would_exceed: the session count is checked with the session to
\* come, the wall clock with what has passed.
WouldExceed ==
    \/ run.budget.sessions # NoLimit /\ run.spent + 1 > run.budget.sessions
    \/ run.late

-----------------------------------------------------------------------------
NotRunning == [seen |-> CHOOSE c \in Contexts : TRUE, budget |-> CHOOSE b \in Budgets : TRUE,
               spent |-> 0, late |-> FALSE, trace |-> {}, action |-> NoAction, stop |-> "none"]

\* A store as an operator may hand it over: findings, but no record of ours.
Init ==
    /\ context \in Contexts /\ checkout \in BOOLEAN
    /\ sessions = <<>> /\ coverage = [a \in Areas |-> 0]
    /\ status \in [Findings -> {"absent", "candidate", "verified"}]
    /\ drafts = {} /\ loops = <<>>
    /\ pc = "idle" /\ run = NotRunning
    /\ events = 0 /\ settled = "no"

\* Mutant: the gate's own word is recorded.
StopReasonAsOutcome(outcome) == outcome

StopReason(outcome) == IF outcome = "hold" THEN "gate_held" ELSE "gate_refused"

\* run_loop reads the project and gates it before any work; a project that does
\* not proceed gets its LoopRun and nothing else.
Start ==
    /\ pc = "idle"
    /\ Len(loops) < MaxLoops
    /\ \E budget \in Budgets :
         LET proceeds == Evaluate(context) = "proceed"
         IN /\ run' = [NotRunning EXCEPT
                         !.seen = context, !.budget = budget,
                         !.stop = IF proceeds THEN "none" ELSE StopReason(Evaluate(context))]
            /\ pc' = IF proceeds THEN "selecting" ELSE "stopping"
    /\ settled' = IF settled = "yes" THEN "yes" ELSE "running"
    /\ UNCHANGED <<store, events>>

Stop(reason, planned, escalated) ==
    /\ run' = [run EXCEPT !.stop = reason, !.action = planned, !.trace = @ \cup escalated]
    /\ pc' = "stopping"

\* Mutant: at its session limit the loop goes on asking for the next action.
SelectAsksAgain ==
    LET proposals == Proposals(run.seen, Done(run.trace))
    IN /\ pc = "selecting"
       /\ \/ proposals = {} /\ Stop("fixed_point", NoAction, {})
          \/ \E action \in proposals :
               \/ run.late /\ Stop("budget_exhausted", action, {})
               \/ ~run.late /\ action.kind \in Escalations
                    /\ Stop("hard_stop", NoAction, PendingEscalations)
               \/ /\ ~run.late /\ action.kind \in Runnable /\ ~WouldExceed
                  /\ run' = [run EXCEPT !.action = action]
                  /\ pc' = "acting"
       /\ UNCHANGED <<store, events, settled>>

\* One turn of the driver, up to the session it will run: nothing proposed,
\* wall clock, hard-stop boundary, budget, in this order.
Select ==
    LET proposals == Proposals(run.seen, Done(run.trace))
    IN /\ pc = "selecting"
       /\ \/ proposals = {} /\ Stop("fixed_point", NoAction, {})
          \/ \E action \in proposals :
               \/ run.late /\ Stop("budget_exhausted", action, {})
               \/ ~run.late /\ action.kind \in Escalations
                    /\ Stop("hard_stop", NoAction, PendingEscalations)
               \/ ~run.late /\ action.kind \in Runnable /\ WouldExceed
                    /\ Stop("budget_exhausted", action, {})
               \/ /\ ~run.late /\ action.kind \in Runnable /\ ~WouldExceed
                  /\ run' = [run EXCEPT !.action = action]
                  /\ pc' = "acting"
       /\ UNCHANGED <<store, events, settled>>

NextId == Len(sessions) + 1

\* MAP records each contained area in scope, if there is a checkout to walk.
Mappable == IF checkout THEN context.scope \ (Escaping \cup {Blank}) ELSE {}

Cover(areas) == coverage' = [a \in Areas |-> IF a \in areas THEN NextId ELSE coverage[a]]

\* The scoped work of the driven session.  STATUS reads only; without SARIF,
\* which the loop never passes, DISCOVER and SIBLING HUNT store no finding and
\* no coverage; DISCLOSURE drafts a finding that is verified now.
Work(action) ==
    /\ Cover(IF action.kind = "map" THEN Mappable ELSE {})
    /\ drafts' = IF action.kind = "disclosure" /\ status[action.finding] = "verified"
                 THEN drafts \cup {NextId} ELSE drafts

\* findings_touched: what a disclosure drafted.
Touched(action) ==
    IF action.kind = "disclosure" /\ status[action.finding] = "verified"
    THEN action.finding ELSE NoFinding

\* Mutant: the project read at the start of the loop is gated.
RunSessionOnFirstRead ==
    LET outcome  == Evaluate(run.seen)
        proceeds == outcome = "proceed"
        step == [kind |-> run.action.kind, finding |-> run.action.finding,
                 session |-> NextId, gate |-> outcome, close |-> "clean"]
    IN /\ pc = "acting"
       /\ \/ proceeds /\ Work(run.action)
          \/ ~proceeds /\ UNCHANGED <<coverage, drafts>>
       /\ sessions' = Append(sessions,
                        [type |-> run.action.kind, gate |-> outcome, close |-> "clean",
                         touched |-> IF proceeds THEN Touched(run.action) ELSE NoFinding])
       /\ run' = [run EXCEPT !.trace = @ \cup {step}, !.spent = @ + 1,
                             !.action = NoAction,
                             !.stop = IF proceeds THEN "none" ELSE StopReason(outcome)]
       /\ pc' = IF proceeds THEN "selecting" ELSE "stopping"
       /\ UNCHANGED <<context, checkout, status, loops, events, settled>>

\* run_session with the proposed action: it gates the project as stored now,
\* works and closes; a hold or refusal closes too, and ends the loop.
RunSession ==
    LET outcome  == Evaluate(context)
        proceeds == outcome = "proceed"
        step == [kind |-> run.action.kind, finding |-> run.action.finding,
                 session |-> NextId, gate |-> outcome, close |-> "clean"]
    IN /\ pc = "acting"
       /\ \/ proceeds /\ Work(run.action)
          \/ ~proceeds /\ UNCHANGED <<coverage, drafts>>
       /\ sessions' = Append(sessions,
                        [type |-> run.action.kind, gate |-> outcome, close |-> "clean",
                         touched |-> IF proceeds THEN Touched(run.action) ELSE NoFinding])
       /\ run' = [run EXCEPT !.trace = @ \cup {step}, !.spent = @ + 1,
                             !.action = NoAction,
                             !.stop = IF proceeds THEN "none" ELSE StopReason(outcome)]
       /\ pc' = IF proceeds THEN "selecting" ELSE "stopping"
       /\ UNCHANGED <<context, checkout, status, loops, events, settled>>

\* The LoopRun is written once, at the end.
SaveRun ==
    /\ pc = "stopping"
    /\ loops' = Append(loops, [stop |-> run.stop, sessions_run |-> run.spent, budget |-> run.budget,
                               trace |-> run.trace, planned |-> run.action])
    /\ settled' = IF settled = "yes" THEN "yes"
                  ELSE IF settled = "running" /\ run.stop \in {"fixed_point", "hard_stop"} THEN "yes"
                  ELSE "no"
    /\ pc' = "idle" /\ run' = NotRunning
    /\ UNCHANGED <<context, checkout, sessions, coverage, status, drafts, events>>

\* The wall limit passes, at any moment of a loop that has one.
TimePasses ==
    /\ pc # "idle" /\ run.budget.wall /\ ~run.late
    /\ run' = [run EXCEPT !.late = TRUE]
    /\ UNCHANGED <<store, pc, events, settled>>
-----------------------------------------------------------------------------
\* Failures and people.  Each is an event, and ends a settled state.
Event == events < MaxEvents /\ events' = events + 1 /\ settled' = "no"

\* A driven session raises or dies half-way: its record stays interrupted, with
\* the outcome of the gate if its work raised; what it covered stays, its drafts
\* are not complete.  The exception leaves run_loop: no LoopRun.
SessionFails ==
    /\ pc = "acting" /\ Event
    /\ \E gate \in {"none"} \cup ({"proceed"} \cap {Evaluate(context)}) :
         sessions' = Append(sessions, [type |-> run.action.kind, gate |-> gate,
                                       close |-> "interrupted", touched |-> NoFinding])
    /\ \E areas \in SUBSET Mappable :
         Cover(IF run.action.kind = "map" /\ Evaluate(context) = "proceed" THEN areas ELSE {})
    /\ pc' = "idle" /\ run' = NotRunning
    /\ UNCHANGED <<context, checkout, status, drafts, loops>>

\* The process dies outside a session.
Crash ==
    /\ pc # "idle" /\ Event
    /\ pc' = "idle" /\ run' = NotRunning
    /\ UNCHANGED store

\* A person rewrites authorization and scope, or moves the checkout.
EditProject ==
    /\ Event
    /\ context' \in Contexts /\ checkout' \in BOOLEAN
    /\ UNCHANGED <<sessions, coverage, status, drafts, loops, pc, run>>

\* VERIFY, or a person through the store, moves a finding along the lifecycle.
ChangeStatus ==
    /\ Event
    /\ \E f \in Findings, new \in FindingState :
         /\ \/ status[f] = "candidate" /\ new = "verified"
            \/ status[f] = "verified" /\ new \in {"candidate", "disclosed", "patched"}
            \/ status[f] \in {"disclosed", "patched"} /\ new = "verified"
         /\ status' = [status EXCEPT ![f] = new]
    /\ UNCHANGED <<context, checkout, sessions, coverage, drafts, loops, pc, run>>

\* A person runs DISCOVER with SARIF: new candidates, read coverage.
DiscoverWithSarif ==
    /\ pc = "idle" /\ Event
    /\ Evaluate(context) = "proceed"
    /\ Cover(context.scope \ (Escaping \cup {Blank}))
    /\ \E new \in SUBSET In("absent") :
         status' = [f \in Findings |-> IF f \in new THEN "candidate" ELSE status[f]]
    /\ sessions' = Append(sessions, [type |-> "discover", gate |-> "proceed",
                                     close |-> "clean", touched |-> NoFinding])
    /\ UNCHANGED <<context, checkout, drafts, loops, pc, run>>

\* Drafts are deleted or damaged.
LoseDrafts ==
    /\ Event
    /\ \E d \in drafts : drafts' = drafts \ {d}
    /\ UNCHANGED <<context, checkout, sessions, coverage, status, loops, pc, run>>

LoopStepNext == Select \/ RunSession \/ SaveRun

Next ==
    \/ Start \/ LoopStepNext \/ TimePasses
    \/ SessionFails \/ Crash
    \/ EditProject \/ ChangeStatus \/ DiscoverWithSarif \/ LoseDrafts

\* A started loop keeps going: its sessions are finite computations.  Nobody has
\* to start one, time need not pass, people and failures need not come.
Spec == Init /\ [][Next]_vars /\ WF_vars(LoopStepNext)
-----------------------------------------------------------------------------
TypeOK ==
    /\ context \in Contexts /\ checkout \in BOOLEAN
    /\ sessions \in Seq(SessionRecord)
    /\ coverage \in [Areas -> Nat]
    /\ status \in [Findings -> FindingState]
    /\ drafts \subseteq DOMAIN sessions
    /\ loops \in Seq(LoopRun)
    /\ pc \in {"idle", "selecting", "acting", "stopping"}
    /\ run \in Locals
    /\ events \in Nat /\ settled \in {"no", "running", "yes"}

\* Selection is monotonic, so a run is bounded without its budget: at most one
\* STATUS, MAP and DISCOVER, and one hunt and one draft for each finding.
BoundedWithoutBudget == run.spent <= 3 + 2 * Cardinality(Findings)

Ran(trace) == {t \in trace : t.session # 0}

\* The budget stops the loop neither one session late nor one early: no run has
\* more sessions than its limit, in what it recorded and in its trace, one
\* that stopped for its session limit has used it up, and one without a limit
\* ends by its own selection.
BudgetIsExact ==
    /\ BoundedWithoutBudget
    /\ \A i \in DOMAIN loops :
         LET l == loops[i]
         IN /\ l.sessions_run = Cardinality(Ran(l.trace))
            /\ l.budget.sessions # NoLimit => l.sessions_run <= l.budget.sessions
            /\ l.stop = "budget_exhausted" =>
                 /\ l.planned # NoAction
                 /\ ~l.budget.wall => l.sessions_run = l.budget.sessions

\* The hard stop is no excuse: a run that says only people can go on, or nobody,
\* has recorded every candidate and every drafted finding for them, and what it
\* leaves undone it has tried in this very run.
NothingLeftUnsaid ==
    [][pc = "selecting" /\ run'.stop \in {"hard_stop", "fixed_point"} =>
         LET kinds(f) == {t.kind : t \in {u \in run'.trace : u.finding = f}}
         IN /\ InScope(run.seen) \subseteq Covered \/ "map" \in kinds(NoFinding)
            /\ \A a \in Covered : \/ \E i \in CompletedSessions("discover") : i >= coverage[a]
                                  \/ "discover" \in kinds(NoFinding)
            /\ \A f \in In("candidate") : "verify_escalation" \in kinds(f)
            /\ \A f \in In("verified") :
                 /\ f \in HuntedBefore \/ "sibling_hunt" \in kinds(f)
                 /\ {"disclosure", "disclosure_send"} \cap kinds(f) # {}]_vars

\* The up-front decision is not trusted for the whole run: authorization and
\* scope withdrawn while a loop runs stop the very next session from working.
WithdrawalHolds ==
    [][/\ pc = "acting" /\ <<coverage, drafts>>' # <<coverage, drafts>>
       /\ pc' # "acting"
       => /\ ~Unauthorized(context)
          /\ \A a \in Areas : coverage'[a] # coverage[a] => a \in context.scope]_vars

\* After a run that nobody disturbed and that found nothing left, runs that
\* nobody disturbs have nothing to do, if MAP can reach the whole scope.
RepeatRunsConverge ==
    settled = "yes" /\ InScope(context) \subseteq Mappable => pc # "acting"

\* Every loop ends, with or without a budget, whatever its sessions leave undone.
EveryLoopEnds == pc # "idle" ~> pc = "idle"
=============================================================================
