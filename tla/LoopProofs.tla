----------------------------- MODULE LoopProofs -----------------------------
(***************************************************************************)
(* What `deepthought loop` promises for any findings, contexts, budgets    *)
(* and bounds.  The count of its sessions is exact because a run never     *)
(* takes an action twice; it converges because what an undisturbed run has *)
(* done is in the store when the run is over, so that the policy no longer *)
(* wants it.                                                               *)
(***************************************************************************)
EXTENDS AutonomousLoop, FiniteSetTheorems, WellFoundedInduction, TLAPS

\* What a run can do itself: the project's actions, and two for each finding.
SessionActions ==
    [kind : {"status", "map", "discover"}, finding : {NoFinding}]
      \cup [kind : {"sibling_hunt", "disclosure"}, finding : Findings]

Final == {"fixed_point", "hard_stop"}

\* The types, and what each place of run_loop says of its locals.
LoopTyped ==
    /\ TypeOK
    /\ pc = "stopping" <=> run.stop # "none"
    /\ pc = "acting" => run.action \in SessionActions

\* The sessions of a run are counted, and no two of them had one action.
Counted ==
    LET ran == Ran(run.trace)
    IN /\ IsFiniteSet(ran)
       /\ Cardinality(ran) = run.spent /\ Cardinality(Done(ran)) = run.spent
       /\ Done(ran) \subseteq SessionActions
       /\ pc # "stopping" => run.trace = ran
       /\ pc = "acting" => run.action \notin Done(ran)

\* The budget leaves room for the session that is to come, and is used up when
\* the loop says so.
InBudget ==
    /\ run.budget.sessions # NoLimit =>
         /\ run.spent <= run.budget.sessions
         /\ pc = "acting" => run.spent < run.budget.sessions
    /\ run.late => run.budget.wall
    /\ run.stop = "budget_exhausted" =>
         /\ run.action # NoAction
         /\ ~run.budget.wall => run.spent = run.budget.sessions

BudgetInv == Counted /\ InBudget /\ BudgetIsExact

\* What a session of this run has done is still in the store: nothing the run
\* did since has undone it.
Effective(t) ==
    /\ Completed(t) /\ t.session \in CompletedSessions(t.kind)
    /\ t.kind = "map" /\ InScope(context) \subseteq Mappable => InScope(context) \subseteq Covered
    /\ t.kind = "discover" =>
         /\ DiscoverCurrent
         /\ InScope(context) \subseteq Covered \/ "map" \in {u.kind : u \in Ran(run.trace)}
    /\ t.kind = "disclosure" => t.session \in drafts /\ sessions[t.session].touched = t.finding

OnlyPeople(actions) == \A a \in actions : a.kind \in Escalations

\* A run that nobody has disturbed so far.
RunInv ==
    settled = "running" =>
        /\ pc # "idle"
        /\ pc # "stopping" \/ run.stop \in Final => \A t \in Ran(run.trace) : Effective(t)
        /\ pc = "acting" => run.action \in Proposals(context, Done(run.trace))
        /\ run.stop \in Final => OnlyPeople(Wanted(context) \ Done(Ran(run.trace)))

\* A store that such a run has left, and that nobody has disturbed since.
RestInv ==
    settled = "yes" /\ InScope(context) \subseteq Mappable =>
        OnlyPeople(Wanted(context)) /\ pc # "acting"

CoverageBound == \A a \in Areas : coverage[a] <= Len(sessions)

SeenIsStored == settled # "no" /\ pc # "idle" => run.seen = context

ConvergeInv == SeenIsStored /\ RunInv /\ RestInv
-----------------------------------------------------------------------------
USE LoopAssumption

LEMMA GateTyped ==
  ASSUME NEW c \in Contexts
  PROVE  Evaluate(c) \in Outcomes
  BY DEF Evaluate, Outcomes

LEMMA StopReasonTyped ==
  ASSUME NEW c \in Contexts, Evaluate(c) # "proceed"
  PROVE  StopReason(Evaluate(c)) \in {"gate_held", "gate_refused"}
  BY DEF StopReason

LEMMA NotRunningTyped == NotRunning \in Locals
  BY DEF NotRunning, Locals

LEMMA WantedTyped ==
  ASSUME NEW c, NEW a \in Wanted(c)
  PROVE  /\ a \in Action
         /\ a.kind \in Runnable <=> a.kind \notin Escalations
         /\ a.kind \in Runnable => a \in SessionActions
<1> DEFINE project == {"status", "map", "discover"}
<1> DEFINE hunts   == {"sibling_hunt", "disclosure", "disclosure_send", "verify_escalation"}
<1>1. \A kind \in project, condition \in BOOLEAN : \A x \in Once(kind, condition) :
          x = [kind |-> kind, finding |-> NoFinding]
  BY DEF Once, On
<1>2. \A kind \in hunts, targets \in SUBSET Findings : \A x \in On(kind, targets) :
          \E f \in Findings : x = [kind |-> kind, finding |-> f]
  BY DEF On
<1>3. \A s : In(s) \in SUBSET Findings
  BY DEF In
<1>4. \/ \E kind \in project : a = [kind |-> kind, finding |-> NoFinding]
      \/ \E kind \in hunts, f \in Findings : a = [kind |-> kind, finding |-> f]
  <2>1. CASE \E kind \in project, condition \in BOOLEAN : a \in Once(kind, condition)
    BY <1>1, <2>1
  <2>2. CASE \E kind \in hunts, targets \in SUBSET Findings : a \in On(kind, targets)
    BY <1>2, <2>2
  <2>3. \/ a \in Once("status", CompletedSessions("status") = {})
        \/ a \in Once("map", ~(InScope(c) \subseteq Covered))
        \/ a \in Once("discover", Covered # {} /\ ~DiscoverCurrent)
        \/ a \in On("sibling_hunt", In("verified") \ HuntedBefore)
        \/ a \in On("disclosure", In("verified") \ Drafted)
        \/ a \in On("disclosure_send", In("verified") \cap Drafted)
        \/ a \in On("verify_escalation", In("candidate"))
    BY DEF Wanted
  <2>4. /\ (CompletedSessions("status") = {}) \in BOOLEAN
        /\ (~(InScope(c) \subseteq Covered)) \in BOOLEAN
        /\ (Covered # {} /\ ~DiscoverCurrent) \in BOOLEAN
        /\ In("verified") \ HuntedBefore \in SUBSET Findings
        /\ In("verified") \ Drafted \in SUBSET Findings
        /\ In("verified") \cap Drafted \in SUBSET Findings
        /\ In("candidate") \in SUBSET Findings
    BY <1>3
  <2> QED BY <2>1, <2>2, <2>3, <2>4
<1> QED BY <1>4 DEF Action, Runnable, Escalations, SessionActions

LEMMA ProposalsTyped ==
  ASSUME NEW c, NEW done, NEW a \in Proposals(c, done)
  PROVE  /\ a \in Action /\ a \notin done /\ a \in Wanted(c)
         /\ a.kind \in Runnable <=> a.kind \notin Escalations
         /\ a.kind \in Runnable => a \in SessionActions
<1>1. a \in Wanted(c) /\ a \notin done
  BY DEF Proposals
<1> QED BY <1>1, WantedTyped

LEMMA EscalationsTyped ==
  ASSUME NEW t \in PendingEscalations
  PROVE  t \in LoopStep /\ t.session = 0
<1>1. PICK a \in On("disclosure_send", In("verified") \cap Drafted)
                   \cup On("verify_escalation", In("candidate")) :
        t = [kind |-> a.kind, finding |-> a.finding, session |-> 0, gate |-> "none", close |-> "none"]
  BY DEF PendingEscalations
<1>2. a.kind \in Escalations /\ a.finding \in Findings
  BY <1>1 DEF On, In, Escalations
<1> QED BY <1>1, <1>2 DEF LoopStep
-----------------------------------------------------------------------------
\* The session that run_session records, and its row of the trace.
SessionRow(outcome) ==
    [type |-> run.action.kind, gate |-> outcome, close |-> "clean",
     touched |-> IF outcome = "proceed" THEN Touched(run.action) ELSE NoFinding]

TraceRow(outcome) ==
    [kind |-> run.action.kind, finding |-> run.action.finding,
     session |-> NextId, gate |-> outcome, close |-> "clean"]

LEMMA SessionStep ==
  ASSUME LoopTyped, RunSession
  PROVE  LET outcome == Evaluate(context)
             step    == TraceRow(outcome)
         IN /\ pc = "acting" /\ outcome \in Outcomes
            /\ run.action \in SessionActions /\ run.action.kind \in Runnable
            /\ NextId \in Nat \ {0} /\ NextId = Len(sessions) + 1
            /\ step \in LoopStep
            /\ SessionRow(outcome) \in SessionRecord
            /\ sessions' = Append(sessions, SessionRow(outcome))
            /\ run' = [run EXCEPT !.trace = @ \cup {step}, !.spent = @ + 1, !.action = NoAction,
                                  !.stop = IF outcome = "proceed" THEN "none" ELSE StopReason(outcome)]
            /\ pc' = IF outcome = "proceed" THEN "selecting" ELSE "stopping"
            /\ UNCHANGED <<context, checkout, status, loops, events, settled>>
            /\ outcome = "proceed" => Work(run.action)
            /\ outcome # "proceed" => UNCHANGED <<coverage, drafts>>
<1> DEFINE outcome == Evaluate(context)
<1>1. context \in Contexts /\ sessions \in Seq(SessionRecord) /\ pc = "acting"
  BY DEF LoopTyped, TypeOK, RunSession
<1>2. outcome \in Outcomes
  BY <1>1, GateTyped
<1>3. run.action \in SessionActions
  BY <1>1 DEF LoopTyped
<1>4. run.action.kind \in Runnable /\ run.action.finding \in Findings \cup {NoFinding}
  BY <1>3 DEF SessionActions, Runnable
<1>5. NextId \in Nat \ {0} /\ NextId = Len(sessions) + 1
  BY <1>1 DEF NextId
<1> HIDE DEF outcome
<1>6. TraceRow(outcome) \in LoopStep
  BY <1>2, <1>4, <1>5 DEF TraceRow, LoopStep
<1>7. SessionRow(outcome) \in SessionRecord
  BY <1>2, <1>4 DEF SessionRow, SessionRecord, Touched
<1>8. /\ sessions' = Append(sessions, SessionRow(outcome))
      /\ run' = [run EXCEPT !.trace = @ \cup {TraceRow(outcome)}, !.spent = @ + 1, !.action = NoAction,
                            !.stop = IF outcome = "proceed" THEN "none" ELSE StopReason(outcome)]
      /\ pc' = IF outcome = "proceed" THEN "selecting" ELSE "stopping"
      /\ UNCHANGED <<context, checkout, status, loops, events, settled>>
      /\ outcome = "proceed" => Work(run.action)
      /\ outcome # "proceed" => UNCHANGED <<coverage, drafts>>
  BY DEF RunSession, SessionRow, TraceRow, outcome
<1> QED BY <1>1, <1>2, <1>3, <1>4, <1>5, <1>6, <1>7, <1>8 DEF outcome

\* What a turn of the driver may come to.
LEMMA SelectStep ==
  ASSUME LoopTyped, Select
  PROVE  /\ pc = "selecting" /\ UNCHANGED <<store, events, settled>>
         /\ \/ /\ Proposals(run.seen, Done(run.trace)) = {}
               /\ Stop("fixed_point", NoAction, {})
            \/ \E action \in Proposals(run.seen, Done(run.trace)) :
                 /\ action \in Action /\ action \notin Done(run.trace) /\ action \in Wanted(run.seen)
                 /\ \/ Stop("budget_exhausted", action, {}) /\ (run.late \/ WouldExceed)
                    \/ /\ action.kind \in Escalations /\ action.kind \notin Runnable
                       /\ Stop("hard_stop", NoAction, PendingEscalations)
                    \/ /\ action.kind \in Runnable /\ ~WouldExceed /\ ~run.late
                       /\ action \in SessionActions
                       /\ run' = [run EXCEPT !.action = action] /\ pc' = "acting"
<1>1. \A a \in Proposals(run.seen, Done(run.trace)) :
        /\ a \in Action /\ a \notin Done(run.trace) /\ a \in Wanted(run.seen)
        /\ a.kind \in Runnable <=> a.kind \notin Escalations
        /\ a.kind \in Runnable => a \in SessionActions
  BY ProposalsTyped
<1> QED BY <1>1 DEF Select

LEMMA SessionsAppend ==
  ASSUME LoopTyped, NEW record \in SessionRecord, sessions' = Append(sessions, record)
  PROVE  /\ sessions' \in Seq(SessionRecord)
         /\ Len(sessions') = NextId /\ DOMAIN sessions \subseteq DOMAIN sessions'
         /\ NextId \in DOMAIN sessions' /\ NextId \notin DOMAIN sessions
         /\ sessions'[NextId] = record
         /\ \A i \in DOMAIN sessions : sessions'[i] = sessions[i]
<1>1. sessions \in Seq(SessionRecord)
  BY DEF LoopTyped, TypeOK
<1> QED BY <1>1 DEF NextId

LEMMA LoopTypedInit == Init => LoopTyped
<1> SUFFICES ASSUME Init PROVE LoopTyped
  OBVIOUS
<1>1. TypeOK
  <2>1. sessions \in Seq(SessionRecord) /\ loops \in Seq(LoopRun) /\ drafts \subseteq DOMAIN sessions
    BY DEF Init
  <2>2. run \in Locals
    BY NotRunningTyped DEF Init
  <2>3. status \in [Findings -> FindingState] /\ coverage \in [Areas -> Nat]
    BY DEF Init, FindingState
  <2> QED BY <2>1, <2>2, <2>3 DEF Init, TypeOK
<1> QED BY <1>1 DEF Init, LoopTyped, NotRunning

LEMMA StartTyped ==
  ASSUME LoopTyped, Start
  PROVE  LoopTyped'
<1> USE DEF LoopTyped, TypeOK
<1>1. PICK budget \in Budgets :
        LET proceeds == Evaluate(context) = "proceed"
        IN /\ run' = [NotRunning EXCEPT
                        !.seen = context, !.budget = budget,
                        !.stop = IF proceeds THEN "none" ELSE StopReason(Evaluate(context))]
           /\ pc' = IF proceeds THEN "selecting" ELSE "stopping"
  BY DEF Start
<1>2. UNCHANGED <<context, checkout, sessions, coverage, status, drafts, loops, events>>
  BY DEF Start, store
<1>3. Evaluate(context) # "proceed" => StopReason(Evaluate(context)) \in {"gate_held", "gate_refused"}
  BY StopReasonTyped
<1>4. run' \in Locals
  BY <1>1, <1>3, NotRunningTyped DEF Locals, StopReasons
<1>5. run'.stop = IF Evaluate(context) = "proceed" THEN "none" ELSE StopReason(Evaluate(context))
  BY <1>1, NotRunningTyped DEF Locals
<1>6. pc' = IF Evaluate(context) = "proceed" THEN "selecting" ELSE "stopping"
  BY <1>1
<1>7. settled' \in {"no", "running", "yes"}
  BY DEF Start
<1> QED BY <1>2, <1>3, <1>4, <1>5, <1>6, <1>7

LEMMA SelectTyped ==
  ASSUME LoopTyped, Select
  PROVE  LoopTyped'
<1> USE DEF LoopTyped, TypeOK
<1>1. UNCHANGED <<context, checkout, sessions, coverage, status, drafts, loops, events, settled>>
  BY SelectStep DEF store
<1>2. ASSUME NEW reason \in StopReasons, NEW planned \in Action \cup {NoAction},
             NEW escalated \in SUBSET LoopStep, Stop(reason, planned, escalated)
      PROVE  LoopTyped'
  <2>1. run' \in Locals
    BY <1>2 DEF Stop, Locals
  <2>2. run'.stop = reason /\ pc' = "stopping" /\ reason # "none"
    BY <1>2 DEF Stop, Locals, StopReasons
  <2> QED BY <1>1, <2>1, <2>2
<1>3. PendingEscalations \in SUBSET LoopStep
  BY EscalationsTyped
<1>4. ASSUME NEW action \in Action, action \in SessionActions,
             run' = [run EXCEPT !.action = action], pc' = "acting"
      PROVE  LoopTyped'
  <2>1. run' \in Locals
    BY <1>4 DEF Locals
  <2>2. run'.action = action /\ run'.stop = run.stop
    BY <1>4 DEF Locals
  <2>3. run.stop = "none"
    BY SelectStep
  <2> QED BY <1>1, <1>4, <2>1, <2>2, <2>3
<1> QED BY <1>2, <1>3, <1>4, SelectStep DEF StopReasons

LEMMA SessionTyped ==
  ASSUME LoopTyped, RunSession
  PROVE  LoopTyped'
<1> DEFINE outcome == Evaluate(context)
<1> DEFINE reason  == IF outcome = "proceed" THEN "none" ELSE StopReason(outcome)
<1>1. /\ sessions' \in Seq(SessionRecord)
      /\ NextId \in DOMAIN sessions' /\ DOMAIN sessions \subseteq DOMAIN sessions'
  BY SessionStep, SessionsAppend
<1>2. context \in Contexts /\ drafts \subseteq DOMAIN sessions /\ coverage \in [Areas -> Nat]
      /\ run \in Locals
  BY DEF LoopTyped, TypeOK
<1>3. drafts' \subseteq DOMAIN sessions'
  BY <1>1, <1>2, SessionStep DEF Work
<1>4. coverage' \in [Areas -> Nat]
  BY <1>2, SessionStep DEF Work, Cover
<1>5. reason \in StopReasons \cup {"none"} /\ (reason = "none" <=> outcome = "proceed")
  BY <1>2, StopReasonTyped DEF StopReasons
<1> HIDE DEF outcome, reason
<1>6. /\ run' = [run EXCEPT !.trace = @ \cup {TraceRow(outcome)}, !.spent = @ + 1,
                            !.action = NoAction, !.stop = reason]
      /\ TraceRow(outcome) \in LoopStep
  BY SessionStep DEF outcome, reason
<1>7. run' \in Locals /\ run'.stop = reason
  <2> DEFINE trace == run.trace \cup {TraceRow(outcome)}
  <2> DEFINE spent == run.spent + 1
  <2>1. trace \in SUBSET LoopStep /\ spent \in Nat
    BY <1>2, <1>6 DEF Locals
  <2>2. run' = [run EXCEPT !.trace = trace, !.spent = spent, !.action = NoAction, !.stop = reason]
    BY <1>2, <1>6 DEF Locals
  <2> HIDE DEF trace, spent
  <2> QED BY <1>2, <1>5, <2>1, <2>2 DEF Locals
<1>8. /\ pc' = IF outcome = "proceed" THEN "selecting" ELSE "stopping"
      /\ UNCHANGED <<context, checkout, status, loops, events, settled>>
  BY SessionStep DEF outcome
<1>9. TypeOK'
  BY <1>1, <1>3, <1>4, <1>7, <1>8 DEF LoopTyped, TypeOK
<1> QED BY <1>5, <1>7, <1>8, <1>9 DEF LoopTyped

LEMMA SaveTyped ==
  ASSUME LoopTyped, SaveRun
  PROVE  LoopTyped'
<1> DEFINE saved == [stop |-> run.stop, sessions_run |-> run.spent, budget |-> run.budget,
                     trace |-> run.trace, planned |-> run.action]
<1>1. run \in Locals /\ run.stop # "none" /\ loops \in Seq(LoopRun)
  BY DEF LoopTyped, TypeOK, SaveRun
<1>2. run.stop \in StopReasons
  BY <1>1 DEF Locals
<1>3. run.budget \in Budget /\ run.spent \in Nat /\ run.trace \in SUBSET LoopStep
      /\ run.action \in Action \cup {NoAction}
  BY <1>1 DEF Locals
<1>4. saved \in LoopRun
  BY <1>2, <1>3 DEF LoopRun
<1>5. loops' = Append(loops, saved)
  BY DEF SaveRun
<1> HIDE DEF saved
<1>6. loops' \in Seq(LoopRun)
  BY <1>1, <1>4, <1>5
<1>7. /\ pc' = "idle" /\ run' = NotRunning /\ settled' \in {"no", "yes"}
      /\ UNCHANGED <<context, checkout, sessions, coverage, status, drafts, events>>
  BY DEF SaveRun
<1>8. run' \in Locals /\ run'.stop = "none"
  BY <1>7, NotRunningTyped DEF NotRunning
<1> QED BY <1>6, <1>7, <1>8 DEF LoopTyped, TypeOK

LEMMA TimeTyped ==
  ASSUME LoopTyped, TimePasses
  PROVE  LoopTyped'
<1>1. run \in Locals /\ run' = [run EXCEPT !.late = TRUE]
  BY DEF LoopTyped, TypeOK, TimePasses
<1>2. run' \in Locals /\ run'.stop = run.stop /\ run'.action = run.action
  BY <1>1 DEF Locals
<1>3. UNCHANGED <<context, checkout, sessions, coverage, status, drafts, loops, pc, events, settled>>
  BY DEF TimePasses, store
<1> QED BY <1>2, <1>3 DEF LoopTyped, TypeOK

LEMMA FailureTyped ==
  ASSUME LoopTyped, SessionFails
  PROVE  LoopTyped'
<1>1. PICK gate \in {"none"} \cup ({"proceed"} \cap {Evaluate(context)}) :
         sessions' = Append(sessions, [type |-> run.action.kind, gate |-> gate,
                                       close |-> "interrupted", touched |-> NoFinding])
  BY DEF SessionFails
<1> DEFINE record == [type |-> run.action.kind, gate |-> gate,
                      close |-> "interrupted", touched |-> NoFinding]
<1>2. run.action.kind \in Runnable
  BY DEF LoopTyped, SessionFails, SessionActions, Runnable
<1>3. record \in SessionRecord
  BY <1>2 DEF SessionRecord, Outcomes
<1> HIDE DEF record
<1>4. sessions' \in Seq(SessionRecord) /\ DOMAIN sessions \subseteq DOMAIN sessions'
  BY <1>1, <1>3, SessionsAppend DEF record
<1>5. coverage' \in [Areas -> Nat]
  BY DEF LoopTyped, TypeOK, SessionFails, Cover, NextId
<1>6. /\ pc' = "idle" /\ run' = NotRunning /\ settled' = "no" /\ events' = events + 1
      /\ UNCHANGED <<context, checkout, status, drafts, loops>>
  BY DEF SessionFails, Event
<1>7. run' \in Locals /\ run'.stop = "none"
  BY <1>6, NotRunningTyped DEF NotRunning
<1> QED BY <1>4, <1>5, <1>6, <1>7 DEF LoopTyped, TypeOK

\* What people do leaves the loop where it is.
PeopleNext == EditProject \/ ChangeStatus \/ DiscoverWithSarif \/ LoseDrafts

LEMMA PeopleTyped ==
  ASSUME LoopTyped, PeopleNext
  PROVE  LoopTyped' /\ settled' = "no" /\ UNCHANGED <<pc, run, loops>>
<1> USE DEF LoopTyped, TypeOK
<1>1. settled' = "no" /\ UNCHANGED <<pc, run, loops>> /\ events' = events + 1
  BY DEF PeopleNext, EditProject, ChangeStatus, DiscoverWithSarif, LoseDrafts, Event
<1>2. CASE EditProject
  BY <1>1, <1>2 DEF EditProject
<1>3. CASE ChangeStatus
  <2>1. status' \in [Findings -> FindingState]
    BY <1>3 DEF ChangeStatus
  <2> QED BY <1>1, <1>3, <2>1 DEF ChangeStatus
<1>4. CASE DiscoverWithSarif
  <2> DEFINE record == [type |-> "discover", gate |-> "proceed", close |-> "clean", touched |-> NoFinding]
  <2>1. record \in SessionRecord
    BY DEF SessionRecord, Runnable, Outcomes
  <2> HIDE DEF record
  <2>2. sessions' \in Seq(SessionRecord) /\ DOMAIN sessions \subseteq DOMAIN sessions'
    BY <1>4, <2>1, SessionsAppend DEF DiscoverWithSarif, record
  <2>3. coverage' \in [Areas -> Nat]
    BY <1>4 DEF DiscoverWithSarif, Cover, NextId
  <2>4. status' \in [Findings -> FindingState]
    BY <1>4 DEF DiscoverWithSarif, FindingState
  <2> QED BY <1>1, <1>4, <2>2, <2>3, <2>4 DEF DiscoverWithSarif
<1>5. CASE LoseDrafts
  BY <1>1, <1>5 DEF LoseDrafts
<1> QED BY <1>1, <1>2, <1>3, <1>4, <1>5 DEF PeopleNext

LEMMA CrashTyped ==
  ASSUME LoopTyped, Crash
  PROVE  LoopTyped'
<1>1. /\ pc' = "idle" /\ run' = NotRunning /\ settled' = "no" /\ events' = events + 1
      /\ UNCHANGED <<context, checkout, sessions, coverage, status, drafts, loops>>
  BY DEF Crash, Event, store
<1>2. run' \in Locals /\ run'.stop = "none"
  BY <1>1, NotRunningTyped DEF NotRunning
<1> QED BY <1>1, <1>2 DEF LoopTyped, TypeOK

LEMMA LoopTypedNext == LoopTyped /\ [Next]_vars => LoopTyped'
<1> SUFFICES ASSUME LoopTyped, [Next]_vars PROVE LoopTyped'
  OBVIOUS
<1>1. CASE UNCHANGED vars
  BY <1>1 DEF vars, LoopTyped, TypeOK
<1>2. CASE Next
  BY <1>2, StartTyped, SelectTyped, SessionTyped, SaveTyped, TimeTyped, FailureTyped, PeopleTyped,
     CrashTyped DEF Next, LoopStepNext, PeopleNext
<1> QED BY <1>1, <1>2

\* The types hold, whatever the loop, its failures and people do to the store.
THEOREM LoopTyping == Spec => []TypeOK
<1>1. LoopTyped => TypeOK
  BY DEF LoopTyped
<1> QED BY <1>1, LoopTypedInit, LoopTypedNext, PTL DEF Spec
-----------------------------------------------------------------------------
LEMMA AddOne ==
  ASSUME NEW S, NEW x, IsFiniteSet(S)
  PROVE  /\ IsFiniteSet(S \cup {x}) /\ Cardinality(S) \in Nat /\ Cardinality(S \cup {x}) \in Nat
         /\ Cardinality(S \cup {x}) <= Cardinality(S) + 1
         /\ x \notin S => Cardinality(S \cup {x}) = Cardinality(S) + 1
<1>1. Cardinality(S) \in Nat
  BY FS_CardinalityType
<1>2. /\ IsFiniteSet(S \cup {x})
      /\ Cardinality(S \cup {x}) = IF x \in S THEN Cardinality(S) ELSE Cardinality(S) + 1
  BY FS_AddElement
<1> QED BY <1>1, <1>2

LEMMA UnionBound ==
  ASSUME NEW S, NEW T, IsFiniteSet(S), IsFiniteSet(T)
  PROVE  /\ IsFiniteSet(S \cup T) /\ Cardinality(S \cup T) \in Nat
         /\ Cardinality(S \cup T) <= Cardinality(S) + Cardinality(T)
<1>1. IsFiniteSet(S \cap T)
  BY FS_Subset
<1>2. /\ Cardinality(S) \in Nat /\ Cardinality(T) \in Nat /\ Cardinality(S \cap T) \in Nat
  BY <1>1, FS_CardinalityType
<1>3. /\ IsFiniteSet(S \cup T)
      /\ Cardinality(S \cup T) = Cardinality(S) + Cardinality(T) - Cardinality(S \cap T)
  BY FS_Union
<1> QED BY <1>2, <1>3, FS_CardinalityType

LEMMA ThreeAtMost ==
  ASSUME NEW x, NEW y, NEW z
  PROVE  /\ IsFiniteSet({x, y, z}) /\ Cardinality({x, y, z}) \in Nat
         /\ Cardinality({x, y, z}) <= 3
<1> DEFINE f == [i \in 1 .. 3 |-> IF i = 1 THEN x ELSE IF i = 2 THEN y ELSE z]
<1>1. f \in Surjection(1 .. 3, {x, y, z})
  <2>1. f[1] = x /\ f[2] = y /\ f[3] = z
    OBVIOUS
  <2>2. f \in [1 .. 3 -> {x, y, z}]
    OBVIOUS
  <2> HIDE DEF f
  <2> QED BY <2>1, <2>2 DEF Surjection
<1>2. \A n \in Nat : IsFiniteSet(1 .. n) /\ Cardinality(1 .. n) = n
  BY FS_Interval
<1> HIDE DEF f
<1>3. IsFiniteSet(1 .. 3) /\ Cardinality(1 .. 3) = 3
  BY <1>2, 3 \in Nat, Zenon
<1> QED BY <1>1, <1>3, FS_Surjection, FS_CardinalityType

LEMMA OneActionEach ==
  ASSUME NEW kind
  PROVE  /\ IsFiniteSet(On(kind, Findings))
         /\ Cardinality(On(kind, Findings)) <= Cardinality(Findings)
<1> DEFINE f == [x \in Findings |-> [kind |-> kind, finding |-> x]]
<1>1. f \in Surjection(Findings, On(kind, Findings))
  BY DEF On, Surjection
<1> QED BY <1>1, FS_Surjection

\* There are three actions of the project, and two for each finding.
LEMMA FewActions ==
  /\ IsFiniteSet(SessionActions)
  /\ Cardinality(SessionActions) <= 3 + 2 * Cardinality(Findings)
<1> DEFINE action(k) == [kind |-> k, finding |-> NoFinding]
<1> DEFINE project == {action("status"), action("map"), action("discover")}
<1> DEFINE hunts   == On("sibling_hunt", Findings)
<1> DEFINE drafted == On("disclosure", Findings)
<1>1. IsFiniteSet(project) /\ Cardinality(project) \in Nat /\ Cardinality(project) <= 3
  BY ThreeAtMost
<1>2. /\ IsFiniteSet(hunts) /\ Cardinality(hunts) <= Cardinality(Findings)
      /\ IsFiniteSet(drafted) /\ Cardinality(drafted) <= Cardinality(Findings)
  BY OneActionEach
<1>3. /\ Cardinality(hunts) \in Nat /\ Cardinality(drafted) \in Nat
      /\ Cardinality(Findings) \in Nat
  BY <1>2, FS_CardinalityType
<1>4. SessionActions = (project \cup hunts) \cup drafted
  BY DEF SessionActions, On
<1> HIDE DEF project, hunts, drafted
<1>5. /\ IsFiniteSet(project \cup hunts)
      /\ Cardinality(project \cup hunts) \in Nat
      /\ Cardinality(project \cup hunts) <= 3 + Cardinality(Findings)
  BY <1>1, <1>2, <1>3, UnionBound
<1>6. /\ IsFiniteSet((project \cup hunts) \cup drafted)
      /\ Cardinality((project \cup hunts) \cup drafted) <= 3 + 2 * Cardinality(Findings)
  BY <1>2, <1>3, <1>5, UnionBound
<1> QED BY <1>4, <1>6

\* Distinct actions: so many sessions a run has.
LEMMA RunIsBounded ==
  ASSUME LoopTyped, Counted
  PROVE  BoundedWithoutBudget
<1>1. Done(Ran(run.trace)) \subseteq SessionActions /\ Cardinality(Done(Ran(run.trace))) = run.spent
  BY DEF Counted
<1>2. run.spent <= Cardinality(SessionActions)
  BY <1>1, FewActions, FS_Subset
<1>3. Cardinality(SessionActions) \in Nat /\ Cardinality(Findings) \in Nat /\ run.spent \in Nat
  BY FewActions, FS_CardinalityType DEF LoopTyped, TypeOK, Locals
<1> QED BY <1>2, <1>3, FewActions DEF BoundedWithoutBudget

LEMMA NothingRan == Ran({}) = {} /\ Done({}) = {} /\ IsFiniteSet({}) /\ Cardinality({}) = 0
  BY FS_EmptySet DEF Ran, Done

\* A run that has not begun.
LEMMA FreshRun ==
  ASSUME run'.trace = {}, run'.spent = 0, run'.late = FALSE, pc' # "acting", run'.budget \in Budgets,
         run'.stop # "budget_exhausted"
  PROVE  (Counted /\ InBudget)'
<1>1. Counted'
  BY NothingRan DEF Counted
<1>2. InBudget'
  BY DEF InBudget, Budget
<1> QED BY <1>1, <1>2

\* A step that leaves the trace and the count as they are.
LEMMA SameCount ==
  ASSUME Counted, Ran(run'.trace) = Ran(run.trace), run'.spent = run.spent,
         pc' # "stopping" => pc # "stopping" /\ run'.trace = run.trace,
         pc' = "acting" => run'.action \notin Done(Ran(run.trace))
  PROVE  Counted'
  BY DEF Counted

LEMMA SelectCounts ==
  ASSUME LoopTyped, Counted, InBudget, Select
  PROVE  Counted' /\ InBudget'
<1>1. run \in Locals /\ pc = "selecting" /\ run.trace = Ran(run.trace)
  BY SelectStep DEF LoopTyped, TypeOK, Counted
<1>2. run.budget \in Budget /\ run.spent \in Nat
  BY <1>1 DEF Locals
<1>3. ASSUME NEW reason \in StopReasons, NEW planned, NEW escalated,
             \A t \in escalated : t.session = 0, Stop(reason, planned, escalated),
             reason = "budget_exhausted" => planned \in Action /\ (run.late \/ WouldExceed)
      PROVE  Counted' /\ InBudget'
  <2>1. /\ run'.trace = run.trace \cup escalated /\ run'.spent = run.spent /\ pc' = "stopping"
        /\ run'.budget = run.budget /\ run'.late = run.late /\ run'.stop = reason
        /\ run'.action = planned
    BY <1>1, <1>3 DEF Stop, Locals
  <2>2. Ran(run'.trace) = Ran(run.trace)
    BY <1>3, <2>1 DEF Ran
  <2>3. Counted'
    BY <2>1, <2>2, SameCount
  <2>4. InBudget'
    BY <1>2, <1>3, <2>1 DEF InBudget, WouldExceed, Budget
  <2> QED BY <2>3, <2>4
<1>4. ASSUME NEW action, action \notin Done(run.trace), ~WouldExceed,
             run' = [run EXCEPT !.action = action], pc' = "acting"
      PROVE  Counted' /\ InBudget'
  <2>1. /\ run'.trace = run.trace /\ run'.spent = run.spent /\ run'.action = action
        /\ run'.budget = run.budget /\ run'.late = run.late /\ run'.stop = run.stop
    BY <1>1, <1>4 DEF Locals
  <2>2. Counted'
    BY <1>1, <1>4, <2>1, SameCount
  <2>3. run.stop = "none"
    BY <1>1 DEF LoopTyped
  <2>4. InBudget'
    BY <1>2, <1>4, <2>1, <2>3 DEF InBudget, WouldExceed, Budget
  <2> QED BY <2>2, <2>4
<1>5. \A t \in PendingEscalations : t.session = 0
  BY EscalationsTyped
<1> QED BY <1>3, <1>4, <1>5, SelectStep DEF StopReasons

LEMMA SessionCounts ==
  ASSUME LoopTyped, Counted, InBudget, RunSession
  PROVE  Counted' /\ InBudget'
<1> DEFINE outcome == Evaluate(context)
<1> DEFINE row     == TraceRow(outcome)
<1> DEFINE reason  == IF outcome = "proceed" THEN "none" ELSE StopReason(outcome)
<1>1. /\ run \in Locals /\ pc = "acting" /\ run.trace = Ran(run.trace)
      /\ run.action \notin Done(run.trace) /\ run.action \in SessionActions
  BY SessionStep DEF LoopTyped, TypeOK, Counted
<1>2. run.budget \in Budget /\ run.spent \in Nat
  BY <1>1 DEF Locals
<1>3. /\ row.session # 0 /\ row.kind = run.action.kind /\ row.finding = run.action.finding
      /\ [kind |-> row.kind, finding |-> row.finding] = run.action
  BY <1>1, SessionStep DEF TraceRow, SessionActions
<1>4. reason # "budget_exhausted"
  BY StopReasonTyped DEF LoopTyped, TypeOK
<1>5. /\ run' = [run EXCEPT !.trace = @ \cup {row}, !.spent = @ + 1, !.action = NoAction, !.stop = reason]
      /\ pc' # "acting"
  BY SessionStep
<1> HIDE DEF reason, row
<1>6. /\ run'.trace = run.trace \cup {row} /\ run'.spent = run.spent + 1
      /\ run'.budget = run.budget /\ run'.late = run.late /\ run'.stop = reason
  BY <1>1, <1>5 DEF Locals
<1>7. Ran(run'.trace) = run.trace \cup {row}
  BY <1>1, <1>3, <1>6 DEF Ran
<1>8. Done(Ran(run'.trace)) = Done(run.trace) \cup {run.action}
  BY <1>3, <1>7 DEF Done
<1>9. row \notin run.trace
  BY <1>1, <1>3 DEF Done
<1>10. /\ IsFiniteSet(run.trace) /\ Cardinality(run.trace) = run.spent
       /\ Cardinality(Done(run.trace)) = run.spent /\ Done(run.trace) \subseteq SessionActions
  BY <1>1 DEF Counted
<1>11. IsFiniteSet(Done(run.trace))
  BY <1>10, FewActions, FS_Subset
<1>12. /\ IsFiniteSet(Ran(run'.trace)) /\ Cardinality(Ran(run'.trace)) = run'.spent
       /\ Cardinality(Done(Ran(run'.trace))) = run'.spent
  <2>1. /\ IsFiniteSet(run.trace \cup {row})
        /\ Cardinality(run.trace \cup {row}) = Cardinality(run.trace) + 1
    BY <1>9, <1>10, AddOne
  <2>2. Cardinality(Done(run.trace) \cup {run.action}) = Cardinality(Done(run.trace)) + 1
    BY <1>1, <1>11, AddOne
  <2> QED BY <1>6, <1>7, <1>8, <1>10, <2>1, <2>2
<1>13. Counted'
  BY <1>1, <1>5, <1>6, <1>7, <1>8, <1>10, <1>12 DEF Counted
<1>14. InBudget'
  BY <1>1, <1>2, <1>4, <1>5, <1>6 DEF InBudget, Budget
<1> QED BY <1>13, <1>14

\* The second part of BudgetIsExact, about one recorded run.
Exact(l) ==
    /\ l.sessions_run = Cardinality(Ran(l.trace))
    /\ l.budget.sessions # NoLimit => l.sessions_run <= l.budget.sessions
    /\ l.stop = "budget_exhausted" =>
         /\ l.planned # NoAction
         /\ ~l.budget.wall => l.sessions_run = l.budget.sessions

LEMMA ExactParts == BudgetIsExact <=> BoundedWithoutBudget /\ \A i \in DOMAIN loops : Exact(loops[i])
  BY DEF BudgetIsExact, Exact

LEMMA SaveExact ==
  ASSUME LoopTyped, Counted, InBudget, \A i \in DOMAIN loops : Exact(loops[i]), SaveRun
  PROVE  \A i \in DOMAIN loops' : Exact(loops'[i])
<1> DEFINE saved == [stop |-> run.stop, sessions_run |-> run.spent, budget |-> run.budget,
                     trace |-> run.trace, planned |-> run.action]
<1>1. Exact(saved)
  BY DEF Exact, Counted, InBudget
<1>2. loops' = Append(loops, saved) /\ loops \in Seq(LoopRun)
  BY DEF SaveRun, LoopTyped, TypeOK
<1> HIDE DEF saved
<1> QED BY <1>1, <1>2

LEMMA BudgetInit == Init => BudgetInv
<1> SUFFICES ASSUME Init PROVE BudgetInv
  OBVIOUS
<1>1. run.trace = {} /\ run.spent = 0 /\ run.late = FALSE /\ run.stop = "none" /\ run.budget \in Budgets
  BY DEF Init, NotRunning
<1>2. Counted
  BY <1>1, NothingRan DEF Init, Counted
<1>3. InBudget
  BY <1>1 DEF Init, InBudget, Budget
<1> QED BY <1>2, <1>3, LoopTypedInit, RunIsBounded, ExactParts DEF Init, BudgetInv

LEMMA BudgetNext == LoopTyped /\ BudgetInv /\ [Next]_vars => BudgetInv'
<1> SUFFICES ASSUME LoopTyped, BudgetInv, [Next]_vars PROVE BudgetInv'
  OBVIOUS
<1>1. LoopTyped' /\ Counted /\ InBudget /\ run \in Locals
  BY LoopTypedNext DEF BudgetInv, LoopTyped, TypeOK
<1>2. \A i \in DOMAIN loops : Exact(loops[i])
  BY ExactParts DEF BudgetInv
<1>3. ASSUME run' = NotRunning, pc' = "idle" PROVE (Counted /\ InBudget)'
  BY <1>3, FreshRun DEF NotRunning
<1>4. (Counted /\ InBudget)'
  <2>1. CASE Start
    <3>1. PICK budget \in Budgets :
            run' = [NotRunning EXCEPT
                      !.seen = context, !.budget = budget,
                      !.stop = IF Evaluate(context) = "proceed" THEN "none"
                               ELSE StopReason(Evaluate(context))]
      BY <2>1 DEF Start
    <3>2. /\ run'.trace = {} /\ run'.spent = 0 /\ run'.late = FALSE /\ run'.budget = budget
          /\ run'.stop = IF Evaluate(context) = "proceed" THEN "none" ELSE StopReason(Evaluate(context))
      BY <3>1 DEF NotRunning
    <3>3. run'.stop # "budget_exhausted"
      BY <3>2, StopReasonTyped DEF LoopTyped, TypeOK
    <3>4. pc' # "acting"
      BY <2>1 DEF Start
    <3> QED BY <3>2, <3>3, <3>4, FreshRun
  <2>2. CASE TimePasses
    <3>1. /\ run' = [run EXCEPT !.late = TRUE] /\ pc' = pc /\ run.budget.wall
      BY <2>2 DEF TimePasses
    <3>2. /\ run'.trace = run.trace /\ run'.spent = run.spent /\ run'.action = run.action
          /\ run'.budget = run.budget /\ run'.stop = run.stop
      BY <1>1, <3>1 DEF Locals
    <3>3. Counted'
      BY <1>1, <3>1, <3>2 DEF Counted
    <3> QED BY <1>1, <3>1, <3>2, <3>3 DEF InBudget
  <2>3. CASE UNCHANGED <<pc, run>>
    BY <1>1, <2>3 DEF Counted, InBudget
  <2>4. CASE SaveRun \/ SessionFails \/ Crash
    BY <1>3, <2>4 DEF SaveRun, SessionFails, Crash
  <2> QED BY <1>1, <2>1, <2>2, <2>3, <2>4, SelectCounts, SessionCounts, PeopleTyped
          DEF Next, LoopStepNext, PeopleNext, vars
<1>5. \A i \in DOMAIN loops' : Exact(loops'[i])
  <2>1. CASE SaveRun
    BY <1>1, <1>2, <2>1, SaveExact
  <2>2. CASE UNCHANGED loops
    BY <1>2, <2>2
  <2>3. SaveRun \/ UNCHANGED loops
    BY PeopleTyped, SelectStep, SessionStep
       DEF Next, LoopStepNext, PeopleNext, vars, store, Start, TimePasses, SessionFails, Crash
  <2> QED BY <2>1, <2>2, <2>3
<1>6. LoopTyped /\ Counted => BoundedWithoutBudget
  BY RunIsBounded
<1>7. BoundedWithoutBudget'
  BY <1>1, <1>4, <1>6, RunIsBounded, PTL
<1>8. (BudgetIsExact <=> BoundedWithoutBudget /\ \A i \in DOMAIN loops : Exact(loops[i]))'
  BY ExactParts, PTL
<1> QED BY <1>4, <1>5, <1>7, <1>8 DEF BudgetInv

\* The budget stops the loop neither one session late nor one early, for any
\* findings, budgets and contexts, whatever fails and whatever people do.
THEOREM LoopBudgetIsExact == Spec => []BudgetIsExact
<1>1. BudgetInv => BudgetIsExact
  BY DEF BudgetInv
<1> QED BY <1>1, LoopTypedInit, LoopTypedNext, BudgetInit, BudgetNext, PTL DEF Spec
-----------------------------------------------------------------------------
\* Authorization and scope withdrawn while a loop runs stop the next session
\* from working: what changes coverage or drafts has passed the gate now.
LEMMA WithdrawalStep ==
  ASSUME LoopTyped, [Next]_vars, pc = "acting", <<coverage, drafts>>' # <<coverage, drafts>>, pc' # "acting"
  PROVE  /\ ~Unauthorized(context)
         /\ \A a \in Areas : coverage'[a] # coverage[a] => a \in context.scope
<1>1. RunSession \/ SessionFails
  BY PeopleTyped, SelectStep
     DEF Next, LoopStepNext, PeopleNext, vars, store, Start, SaveRun, TimePasses, Crash
<1>2. coverage \in [Areas -> Nat]
  BY DEF LoopTyped, TypeOK
<1>3. CASE RunSession
  <2>1. Evaluate(context) = "proceed" /\ Work(run.action)
    BY <1>3, SessionStep
  <2>2. \A a \in Areas : coverage'[a] # coverage[a] => a \in Mappable
    BY <1>2, <2>1 DEF Work, Cover
  <2> QED BY <2>1, <2>2 DEF Evaluate, Mappable
<1>4. CASE SessionFails
  <2>1. PICK areas \in SUBSET Mappable :
          Cover(IF run.action.kind = "map" /\ Evaluate(context) = "proceed" THEN areas ELSE {})
    BY <1>4 DEF SessionFails
  <2>2. coverage' # coverage
    BY <1>4 DEF SessionFails
  <2>3. Evaluate(context) = "proceed"
    BY <1>2, <2>1, <2>2 DEF Cover
  <2>4. \A a \in Areas : coverage'[a] # coverage[a] => a \in Mappable
    BY <1>2, <2>1 DEF Cover
  <2> QED BY <2>3, <2>4 DEF Evaluate, Mappable
<1> QED BY <1>1, <1>3, <1>4

\* The decision made when the loop starts is not trusted for the whole run.
THEOREM LoopWithdrawalHolds == Spec => WithdrawalHolds
<1>1. LoopTyped /\ [Next]_vars =>
        [/\ pc = "acting" /\ <<coverage, drafts>>' # <<coverage, drafts>>
         /\ pc' # "acting"
         => /\ ~Unauthorized(context)
            /\ \A a \in Areas : coverage'[a] # coverage[a] => a \in context.scope]_vars
  BY WithdrawalStep
<1> QED BY <1>1, LoopTypedInit, LoopTypedNext, PTL DEF Spec, WithdrawalHolds
-----------------------------------------------------------------------------
\* A bounded set of numbers has a greatest one: the least of its bounds.
LEMMA GreatestExists ==
  ASSUME NEW n \in Nat, NEW ids \in SUBSET (0 .. n), ids # {}
  PROVE  \E m \in ids : \A i \in ids : i <= m
<1> DEFINE bounds == {b \in Nat : \A i \in ids : i <= b}
<1>1. n \in bounds
  OBVIOUS
<1>2. PICK m \in bounds : \A b \in bounds : ~(<<b, m>> \in OpToRel(<, Nat))
  BY <1>1, WFMin, NatLessThanWellFounded
<1>3. m \in Nat /\ \A i \in ids : i \in Nat /\ i <= m
  OBVIOUS
<1>4. \A b \in bounds : ~(b < m)
  BY <1>2 DEF OpToRel
<1>5. m \in ids
  <2>1. SUFFICES ASSUME m \notin ids PROVE FALSE
    OBVIOUS
  <2>2. \A i \in ids : i < m
    BY <1>3, <2>1
  <2>3. m # 0
    <3>1. PICK i \in ids : i \in 0 .. n
      OBVIOUS
    <3> QED BY <1>3, <2>2, <3>1
  <2>4. m - 1 \in Nat /\ \A i \in ids : i <= m - 1
    BY <1>3, <2>2, <2>3
  <2> QED BY <1>3, <1>4, <2>4
<1> QED BY <1>3, <1>5

\* Latest is the greatest of the ids, or 0.
LEMMA LatestIs ==
  ASSUME NEW n \in Nat, NEW ids \in SUBSET (0 .. n)
  PROVE  Latest(ids) \in ids \cup {0} /\ \A i \in ids : i <= Latest(ids)
<1>1. \E m \in ids \cup {0} : \A i \in ids : i <= m
  <2>1. CASE ids = {}
    BY <2>1
  <2>2. CASE ids # {}
    BY <2>2, GreatestExists
  <2> QED BY <2>1, <2>2
<1> QED BY <1>1 DEF Latest

\* Some action is on the highest rung that has any.
LEMMA SomethingProposed ==
  ASSUME NEW c, NEW done, Wanted(c) \ done # {}
  PROVE  Proposals(c, done) # {}
<1> DEFINE fresh == Wanted(c) \ done
<1> DEFINE below == {7 - Rung[a.kind] : a \in fresh}
<1>1. \A a \in fresh : Rung[a.kind] \in 1 .. 7
  BY WantedTyped DEF Rung, Action, Runnable, Escalations
<1>2. below \in SUBSET (0 .. 7) /\ below # {}
  BY <1>1
<1> HIDE DEF fresh
<1>3. PICK m \in below : \A i \in below : i <= m
  BY <1>2, GreatestExists
<1>4. PICK a \in fresh : m = 7 - Rung[a.kind]
  BY <1>3
<1>5. \A b \in fresh : 7 - Rung[b.kind] <= 7 - Rung[a.kind]
  BY <1>3, <1>4
<1>6. \A b \in fresh : Rung[a.kind] <= Rung[b.kind]
  BY <1>1, <1>5
<1> QED BY <1>4, <1>6 DEF Proposals, fresh

\* A completed DISCOVER that no coverage is newer than.
LEMMA DiscoverCurrentIs ==
  ASSUME LoopTyped, CoverageBound
  PROVE  DiscoverCurrent <=>
           \E i \in CompletedSessions("discover") : \A a \in Areas : coverage[a] <= i
<1> DEFINE ids   == CompletedSessions("discover")
<1> DEFINE areas == {coverage[a] : a \in Areas}
<1> DEFINE n     == Len(sessions)
<1>1. n \in Nat /\ DOMAIN sessions = 1 .. n /\ coverage \in [Areas -> Nat]
  BY DEF LoopTyped, TypeOK
<1>2. ids \in SUBSET (1 .. n) /\ ids \in SUBSET (0 .. n)
  BY <1>1 DEF CompletedSessions
<1>3. areas \in SUBSET (0 .. n)
  BY <1>1 DEF CoverageBound
<1> DEFINE last == Latest(ids)
<1> DEFINE newest == Latest(areas)
<1>4. last \in ids \cup {0} /\ \A i \in ids : i <= last
  BY <1>1, <1>2, LatestIs
<1>5. newest \in areas \cup {0} /\ \A i \in areas : i <= newest
  BY <1>1, <1>3, LatestIs
<1>6. DiscoverCurrent <=> last # 0 /\ last >= newest
  BY DEF DiscoverCurrent
<1> HIDE DEF last, newest, n
<1>7. last \in Nat /\ newest \in Nat
  BY <1>1, <1>2, <1>3, <1>4, <1>5
<1>8. ASSUME last # 0, last >= newest PROVE \E i \in ids : \A a \in Areas : coverage[a] <= i
  BY <1>1, <1>4, <1>5, <1>7, <1>8
<1>9. ASSUME NEW i \in ids, \A a \in Areas : coverage[a] <= i PROVE last # 0 /\ last >= newest
  <2>1. i \in 1 .. n /\ i <= last
    BY <1>2, <1>4
  <2>2. newest <= i
    BY <1>1, <1>5, <1>9, <2>1
  <2> QED BY <1>1, <1>7, <2>1, <2>2
<1> QED BY <1>6, <1>8, <1>9

LEMMA EscalationRow ==
  ASSUME NEW a \in On("disclosure_send", In("verified") \cap Drafted)
                    \cup On("verify_escalation", In("candidate"))
  PROVE  \E t \in PendingEscalations : t.kind = a.kind /\ t.finding = a.finding
<1> DEFINE row == [kind |-> a.kind, finding |-> a.finding, session |-> 0, gate |-> "none", close |-> "none"]
<1>1. row \in PendingEscalations
  BY DEF PendingEscalations
<1>2. row.kind = a.kind /\ row.finding = a.finding
  OBVIOUS
<1> QED BY <1>1, <1>2

LEMMA SaidInEnd ==
  ASSUME LoopTyped, CoverageBound,
         [Next]_vars, pc = "selecting", run'.stop \in Final
  PROVE  LET kinds(f) == {t.kind : t \in {u \in run'.trace : u.finding = f}}
         IN /\ InScope(run.seen) \subseteq Covered \/ "map" \in kinds(NoFinding)
            /\ \A a \in Covered : \/ \E i \in CompletedSessions("discover") : i >= coverage[a]
                                  \/ "discover" \in kinds(NoFinding)
            /\ \A f \in In("candidate") : "verify_escalation" \in kinds(f)
            /\ \A f \in In("verified") :
                 /\ f \in HuntedBefore \/ "sibling_hunt" \in kinds(f)
                 /\ {"disclosure", "disclosure_send"} \cap kinds(f) # {}
<1> DEFINE kinds(f)  == {t.kind : t \in {u \in run'.trace : u.finding = f}}
<1> DEFINE done == Done(run.trace)
<1>1. run \in Locals /\ run.stop = "none" /\ run.trace \in SUBSET LoopStep
  BY DEF LoopTyped, TypeOK, Locals
<1>2. Select
  BY <1>1, PeopleTyped
     DEF Next, LoopStepNext, PeopleNext, vars, Start, RunSession, SaveRun, TimePasses, SessionFails,
         Crash, NotRunning, Final, Locals
<1>3. ASSUME NEW reason, NEW planned, NEW escalated, Stop(reason, planned, escalated)
      PROVE  reason = run'.stop /\ run'.trace = run.trace \cup escalated
  BY <1>1, <1>3 DEF Stop, Locals
<1>4. \/ Wanted(run.seen) \ done = {} /\ run'.trace = run.trace
      \/ \E action \in Proposals(run.seen, done) :
           action.kind \in Escalations /\ run'.trace = run.trace \cup PendingEscalations
  <2>1. CASE Proposals(run.seen, done) = {} /\ Stop("fixed_point", NoAction, {})
    BY <1>3, <2>1, SomethingProposed
  <2>2. CASE \E action \in Proposals(run.seen, done) :
               Stop("budget_exhausted", action, {})
    BY <1>3, <2>2 DEF Final
  <2>3. CASE \E action \in Proposals(run.seen, done) :
               action.kind \in Escalations /\ Stop("hard_stop", NoAction, PendingEscalations)
    BY <1>3, <2>3
  <2>4. CASE \E action : run' = [run EXCEPT !.action = action]
    BY <1>1, <2>4 DEF Locals, Final
  <2> QED BY <1>2, <2>1, <2>2, <2>3, <2>4, SelectStep
<1>5. \A a \in Wanted(run.seen) :
        \/ a \in Done(run'.trace)
        \/ a.kind \in Escalations /\ run'.trace = run.trace \cup PendingEscalations
  <2>1. Done(run.trace) \subseteq Done(run'.trace)
    BY <1>4 DEF Done
  <2>2. ASSUME NEW action \in Proposals(run.seen, done), action.kind \in Escalations,
               NEW a \in Wanted(run.seen) \ done
        PROVE  a.kind \in Escalations
    <3>1. Rung[action.kind] <= Rung[a.kind]
      BY DEF Proposals
    <3>2. a.kind \in Runnable \cup Escalations
      BY WantedTyped DEF Action
    <3> QED BY <2>2, <3>1, <3>2 DEF Rung, Runnable, Escalations
  <2> QED BY <1>4, <2>1, <2>2
<1>6. ASSUME NEW k, NEW f, [kind |-> k, finding |-> f] \in Done(run'.trace) PROVE k \in kinds(f)
  BY <1>6 DEF Done
<1>7. InScope(run.seen) \subseteq Covered \/ "map" \in kinds(NoFinding)
  <2>1. SUFFICES ASSUME ~(InScope(run.seen) \subseteq Covered) PROVE "map" \in kinds(NoFinding)
    OBVIOUS
  <2>2. [kind |-> "map", finding |-> NoFinding] \in Wanted(run.seen)
    BY <2>1 DEF Wanted, Once, On
  <2> QED BY <1>5, <1>6, <2>2 DEF Escalations
<1>8. \A a \in Covered : \/ \E i \in CompletedSessions("discover") : i >= coverage[a]
                        \/ "discover" \in kinds(NoFinding)
  <2>1. SUFFICES ASSUME NEW a \in Covered,
                        ~\E i \in CompletedSessions("discover") : i >= coverage[a]
                 PROVE  "discover" \in kinds(NoFinding)
    OBVIOUS
  <2>2. /\ a \in Areas /\ coverage \in [Areas -> Nat] /\ DOMAIN sessions = 1 .. Len(sessions)
        /\ Len(sessions) \in Nat
    BY DEF Covered, LoopTyped, TypeOK
  <2>3. ~DiscoverCurrent
    BY <2>1, <2>2, DiscoverCurrentIs DEF CompletedSessions
  <2>4. [kind |-> "discover", finding |-> NoFinding] \in Wanted(run.seen)
    BY <2>3 DEF Wanted, Once, On
  <2> QED BY <1>5, <1>6, <2>4 DEF Escalations
<1>9. ASSUME NEW k \in Escalations, NEW f, [kind |-> k, finding |-> f] \in Wanted(run.seen),
             \E t \in PendingEscalations : t.kind = k /\ t.finding = f
      PROVE  k \in kinds(f)
  BY <1>5, <1>6, <1>9
<1>10. \A f \in In("candidate") : "verify_escalation" \in kinds(f)
  <2>1. SUFFICES ASSUME NEW f \in In("candidate") PROVE "verify_escalation" \in kinds(f)
    OBVIOUS
  <2>2. [kind |-> "verify_escalation", finding |-> f] \in Wanted(run.seen)
    BY DEF Wanted, On
  <2>3. \E t \in PendingEscalations : t.kind = "verify_escalation" /\ t.finding = f
    <3> DEFINE a == [kind |-> "verify_escalation", finding |-> f]
    <3>1. a \in On("verify_escalation", In("candidate"))
      BY DEF On
    <3>2. a.kind = "verify_escalation" /\ a.finding = f
      OBVIOUS
    <3> HIDE DEF a
    <3> QED BY <3>1, <3>2, EscalationRow
  <2> QED BY <1>9, <2>2, <2>3 DEF Escalations
<1>11. \A f \in In("verified") : f \in HuntedBefore \/ "sibling_hunt" \in kinds(f)
  <2>1. SUFFICES ASSUME NEW f \in In("verified"), f \notin HuntedBefore
                 PROVE  "sibling_hunt" \in kinds(f)
    OBVIOUS
  <2>2. [kind |-> "sibling_hunt", finding |-> f] \in Wanted(run.seen)
    BY <2>1 DEF Wanted, On
  <2> QED BY <1>5, <1>6, <2>2 DEF Escalations
<1>12. \A f \in In("verified") : {"disclosure", "disclosure_send"} \cap kinds(f) # {}
  <2>1. SUFFICES ASSUME NEW f \in In("verified")
                 PROVE  "disclosure" \in kinds(f) \/ "disclosure_send" \in kinds(f)
    OBVIOUS
  <2>2. CASE f \in Drafted
    <3>1. [kind |-> "disclosure_send", finding |-> f] \in Wanted(run.seen)
      BY <2>2 DEF Wanted, On
    <3>2. \E t \in PendingEscalations : t.kind = "disclosure_send" /\ t.finding = f
      <4> DEFINE a == [kind |-> "disclosure_send", finding |-> f]
      <4>1. a \in On("disclosure_send", In("verified") \cap Drafted)
        BY <2>2 DEF On
      <4>2. a.kind = "disclosure_send" /\ a.finding = f
        OBVIOUS
      <4> HIDE DEF a
      <4> QED BY <4>1, <4>2, EscalationRow
    <3> QED BY <1>9, <3>1, <3>2 DEF Escalations
  <2>3. CASE f \notin Drafted
    <3>1. [kind |-> "disclosure", finding |-> f] \in Wanted(run.seen)
      BY <2>3 DEF Wanted, On
    <3> QED BY <1>5, <1>6, <3>1 DEF Escalations
  <2> QED BY <2>2, <2>3
<1> QED BY <1>7, <1>8, <1>10, <1>11, <1>12

LEMMA CoverageInit == Init => CoverageBound
  BY DEF Init, CoverageBound

LEMMA CoverageNext == LoopTyped /\ CoverageBound /\ [Next]_vars => CoverageBound'
<1> SUFFICES ASSUME LoopTyped, CoverageBound, [Next]_vars PROVE CoverageBound'
  OBVIOUS
<1>1. coverage \in [Areas -> Nat] /\ sessions \in Seq(SessionRecord)
  BY DEF LoopTyped, TypeOK
<1>2. CASE UNCHANGED <<coverage, sessions>>
  BY <1>2 DEF CoverageBound
<1>3. ASSUME NEW record, sessions' = Append(sessions, record),
             UNCHANGED coverage \/ \E areas : Cover(areas)
      PROVE  CoverageBound'
  <2>1. Len(sessions') = Len(sessions) + 1 /\ Len(sessions) \in Nat
    BY <1>1, <1>3
  <2> QED BY <1>1, <1>3, <2>1 DEF CoverageBound, Cover, NextId
<1>4. CASE RunSession
  BY <1>3, <1>4 DEF RunSession, Work
<1>5. CASE SessionFails
  BY <1>3, <1>5 DEF SessionFails
<1>6. CASE DiscoverWithSarif
  BY <1>3, <1>6 DEF DiscoverWithSarif
<1> QED BY <1>2, <1>4, <1>5, <1>6, SelectStep
        DEF Next, LoopStepNext, vars, store, Start, SaveRun, TimePasses, Crash, EditProject,
            ChangeStatus, LoseDrafts

\* A run that says only people can go on, or nobody, has recorded everything for
\* them and tried the rest.
THEOREM LoopLeavesNothingUnsaid == Spec => NothingLeftUnsaid
<1>1. LoopTyped /\ CoverageBound /\ [Next]_vars =>
        [pc = "selecting" /\ run'.stop \in {"hard_stop", "fixed_point"} =>
           LET kinds(f) == {t.kind : t \in {u \in run'.trace : u.finding = f}}
           IN /\ InScope(run.seen) \subseteq Covered \/ "map" \in kinds(NoFinding)
              /\ \A a \in Covered : \/ \E i \in CompletedSessions("discover") : i >= coverage[a]
                                    \/ "discover" \in kinds(NoFinding)
              /\ \A f \in In("candidate") : "verify_escalation" \in kinds(f)
              /\ \A f \in In("verified") :
                   /\ f \in HuntedBefore \/ "sibling_hunt" \in kinds(f)
                   /\ {"disclosure", "disclosure_send"} \cap kinds(f) # {}]_vars
  BY SaidInEnd DEF Final
<1> QED BY <1>1, LoopTypedInit, LoopTypedNext, CoverageInit, CoverageNext, PTL
        DEF Spec, NothingLeftUnsaid
-----------------------------------------------------------------------------
\* What the policy reads is the same when the store is.
LEMMA SameStore ==
  ASSUME UNCHANGED store
  PROVE  /\ Wanted(context)' = Wanted(context) /\ Mappable' = Mappable /\ Covered' = Covered
         /\ InScope(context)' = InScope(context) /\ DiscoverCurrent' = DiscoverCurrent
         /\ \A k : CompletedSessions(k)' = CompletedSessions(k)
<1>1. UNCHANGED <<context, checkout, sessions, coverage, status, drafts, loops>>
  BY DEF store
<1>2. /\ Mappable' = Mappable /\ Covered' = Covered /\ InScope(context)' = InScope(context)
      /\ \A k : CompletedSessions(k)' = CompletedSessions(k)
  BY <1>1 DEF Mappable, Covered, InScope, CompletedSessions
<1>3. DiscoverCurrent' = DiscoverCurrent
  BY <1>1, <1>2 DEF DiscoverCurrent
<1>4. HuntedBefore' = HuntedBefore /\ Drafted' = Drafted /\ \A s : In(s)' = In(s)
  BY <1>1, <1>2 DEF HuntedBefore, Drafted, In
<1>5. Wanted(context)' = Wanted(context)
  BY <1>1, <1>2, <1>3, <1>4 DEF Wanted
<1> QED BY <1>2, <1>3, <1>5

LEMMA EscalationsLeft ==
  ASSUME NEW c, NEW done, NEW action \in Proposals(c, done), action.kind \in Escalations
  PROVE  OnlyPeople(Wanted(c) \ done)
<1> SUFFICES ASSUME NEW a \in Wanted(c) \ done PROVE a.kind \in Escalations
  BY DEF OnlyPeople
<1>1. Rung[action.kind] <= Rung[a.kind]
  BY DEF Proposals
<1>2. a.kind \in Runnable \cup Escalations
  BY WantedTyped DEF Action
<1> QED BY <1>1, <1>2 DEF Rung, Runnable, Escalations

\* What a session has done stays done while the store is the same.
LEMMA EffectiveKept ==
  ASSUME UNCHANGED store, Ran(run'.trace) = Ran(run.trace), NEW t, Effective(t)
  PROVE  Effective(t)'
<1>1. Ran(run.trace)' = Ran(run.trace) /\ UNCHANGED <<drafts, sessions>>
  BY DEF Ran, store
<1> QED BY <1>1, SameStore DEF Effective

LEMMA StartConverges ==
  ASSUME LoopTyped, ConvergeInv, Start
  PROVE  ConvergeInv'
<1>1. UNCHANGED store /\ context' = context /\ pc' \in {"selecting", "stopping"}
      /\ settled' \in {"yes", "running"} /\ (settled' = "yes" => settled = "yes")
  BY DEF Start, store
<1>2. /\ run'.seen = context /\ run'.trace = {}
      /\ run'.stop = IF Evaluate(context) = "proceed" THEN "none" ELSE StopReason(Evaluate(context))
  BY DEF Start, NotRunning
<1>3. run'.stop \notin Final
  BY <1>2, StopReasonTyped DEF LoopTyped, TypeOK, Final
<1>4. RunInv'
  BY <1>1, <1>2, <1>3, NothingRan DEF RunInv
<1>5. RestInv'
  BY <1>1, SameStore DEF ConvergeInv, RestInv, OnlyPeople
<1> QED BY <1>1, <1>2, <1>4, <1>5 DEF ConvergeInv, SeenIsStored

LEMMA SelectConverges ==
  ASSUME LoopTyped, Counted, ConvergeInv, Select
  PROVE  ConvergeInv'
<1> DEFINE done == Done(run.trace)
<1>1. /\ UNCHANGED store /\ context' = context /\ settled' = settled /\ pc = "selecting"
      /\ run \in Locals /\ run.stop = "none" /\ run.trace = Ran(run.trace)
  BY SelectStep DEF store, LoopTyped, TypeOK, Counted
<1>2. settled # "no" => run.seen = context
  BY <1>1 DEF ConvergeInv, SeenIsStored
<1>3. ASSUME NEW reason, NEW planned, NEW escalated, \A t \in escalated : t.session = 0,
             Stop(reason, planned, escalated),
             reason \in Final => OnlyPeople(Wanted(run.seen) \ done)
      PROVE  ConvergeInv'
  <2>1. /\ run'.trace = run.trace \cup escalated /\ run'.stop = reason /\ run'.seen = run.seen
        /\ pc' = "stopping"
    BY <1>1, <1>3 DEF Stop, Locals
  <2>2. Ran(run'.trace) = Ran(run.trace) /\ Ran(run.trace)' = Ran(run.trace)
    BY <1>3, <2>1 DEF Ran
  <2>3. RunInv'
    <3> SUFFICES ASSUME settled = "running" PROVE RunInv'
      BY <1>1 DEF RunInv
    <3>1. \A t \in Ran(run.trace) : Effective(t)'
      BY <1>1, <2>2, EffectiveKept DEF ConvergeInv, RunInv
    <3>2. run'.stop \in Final => OnlyPeople(Wanted(context)' \ Done(Ran(run'.trace)))
      BY <1>1, <1>2, <1>3, <2>1, <2>2, SameStore
    <3> QED BY <2>1, <2>2, <3>1, <3>2 DEF RunInv
  <2>4. RestInv'
    BY <1>1, <2>1, SameStore DEF ConvergeInv, RestInv
  <2> QED BY <1>1, <1>2, <2>1, <2>3, <2>4 DEF ConvergeInv, SeenIsStored
<1>4. ASSUME NEW action \in Proposals(run.seen, done), action.kind \notin Escalations,
             run' = [run EXCEPT !.action = action], pc' = "acting"
      PROVE  ConvergeInv'
  <2>1. /\ run'.trace = run.trace /\ run'.stop = "none" /\ run'.seen = run.seen
        /\ run'.action = action
    BY <1>1, <1>4 DEF Locals
  <2>2. Ran(run'.trace) = Ran(run.trace) /\ Ran(run.trace)' = Ran(run.trace)
    BY <2>1 DEF Ran
  <2>3. RunInv'
    <3> SUFFICES ASSUME settled = "running" PROVE RunInv'
      BY <1>1 DEF RunInv
    <3>1. \A t \in Ran(run.trace) : Effective(t)'
      BY <1>1, <2>2, EffectiveKept DEF ConvergeInv, RunInv
    <3>2. Proposals(context, Done(run.trace))' = Proposals(context, done)
      <4>1. Done(run.trace)' = done /\ Wanted(context)' = Wanted(context)
        BY <1>1, <2>1, SameStore DEF Done
      <4> QED BY <4>1 DEF Proposals, Rung
    <3> QED BY <1>1, <1>2, <1>4, <2>1, <2>2, <3>1, <3>2 DEF RunInv, Final
  <2>4. RestInv'
    <3> SUFFICES ASSUME settled = "yes", InScope(context) \subseteq Mappable PROVE FALSE
      BY <1>1, SameStore DEF RestInv
    <3>1. action \in Wanted(context)
      BY <1>2, <1>4 DEF Proposals
    <3> QED BY <1>4, <3>1 DEF ConvergeInv, RestInv, OnlyPeople
  <2> QED BY <1>1, <1>2, <2>1, <2>3, <2>4 DEF ConvergeInv, SeenIsStored
<1>5. \A t \in PendingEscalations : t.session = 0
  BY EscalationsTyped
<1>6. Proposals(run.seen, done) = {} => OnlyPeople(Wanted(run.seen) \ done)
  BY SomethingProposed DEF OnlyPeople
<1>7. \A a \in Proposals(run.seen, done) : a.kind \in Runnable => a.kind \notin Escalations
  BY ProposalsTyped
<1> QED BY <1>3, <1>4, <1>5, <1>6, <1>7, SelectStep, EscalationsLeft DEF Final

\* What a completed session adds to the store, and what it leaves.
LEMMA SessionWorks ==
  ASSUME LoopTyped, CoverageBound, Counted, RunSession, Evaluate(context) = "proceed"
  PROVE  LET row == TraceRow("proceed")
         IN /\ Ran(run'.trace) = Ran(run.trace) \cup {row} /\ row.kind = run.action.kind
            /\ row.finding = run.action.finding /\ row.session = NextId /\ Completed(row)
            /\ \A k : CompletedSessions(k) \subseteq CompletedSessions(k)'
            /\ \A k : k = run.action.kind => NextId \in CompletedSessions(k)'
            /\ \A i \in DOMAIN sessions : sessions'[i] = sessions[i]
            /\ sessions'[NextId].touched = Touched(run.action)
            /\ drafts \subseteq drafts' /\ Covered \subseteq Covered'
            /\ Mappable' = Mappable /\ InScope(context)' = InScope(context)
            /\ run.action.kind # "map" => coverage' = coverage
            /\ run.action.kind = "map" => Mappable \cap Areas \subseteq Covered'
<1> DEFINE row == TraceRow("proceed")
<1> DEFINE record == SessionRow("proceed")
<1>1. /\ run \in Locals /\ sessions \in Seq(SessionRecord) /\ coverage \in [Areas -> Nat]
      /\ run.trace = Ran(run.trace)
  BY SessionStep DEF LoopTyped, TypeOK, Counted
<1>2. /\ sessions' = Append(sessions, record) /\ record \in SessionRecord
      /\ UNCHANGED <<context, checkout>> /\ Work(run.action)
      /\ NextId = Len(sessions) + 1 /\ NextId \in Nat \ {0}
  BY SessionStep
<1>3. /\ DOMAIN sessions \subseteq DOMAIN sessions' /\ NextId \in DOMAIN sessions'
      /\ sessions'[NextId] = record
      /\ \A i \in DOMAIN sessions : sessions'[i] = sessions[i]
  BY <1>2, SessionsAppend
<1>4. /\ row.kind = run.action.kind /\ row.finding = run.action.finding /\ row.session = NextId
      /\ Completed(row)
  BY DEF TraceRow, Completed
<1>5. /\ record.type = run.action.kind /\ Completed(record) /\ record.touched = Touched(run.action)
  BY DEF SessionRow, Completed
<1>6. run'.trace = run.trace \cup {row}
  <2>1. run' = [run EXCEPT !.trace = @ \cup {row}, !.spent = @ + 1, !.action = NoAction, !.stop = "none"]
    BY SessionStep
  <2> HIDE DEF row
  <2> QED BY <1>1, <2>1 DEF Locals
<1> HIDE DEF row, record
<1>7. Ran(run'.trace) = Ran(run.trace) \cup {row}
  BY <1>1, <1>2, <1>4, <1>6 DEF Ran
<1>8. \A k : CompletedSessions(k) \subseteq CompletedSessions(k)'
  BY <1>3 DEF CompletedSessions
<1>9. \A k : k = run.action.kind => NextId \in CompletedSessions(k)'
  BY <1>3, <1>5 DEF CompletedSessions
<1>10. /\ Mappable' = Mappable /\ InScope(context)' = InScope(context) /\ drafts \subseteq drafts'
  BY <1>2 DEF Mappable, InScope, Work
<1>11. Covered \subseteq Covered'
  BY <1>1, <1>2 DEF Covered, Work, Cover
<1>12. run.action.kind # "map" => coverage' = coverage
  BY <1>1, <1>2 DEF Work, Cover
<1>13. run.action.kind = "map" => Mappable \cap Areas \subseteq Covered'
  BY <1>2 DEF Work, Cover, Covered
<1> QED BY <1>3, <1>4, <1>5, <1>7, <1>8, <1>9, <1>10, <1>11, <1>12, <1>13 DEF row

DiscoverIsLast == \E i \in CompletedSessions("discover") : \A a \in Areas : coverage[a] <= i

LEMMA CurrentMeans == LoopTyped /\ CoverageBound => (DiscoverCurrent <=> DiscoverIsLast)
  BY DiscoverCurrentIs DEF DiscoverIsLast

\* DISCOVER is current while nothing newer is covered.
LEMMA DiscoverStaysCurrent ==
  ASSUME LoopTyped, CoverageBound, LoopTyped', CoverageBound', DiscoverCurrent, coverage' = coverage,
         CompletedSessions("discover") \subseteq CompletedSessions("discover")'
  PROVE  DiscoverCurrent'
<1>1. PICK i \in CompletedSessions("discover") : \A a \in Areas : coverage[a] <= i
  BY DiscoverCurrentIs
<1>2. \E j \in CompletedSessions("discover")' : \A a \in Areas : coverage'[a] <= j
  BY <1>1
<1>3. (LoopTyped /\ CoverageBound => (DiscoverCurrent <=> DiscoverIsLast))'
  BY CurrentMeans, PTL
<1> QED BY <1>2, <1>3 DEF DiscoverIsLast

LEMMA SessionConverges ==
  ASSUME LoopTyped, CoverageBound, Counted, ConvergeInv, RunSession, LoopTyped', CoverageBound'
  PROVE  ConvergeInv'
<1> DEFINE outcome == Evaluate(context)
<1> DEFINE row     == TraceRow("proceed")
<1>1. /\ UNCHANGED <<context, checkout, settled, status, loops>> /\ pc = "acting" /\ run \in Locals
      /\ run' = [run EXCEPT !.trace = @ \cup {TraceRow(outcome)}, !.spent = @ + 1, !.action = NoAction,
                            !.stop = IF outcome = "proceed" THEN "none" ELSE StopReason(outcome)]
      /\ pc' = IF outcome = "proceed" THEN "selecting" ELSE "stopping"
  BY SessionStep DEF LoopTyped, TypeOK
<1>2. /\ run'.seen = run.seen
      /\ run'.stop = IF outcome = "proceed" THEN "none" ELSE StopReason(outcome)
  BY <1>1 DEF Locals
<1>3. SeenIsStored'
  BY <1>1, <1>2 DEF ConvergeInv, SeenIsStored
<1>4. RestInv'
  <2>1. Mappable' = Mappable /\ InScope(context)' = InScope(context)
    BY <1>1 DEF Mappable, InScope
  <2> QED BY <1>1, <2>1 DEF ConvergeInv, RestInv
<1>5. run'.stop \notin Final
  BY <1>2, StopReasonTyped DEF LoopTyped, TypeOK, Final
<1>6. CASE outcome # "proceed"
  BY <1>1, <1>3, <1>4, <1>5, <1>6 DEF ConvergeInv, RunInv
<1>7. CASE outcome = "proceed"
  <2> SUFFICES ASSUME settled = "running"
               PROVE  pc' # "idle" /\ \A t \in Ran(run'.trace) : Effective(t)'
    BY <1>1, <1>3, <1>4, <1>5, <1>7 DEF ConvergeInv, RunInv
  <2>1. /\ \A t \in Ran(run.trace) : Effective(t)
        /\ run.action \in Proposals(context, Done(run.trace)) /\ run.trace = Ran(run.trace)
    BY <1>1 DEF ConvergeInv, RunInv, Counted
  <2>2. run.action \in Wanted(context) /\ run.action \notin Done(run.trace)
    BY <2>1 DEF Proposals
  <2> DEFINE mapped == "map" \in {u.kind : u \in Ran(run.trace)}
  <2>3. [kind |-> "map", finding |-> NoFinding] \in Done(run.trace) => mapped
    BY <2>1 DEF Done
  <2>4. run.action.kind = "map" =>
          ~(InScope(context) \subseteq Covered) /\ ~mapped
    <3> SUFFICES ASSUME run.action.kind = "map"
                 PROVE  ~(InScope(context) \subseteq Covered) /\ ~mapped
      OBVIOUS
    <3>1. ~(InScope(context) \subseteq Covered)
      BY <2>2 DEF Wanted, Once, On
    <3>2. Done(run.trace) \subseteq SessionActions
      BY <2>1 DEF Counted
    <3>3. ASSUME NEW u \in Ran(run.trace), u.kind = "map" PROVE u.finding = NoFinding
      <4> DEFINE a == [kind |-> u.kind, finding |-> u.finding]
      <4>1. a \in SessionActions
        BY <2>1, <3>2 DEF Done
      <4>2. a.kind = "map" /\ a.finding = u.finding
        BY <3>3
      <4> HIDE DEF a
      <4> QED BY <4>1, <4>2 DEF SessionActions
    <3>4. run.action = [kind |-> "map", finding |-> NoFinding]
      BY SessionStep DEF SessionActions
    <3>5. ~mapped
      BY <2>1, <2>2, <3>3, <3>4 DEF Done
    <3> QED BY <3>1, <3>5
  <2>5. run.action.kind = "discover" => InScope(context) \subseteq Covered \/ mapped
    <3> SUFFICES ASSUME run.action.kind = "discover", ~(InScope(context) \subseteq Covered)
                 PROVE  mapped
      OBVIOUS
    <3> DEFINE map == [kind |-> "map", finding |-> NoFinding]
    <3>1. map \in Wanted(context)
      BY DEF Wanted, Once, On
    <3>2. map \in Wanted(context) \ Done(run.trace) => Rung[run.action.kind] <= Rung[map.kind]
      BY <2>1 DEF Proposals
    <3>3. map \in Done(run.trace)
      BY <3>1, <3>2 DEF Rung
    <3> QED BY <2>3, <3>3
  <2>6. InScope(context) \subseteq Covered => InScope(context)' \subseteq Covered'
    BY <1>7, SessionWorks
  <2>7. mapped => "map" \in {u.kind : u \in Ran(run.trace)'}
    BY <1>7, SessionWorks DEF Ran
  <2>8. ASSUME NEW t \in Ran(run.trace) PROVE Effective(t)'
    <3>1. Effective(t)
      BY <2>1
    <3>2. Completed(t) /\ t.session \in CompletedSessions(t.kind)'
      BY <1>7, <3>1, SessionWorks DEF Effective
    <3>3. t.kind = "map" /\ (InScope(context) \subseteq Mappable)' => (InScope(context) \subseteq Covered)'
      BY <1>7, <2>6, <3>1, SessionWorks DEF Effective
    <3>4. t.kind = "discover" => run.action.kind # "map"
      BY <2>4, <3>1 DEF Effective
    <3>5. t.kind = "discover" =>
            DiscoverCurrent' /\ (InScope(context)' \subseteq Covered' \/ "map" \in {u.kind : u \in Ran(run.trace)'})
      <4> SUFFICES ASSUME t.kind = "discover"
                   PROVE  DiscoverCurrent' /\ (InScope(context)' \subseteq Covered' \/ "map" \in {u.kind : u \in Ran(run.trace)'})
        OBVIOUS
      <4>1. coverage' = coverage /\ CompletedSessions("discover") \subseteq CompletedSessions("discover")'
        BY <1>7, <3>4, SessionWorks
      <4>2. DiscoverCurrent'
        BY <3>1, <4>1, DiscoverStaysCurrent DEF Effective
      <4> QED BY <2>6, <2>7, <3>1, <4>2 DEF Effective
    <3>6. t.kind = "disclosure" => t.session \in drafts' /\ sessions'[t.session].touched = t.finding
      BY <1>7, <3>1, SessionWorks DEF Effective, LoopTyped, TypeOK
    <3> QED BY <3>2, <3>3, <3>5, <3>6 DEF Effective
  <2>9. ASSUME NEW t, t = row PROVE Effective(t)'
    <3>1. /\ t.kind = run.action.kind /\ t.finding = run.action.finding /\ t.session = NextId
          /\ Completed(t) /\ NextId \in CompletedSessions(t.kind)'
          /\ sessions'[NextId].touched = Touched(run.action)
      BY <1>7, <2>9, SessionWorks
    <3>2. t.kind = "map" /\ (InScope(context) \subseteq Mappable)' => (InScope(context) \subseteq Covered)'
      BY <1>1, <1>7, <3>1, SessionWorks DEF LoopTyped, TypeOK, InScope, StoredContexts, GateContext
    <3>3. t.kind = "discover" =>
            DiscoverCurrent' /\ (InScope(context)' \subseteq Covered' \/ "map" \in {u.kind : u \in Ran(run.trace)'})
      <4> SUFFICES ASSUME t.kind = "discover" PROVE DiscoverCurrent'
        BY <2>5, <2>6, <2>7, <3>1
      <4>1. coverage' = coverage /\ NextId \in CompletedSessions("discover")' /\ NextId = Len(sessions) + 1
        BY <1>7, <3>1, SessionWorks DEF NextId
      <4>2. \A a \in Areas : coverage'[a] <= NextId
        BY <4>1 DEF CoverageBound, LoopTyped, TypeOK
      <4>3. (LoopTyped /\ CoverageBound => (DiscoverCurrent <=> DiscoverIsLast))'
        BY CurrentMeans, PTL
      <4> QED BY <4>1, <4>2, <4>3 DEF DiscoverIsLast
    <3>4. t.kind = "disclosure" => t.session \in drafts' /\ sessions'[t.session].touched = t.finding
      <4> SUFFICES ASSUME t.kind = "disclosure"
                   PROVE  NextId \in drafts' /\ sessions'[NextId].touched = run.action.finding
        BY <3>1
      <4>1. status[run.action.finding] = "verified"
        BY <2>2, <3>1 DEF Wanted, Once, On, In
      <4> QED BY <1>7, <3>1, <4>1, SessionStep DEF Work, Touched
    <3> QED BY <3>1, <3>2, <3>3, <3>4 DEF Effective
  <2>10. Ran(run'.trace) = Ran(run.trace) \cup {row}
    BY <1>7, SessionWorks
  <2> QED BY <1>1, <1>7, <2>8, <2>9, <2>10
<1> QED BY <1>6, <1>7

\* The run is saved: what it did the policy no longer wants.
LEMMA SaveConverges ==
  ASSUME LoopTyped, Counted, ConvergeInv, SaveRun
  PROVE  ConvergeInv'
<1> DEFINE saved == [stop |-> run.stop, sessions_run |-> run.spent, budget |-> run.budget,
                     trace |-> run.trace, planned |-> run.action]
<1>1. /\ pc = "stopping" /\ pc' = "idle" /\ loops' = Append(loops, saved) /\ loops \in Seq(LoopRun)
      /\ UNCHANGED <<context, checkout, sessions, coverage, status, drafts>>
      /\ settled' = IF settled = "yes" THEN "yes"
                    ELSE IF settled = "running" /\ run.stop \in Final THEN "yes" ELSE "no"
  BY DEF SaveRun, LoopTyped, TypeOK, Final
<1>2. saved.trace = run.trace
  OBVIOUS
<1> HIDE DEF saved
<1>3. Len(loops) + 1 \in DOMAIN loops' /\ loops'[Len(loops) + 1].trace = run.trace
      /\ \A i \in DOMAIN loops : i \in DOMAIN loops' /\ loops'[i] = loops[i]
  BY <1>1, <1>2
<1>4. HuntedBefore \subseteq HuntedBefore'
  BY <1>3 DEF HuntedBefore
<1>5. /\ Mappable' = Mappable /\ InScope(context)' = InScope(context) /\ Covered' = Covered
      /\ \A k : CompletedSessions(k)' = CompletedSessions(k)
  BY <1>1 DEF Mappable, InScope, Covered, CompletedSessions
<1>6. DiscoverCurrent' = DiscoverCurrent /\ Drafted' = Drafted /\ \A s : In(s)' = In(s)
  BY <1>1, <1>5 DEF DiscoverCurrent, Drafted, In
<1>7. Wanted(context)' \subseteq Wanted(context)
  BY <1>1, <1>4, <1>5, <1>6 DEF Wanted, On
<1>8. RestInv'
  <2>1. CASE settled = "yes"
    BY <1>1, <1>5, <1>7, <2>1 DEF ConvergeInv, RestInv, OnlyPeople
  <2>2. CASE settled = "running" /\ run.stop \in Final
    <3> SUFFICES ASSUME InScope(context) \subseteq Mappable, NEW a \in Wanted(context)',
                        a.kind \notin Escalations
                 PROVE  FALSE
      BY <1>1, <1>5 DEF RestInv, OnlyPeople
    <3>1. a \in Wanted(context) /\ a \in Action /\ a \in SessionActions
      BY <1>7, WantedTyped DEF Action
    <3>2. a \in Done(Ran(run.trace))
      BY <2>2, <3>1 DEF ConvergeInv, RunInv, OnlyPeople
    <3>3. PICK t \in Ran(run.trace) : a = [kind |-> t.kind, finding |-> t.finding]
      BY <3>2 DEF Done
    <3>4. Effective(t) /\ a.kind = t.kind /\ a.finding = t.finding
      BY <2>2, <3>3 DEF ConvergeInv, RunInv
    <3>5. CASE a.kind = "status"
      BY <3>1, <3>4, <3>5 DEF Wanted, Once, On, Effective
    <3>6. CASE a.kind = "map"
      BY <3>1, <3>4, <3>6 DEF Wanted, Once, On, Effective
    <3>7. CASE a.kind = "discover"
      BY <3>1, <3>4, <3>7 DEF Wanted, Once, On, Effective
    <3>8. CASE a.kind = "sibling_hunt"
      <4>1. a.finding \in HuntedBefore'
        BY <1>3, <3>1, <3>3, <3>4, <3>8 DEF HuntedBefore, Ran, Effective, SessionActions
      <4>2. a.finding \notin HuntedBefore'
        BY <3>8 DEF Wanted, Once, On
      <4> QED BY <4>1, <4>2
    <3>9. CASE a.kind = "disclosure"
      <4>1. a.finding \in Drafted
        BY <3>4, <3>9 DEF Drafted, Effective
      <4>2. a.finding \notin Drafted
        BY <3>1, <3>9 DEF Wanted, Once, On
      <4> QED BY <4>1, <4>2
    <3> QED BY <3>1, <3>5, <3>6, <3>7, <3>8, <3>9 DEF SessionActions
  <2> QED BY <1>1, <2>1, <2>2 DEF RestInv
<1> QED BY <1>1, <1>8 DEF ConvergeInv, SeenIsStored, RunInv

LEMMA ConvergeInit == Init => ConvergeInv
  BY DEF Init, ConvergeInv, SeenIsStored, RunInv, RestInv

LEMMA ConvergeNext ==
  LoopTyped /\ CoverageBound /\ BudgetInv /\ ConvergeInv /\ [Next]_vars => ConvergeInv'
<1> SUFFICES ASSUME LoopTyped, CoverageBound, BudgetInv, ConvergeInv, [Next]_vars PROVE ConvergeInv'
  OBVIOUS
<1>1. LoopTyped' /\ CoverageBound' /\ Counted /\ run \in Locals
  BY LoopTypedNext, CoverageNext DEF BudgetInv, LoopTyped, TypeOK
<1>2. CASE settled' = "no"
  BY <1>2 DEF ConvergeInv, SeenIsStored, RunInv, RestInv
<1>3. CASE UNCHANGED store /\ UNCHANGED <<pc, settled>> /\
           run'.trace = run.trace /\ run'.seen = run.seen /\ run'.stop = run.stop /\ run'.action = run.action
  <2>1. Ran(run'.trace) = Ran(run.trace) /\ Ran(run.trace)' = Ran(run.trace) /\ Done(run.trace)' = Done(run.trace)
        /\ Done(Ran(run.trace))' = Done(Ran(run.trace)) /\ context' = context
    BY <1>3 DEF Ran, Done, store
  <2>2. Wanted(context)' = Wanted(context)
    BY <1>3, SameStore
  <2>3. Proposals(context, Done(run.trace))' = Proposals(context, Done(run.trace))
    BY <2>1, <2>2 DEF Proposals, Rung
  <2>4. RunInv'
    <3> SUFFICES ASSUME settled = "running" PROVE RunInv'
      BY <1>3 DEF RunInv
    <3>1. pc # "stopping" \/ run.stop \in Final => \A t \in Ran(run.trace) : Effective(t)'
      BY <1>3, <2>1, EffectiveKept DEF ConvergeInv, RunInv
    <3> QED BY <1>3, <2>1, <2>2, <2>3, <3>1 DEF ConvergeInv, RunInv
  <2>5. RestInv'
    BY <1>3, SameStore DEF ConvergeInv, RestInv, OnlyPeople
  <2> QED BY <1>3, <2>1, <2>4, <2>5 DEF ConvergeInv, SeenIsStored
<1>4. CASE TimePasses
  <2>1. run' = [run EXCEPT !.late = TRUE] /\ UNCHANGED store /\ UNCHANGED <<pc, settled>>
    BY <1>4 DEF TimePasses
  <2> QED BY <1>1, <1>3, <2>1 DEF Locals
<1>5. CASE UNCHANGED vars
  BY <1>3, <1>5 DEF vars, store
<1> QED BY <1>1, <1>2, <1>4, <1>5, PeopleTyped, StartConverges, SelectConverges, SessionConverges,
        SaveConverges DEF Next, LoopStepNext, PeopleNext, SessionFails, Crash, Event

\* After an undisturbed run that found nothing left, further undisturbed runs
\* have nothing to do.
THEOREM LoopConverges == Spec => []RepeatRunsConverge
<1>1. ConvergeInv => RepeatRunsConverge
  BY DEF ConvergeInv, RestInv, RepeatRunsConverge
<1> QED BY <1>1, LoopTypedInit, LoopTypedNext, CoverageInit, CoverageNext, BudgetInit, BudgetNext,
        ConvergeInit, ConvergeNext, PTL DEF Spec
=============================================================================
