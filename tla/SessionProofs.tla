---------------------------- MODULE SessionProofs ----------------------------
(***************************************************************************)
(* What run_session promises whatever the session does: the records stay   *)
(* typed with any number of processes on the store, and with one command   *)
(* at a time the store tells the next session exactly which sessions were  *)
(* left unfinished, which of them ran past the gate, and which id is free. *)
(* The argument of the second part: ids on disk are 1 .. n without a gap,  *)
(* so a session's record is its own, and until the session leaves it reads *)
(* interrupted and undecided.                                              *)
(***************************************************************************)
EXTENDS AnySession, FiniteSetTheorems, TLAPS

\* One command runs at a time: the operator's discipline, no lock enforces it.
Solo == \A p, q \in Procs : p = q

Labels == {"idle", "numbered", "invalid", "opened", "running", "returned"}

\* The types, and that a started session has an id of the modelled day.
SessionTyped ==
    /\ TypeOK
    /\ \A p \in Procs : pc[p] # "idle" => run[p].sid \in SessionIds

\* Ids are dense, and a numbered session has the next one.
IdsDense ==
    \E n \in 0 .. MaxSessions :
        /\ OnDisk = 1 .. n
        /\ \A p \in Procs : pc[p] = "numbered" => run[p].sid = n + 1

Undecided == [gate |-> "none", close |-> "interrupted"]

\* The record of a running session says nothing yet, and the histories know of
\* it only that its body ran, which it did exactly if the gate let it.
OwnRecord ==
    \A p \in Procs : pc[p] \notin {"idle", "numbered"} =>
        /\ sessions[run[p].sid] = Undecided
        /\ run[p].sid \notin unfinished
        /\ run[p].sid \in worked <=> pc[p] \in {"running", "returned"} /\ run[p].gate = "proceed"

\* Of every other session the record tells what became of it.
RecordsTell ==
    /\ worked \subseteq OnDisk /\ unfinished \subseteq OnDisk
    /\ \A s \in OnDisk \ Active : sessions[s].close = "interrupted" <=> s \in unfinished
    /\ GateFirst

SessionInv == IdsDense /\ OwnRecord /\ RecordsTell
-----------------------------------------------------------------------------
\* The id a session takes is a number of the day, or it is not started.
LEMMA InvokedId ==
  ASSUME TypeOK, NEW p \in Procs, NEW id \in Projects \cup {BadId}, Invoke(p, id)
  PROVE  NextSessionId \in SessionIds
<1>1. IsFiniteSet(SessionIds)
  BY FS_Interval, ProtocolAssumption DEF SessionIds
<1>2. Cardinality(OnDisk) \in Nat
  BY <1>1, FS_Subset, FS_CardinalityType DEF OnDisk
<1> QED BY <1>2, ProtocolAssumption DEF NextSessionId, Invoke, SessionIds

LEMMA NotRunningTyped == NotRunning \in Locals
  BY DEF NotRunning, Locals

LEMMA RecordsTyped ==
  \A gate \in Outcomes \cup {"none"}, close \in {"interrupted", "clean"} :
      /\ [gate |-> gate, close |-> close] \in SessionRecord
      /\ [gate |-> gate, close |-> close] # NoRecord
  BY ProtocolAssumption DEF SessionRecord

LEMMA InitTyped == Init => SessionTyped
  BY NotRunningTyped DEF Init, ProtocolInit, SessionTyped, TypeOK

\* The part of the types that says nothing of the histories.
ProcessTyped ==
    /\ projects \in [Projects -> Contexts \cup {NoProject}]
    /\ sessions \in [SessionIds -> SessionRecord \cup {NoRecord}]
    /\ pc \in [Procs -> Labels] /\ run \in [Procs -> Locals]
    /\ \A q \in Procs : /\ pc[q] = "running" => run[q].gate = "proceed"
                        /\ pc[q] = "returned" => run[q].gate # "none"
                        /\ pc[q] # "idle" => run[q].sid \in SessionIds

HistoryTyped == worked \subseteq SessionIds /\ unfinished \subseteq SessionIds

LEMMA TypedParts == SessionTyped <=> ProcessTyped /\ HistoryTyped
  BY DEF SessionTyped, TypeOK, ProcessTyped, HistoryTyped, Labels

\* Each step of run_session leaves every variable typed; only a proceed of the
\* gate reaches the body.
LEMMA StepTyped ==
  ASSUME SessionTyped, NEW p \in Procs, Step(p)
  PROVE  SessionTyped'
<1> USE DEF SessionTyped, TypeOK, Goto
<1>1. /\ projects \in [Projects -> Contexts \cup {NoProject}]
      /\ sessions \in [SessionIds -> SessionRecord \cup {NoRecord}]
      /\ pc \in [Procs -> Labels] /\ run \in [Procs -> Locals]
      /\ SessionIds \subseteq Nat
  BY DEF Labels, SessionIds
<1>2. run[p] \in Locals /\ run[p].gate \in Outcomes \cup {"none"}
  BY <1>1 DEF Locals
<1>3. pc[p] # "idle" => run[p].sid \in SessionIds
  OBVIOUS
<1>4. SUFFICES ProcessTyped' /\ (pc'[p] = "running" => pc[p] # "idle")
  <2>1. worked' \subseteq SessionIds
    BY <1>3, <1>4 DEF Step
  <2>2. unfinished' = unfinished \/ (pc[p] # "idle" /\ unfinished' = unfinished \cup {run[p].sid})
    BY DEF Step
  <2>3. unfinished' \subseteq SessionIds
    BY <1>3, <2>2
  <2>4. HistoryTyped'
    BY <2>1, <2>3 DEF HistoryTyped
  <2> QED BY <1>4, <2>4, TypedParts, PTL
<1> USE DEF ProcessTyped
<1>5. ASSUME NEW id \in Projects \cup {BadId}, Invoke(p, id)
      PROVE  /\ pc' = [pc EXCEPT ![p] = "numbered"] /\ UNCHANGED <<projects, sessions>>
             /\ \E local \in Locals : local.sid \in SessionIds /\ run' = [run EXCEPT ![p] = local]
  <2>1. NextSessionId \in SessionIds
    BY <1>5, InvokedId
  <2>2. [sid |-> NextSessionId, project |-> id, gate |-> "none", steps |-> FALSE] \in Locals
    BY <1>1, <2>1 DEF Locals
  <2> QED BY <1>5, <2>1, <2>2 DEF Invoke
<1>6. CASE \E id \in Projects \cup {BadId} : Invoke(p, id)
  BY <1>1, <1>5, <1>6 DEF Labels
<1>7. CASE OpenRecord(p)
  BY <1>1, <1>7, RecordsTyped DEF OpenRecord, Save, Labels
<1>8. CASE RefuseInvalid(p)
  BY <1>1, <1>8, RecordsTyped, NotRunningTyped DEF RefuseInvalid, Save, Leave, Labels, Outcomes
<1>9. CASE UnknownProject(p)
  BY <1>1, <1>9, NotRunningTyped DEF UnknownProject, Leave, Labels
<1>10. CASE AskGate(p)
  <2> DEFINE o == Evaluate(projects[run[p].project])
  <2>1. /\ pc[p] = "opened" /\ UNCHANGED <<projects, sessions>>
        /\ run' = [run EXCEPT ![p].gate = o, ![p].steps = (o # "proceed")]
        /\ pc' = [pc EXCEPT ![p] = IF o = "proceed" THEN "running" ELSE "returned"]
    BY <1>10 DEF AskGate
  <2>2. o \in Outcomes /\ o # "none"
    BY DEF Evaluate, Outcomes
  <2> HIDE DEF o
  <2>3. run' \in [Procs -> Locals] /\ run'[p].gate = o /\ run'[p].sid = run[p].sid
        /\ \A q \in Procs \ {p} : run'[q] = run[q]
    BY <1>1, <2>1, <2>2 DEF Locals
  <2> QED BY <1>1, <2>1, <2>2, <2>3 DEF Labels
<1>11. CASE Close(p)
  BY <1>1, <1>2, <1>11, RecordsTyped, NotRunningTyped DEF Close, Save, Leave, Labels
<1>12. CASE BodyReturns(p)
  <2>1. PICK steps \in BOOLEAN : run' = [run EXCEPT ![p].steps = steps]
    BY <1>12 DEF BodyReturns
  <2>2. /\ pc[p] = "running" /\ pc' = [pc EXCEPT ![p] = "returned"]
        /\ UNCHANGED <<projects, sessions>>
    BY <1>12 DEF BodyReturns
  <2>3. run' \in [Procs -> Locals] /\ run'[p].gate = run[p].gate /\ run'[p].sid = run[p].sid
        /\ \A q \in Procs \ {p} : run'[q] = run[q]
    BY <1>1, <2>1 DEF Locals
  <2> QED BY <1>1, <2>2, <2>3 DEF Labels
<1>13. CASE BodyRaises(p)
  BY <1>1, <1>2, <1>13, RecordsTyped, NotRunningTyped DEF BodyRaises, Raise, Save, Leave, Labels
<1> QED BY <1>6, <1>7, <1>8, <1>9, <1>10, <1>11, <1>12, <1>13 DEF Step, ProtocolStep

LEMMA NextTyped == SessionTyped /\ [Next]_vars => SessionTyped'
<1> SUFFICES ASSUME SessionTyped, [Next]_vars PROVE SessionTyped'
  OBVIOUS
<1>1. ASSUME NEW p \in Procs, Step(p) PROVE SessionTyped'
  BY <1>1, StepTyped
<1>2. ASSUME NEW p \in Procs, Dies(p) PROVE SessionTyped'
  BY <1>2, NotRunningTyped DEF Dies, Crash, Leave, Goto, SessionTyped, TypeOK
<1>3. ASSUME NEW id \in Projects, Edit(id) PROVE SessionTyped'
  BY <1>3 DEF Edit, EditProject, SessionTyped, TypeOK
<1>4. CASE UNCHANGED vars
  BY <1>4 DEF vars, SessionTyped, TypeOK
<1> QED BY <1>1, <1>2, <1>3, <1>4 DEF Next

LEMMA TypedHolds == Spec => []SessionTyped
  BY InitTyped, NextTyped, PTL DEF Spec

\* The records of run_session stay typed, and only what the gate lets through
\* runs, with any number of processes on one store.
THEOREM SessionTyping == Spec => []TypeOK
<1>1. SessionTyped => TypeOK
  BY DEF SessionTyped
<1> QED BY <1>1, TypedHolds, PTL-----------------------------------------------------------------------------
LEMMA InitSolo == Init => SessionInv
<1> SUFFICES ASSUME Init PROVE SessionInv
  OBVIOUS
<1>1. OnDisk = {}
  BY DEF Init, ProtocolInit, OnDisk
<1>2. OnDisk = 1 .. 0 /\ 0 \in 0 .. MaxSessions
  BY <1>1, ProtocolAssumption
<1> QED BY <1>1, <1>2 DEF Init, ProtocolInit, SessionInv, IdsDense, OwnRecord, RecordsTell, GateFirst

\* With one process, at most its own session is active.
LEMMA SoloActive ==
  ASSUME Solo, NEW p \in Procs
  PROVE  Active = IF pc[p] \in {"idle", "numbered"} THEN {} ELSE {run[p].sid}
<1>1. \A q \in Procs : q = p
  BY DEF Solo
<1> QED BY <1>1 DEF Active

LEMMA SoloActiveNext ==
  ASSUME Solo, NEW p \in Procs
  PROVE  Active' = IF pc'[p] \in {"idle", "numbered"} THEN {} ELSE {run'[p].sid}
<1>1. \A q \in Procs : q = p
  BY DEF Solo
<1> QED BY <1>1 DEF Active

\* A session past its first save has its record on disk.
LEMMA OwnRecordOnDisk ==
  ASSUME SessionTyped, SessionInv, NEW p \in Procs, pc[p] \notin {"idle", "numbered"}
  PROVE  /\ run[p].sid \in OnDisk /\ sessions[run[p].sid] = Undecided
         /\ run[p].sid \notin unfinished
<1>1. Undecided # NoRecord
  BY RecordsTyped DEF Undecided
<1> QED BY <1>1 DEF SessionTyped, SessionInv, OwnRecord, OnDisk

\* The session leaves run_session: its record now says what became of it.
LEMMA SessionLeaves ==
  ASSUME Solo, SessionTyped, SessionInv, NEW p \in Procs, pc[p] \notin {"idle", "numbered"},
         pc' = [pc EXCEPT ![p] = "idle"], NEW record \in SessionRecord,
         sessions' = [sessions EXCEPT ![run[p].sid] = record],
         UNCHANGED worked,
         unfinished' = IF record.close = "interrupted" THEN unfinished \cup {run[p].sid} ELSE unfinished,
         record.gate = "proceed" => run[p].sid \in worked,
         run[p].sid \in worked => record.gate \notin {"hold", "refuse"}
  PROVE  SessionInv'
<1> DEFINE sid == run[p].sid
<1>1. /\ sid \in OnDisk /\ sid \notin unfinished /\ sid \in SessionIds
      /\ record # NoRecord /\ sessions \in [SessionIds -> SessionRecord \cup {NoRecord}]
      /\ pc \in [Procs -> Labels]
  BY OwnRecordOnDisk, ProtocolAssumption DEF OnDisk, SessionTyped, TypeOK, Labels
<1>2. \A q \in Procs : q = p /\ pc'[q] = "idle"
  BY <1>1 DEF Solo
<1>3. Active = {sid} /\ Active' = {}
  BY <1>2, SoloActive, SoloActiveNext
<1> HIDE DEF sid
<1>4. sessions' = [sessions EXCEPT ![sid] = record]
  BY DEF sid
<1>5. sessions'[sid] = record /\ \A s \in SessionIds \ {sid} : sessions'[s] = sessions[s]
  BY <1>1, <1>4
<1>6. OnDisk' = OnDisk
  BY <1>1, <1>5 DEF OnDisk
<1>7. IdsDense' /\ OwnRecord'
  BY <1>2, <1>6 DEF SessionInv, IdsDense, OwnRecord
<1>8. worked' \subseteq OnDisk' /\ unfinished' \subseteq OnDisk'
  BY <1>1, <1>6 DEF SessionInv, RecordsTell, sid
<1>9. \A s \in OnDisk' \ Active' : sessions'[s].close = "interrupted" <=> s \in unfinished'
  <2> SUFFICES ASSUME NEW s \in OnDisk' PROVE sessions'[s].close = "interrupted" <=> s \in unfinished'
    OBVIOUS
  <2>1. CASE s = sid
    BY <1>1, <1>5, <2>1 DEF sid
  <2>2. CASE s # sid
    BY <1>3, <1>5, <1>6, <2>2 DEF SessionInv, RecordsTell, OnDisk, sid
  <2> QED BY <2>1, <2>2
<1>10. GateFirst'
  <2> SUFFICES ASSUME NEW s \in OnDisk'
               PROVE  /\ s \in worked' => sessions'[s].gate \notin {"hold", "refuse"}
                      /\ sessions'[s].gate = "proceed" => s \in worked'
    BY DEF GateFirst
  <2>1. CASE s = sid
    BY <1>5, <2>1 DEF sid
  <2>2. CASE s # sid
    BY <1>5, <1>6, <2>2 DEF SessionInv, RecordsTell, GateFirst, OnDisk
  <2> QED BY <2>1, <2>2
<1> QED BY <1>7, <1>8, <1>9, <1>10 DEF SessionInv, RecordsTell

\* ... or it leaves without saving, and the record stays interrupted.
LEMMA SessionLeavesUnsaved ==
  ASSUME Solo, SessionTyped, SessionInv, NEW p \in Procs, pc[p] \notin {"idle", "numbered"},
         pc' = [pc EXCEPT ![p] = "idle"], UNCHANGED <<sessions, worked>>,
         unfinished' = unfinished \cup {run[p].sid}
  PROVE  SessionInv'
<1>1. Undecided \in SessionRecord /\ Undecided.close = "interrupted" /\ Undecided.gate = "none"
  BY RecordsTyped DEF Undecided
<1>2. sessions[run[p].sid] = Undecided
  BY OwnRecordOnDisk
<1>3. sessions' = [sessions EXCEPT ![run[p].sid] = Undecided]
  BY <1>2 DEF SessionTyped, TypeOK
<1> QED BY <1>1, <1>3, SessionLeaves

\* Nothing on disk changes and the process stays in its session.
LEMMA SessionStays ==
  ASSUME Solo, SessionTyped, SessionInv, NEW p \in Procs,
         pc[p] \notin {"idle", "numbered"}, pc'[p] \notin {"idle", "numbered"},
         UNCHANGED <<sessions, unfinished>>, run'[p].sid = run[p].sid,
         worked' = IF pc'[p] = "running" THEN worked \cup {run[p].sid} ELSE worked,
         run[p].sid \in worked' <=> pc'[p] \in {"running", "returned"} /\ run'[p].gate = "proceed"
  PROVE  SessionInv'
<1>1. run[p].sid \in OnDisk /\ sessions[run[p].sid] = Undecided /\ OnDisk' = OnDisk
  BY OwnRecordOnDisk DEF OnDisk
<1>2. \A q \in Procs : q = p
  BY DEF Solo
<1>3. Active = {run[p].sid} /\ Active' = {run[p].sid}
  BY SoloActive, SoloActiveNext
<1>4. IdsDense' /\ OwnRecord'
  BY <1>1, <1>2 DEF SessionInv, IdsDense, OwnRecord
<1>5. worked \subseteq worked' /\ worked' \subseteq worked \cup {run[p].sid}
  OBVIOUS
<1>6. RecordsTell'
  BY <1>1, <1>3, <1>5 DEF SessionInv, RecordsTell, GateFirst, Undecided
<1> QED BY <1>4, <1>6 DEF SessionInv

\* run_session is called: the id it counts is the next one.
LEMMA InvokeKeeps ==
  ASSUME Solo, SessionTyped, SessionInv, NEW p \in Procs, NEW id \in Projects \cup {BadId},
         Invoke(p, id), UNCHANGED <<worked, unfinished>>
  PROVE  SessionInv'
<1>1. PICK n \in 0 .. MaxSessions : OnDisk = 1 .. n
  BY DEF SessionInv, IdsDense
<1>2. n \in Nat /\ Cardinality(1 .. n) = n
  BY FS_Interval, ProtocolAssumption
<1>3. NextSessionId = n + 1
  BY <1>1, <1>2 DEF NextSessionId
<1>4. /\ pc[p] = "idle" /\ pc'[p] = "numbered" /\ run'[p].sid = n + 1 /\ sessions' = sessions
  BY <1>3 DEF Invoke, Goto, SessionTyped, TypeOK
<1>5. OnDisk' = OnDisk /\ \A q \in Procs : q = p
  BY <1>4 DEF OnDisk, Solo
<1>6. Active = {} /\ Active' = {}
  BY <1>4, SoloActive, SoloActiveNext
<1>7. IdsDense' /\ OwnRecord'
  BY <1>1, <1>4, <1>5 DEF IdsDense, OwnRecord
<1>8. RecordsTell'
  BY <1>4, <1>5, <1>6 DEF SessionInv, RecordsTell, GateFirst
<1> QED BY <1>7, <1>8 DEF SessionInv

\* Its record is written under a free id.
LEMMA OpenKeeps ==
  ASSUME Solo, SessionTyped, SessionInv, NEW p \in Procs, OpenRecord(p), UNCHANGED <<worked, unfinished>>
  PROVE  SessionInv'
<1>1. PICK n \in 0 .. MaxSessions : OnDisk = 1 .. n /\ run[p].sid = n + 1
  BY DEF SessionInv, IdsDense, OpenRecord
<1>2. n \in Nat /\ MaxSessions \in Nat /\ n + 1 \in SessionIds
  BY <1>1, ProtocolAssumption DEF OpenRecord, SessionTyped
<1>3. n + 1 \in 0 .. MaxSessions
  BY <1>2 DEF SessionIds
<1>4. Undecided # NoRecord /\ sessions \in [SessionIds -> SessionRecord \cup {NoRecord}]
  BY RecordsTyped DEF Undecided, SessionTyped, TypeOK
<1>5. sessions' = [sessions EXCEPT ![n + 1] = Undecided]
  BY <1>1 DEF OpenRecord, Save, Undecided
<1>6. sessions'[n + 1] = Undecided /\ \A s \in SessionIds \ {n + 1} : sessions'[s] = sessions[s]
  BY <1>2, <1>4, <1>5
<1>7. OnDisk' = OnDisk \cup {n + 1}
  BY <1>2, <1>4, <1>6 DEF OnDisk
<1>8. OnDisk' = 1 .. (n + 1)
  BY <1>1, <1>2, <1>7
<1>9. /\ pc[p] = "numbered" /\ pc'[p] \in {"invalid", "opened"} /\ run' = run
      /\ \A q \in Procs : q = p
  BY DEF OpenRecord, Goto, Solo, SessionTyped, TypeOK
<1>10. n + 1 \notin OnDisk
  BY <1>1, <1>2
<1>11. n + 1 \notin worked /\ n + 1 \notin unfinished
  BY <1>10 DEF SessionInv, RecordsTell
<1>12. Active = {} /\ Active' = {n + 1}
  BY <1>1, <1>9, SoloActive, SoloActiveNext
<1>13. IdsDense'
  BY <1>3, <1>8, <1>9 DEF IdsDense
<1>14. OwnRecord'
  BY <1>1, <1>6, <1>9, <1>11 DEF OwnRecord
<1>15. RecordsTell'
  <2>1. \A s \in OnDisk : s # n + 1 /\ sessions'[s] = sessions[s]
    BY <1>6, <1>10 DEF OnDisk
  <2>2. GateFirst'
    BY <1>6, <1>7, <1>11, <2>1 DEF SessionInv, RecordsTell, GateFirst, Undecided
  <2> QED BY <1>7, <1>12, <2>1, <2>2 DEF SessionInv, RecordsTell
<1> QED BY <1>13, <1>14, <1>15 DEF SessionInv

\* What the histories record of a step.
LEMMA StepHistories ==
  ASSUME NEW p \in Procs, Step(p)
  PROVE  /\ worked' = IF pc'[p] = "running" THEN worked \cup {run[p].sid} ELSE worked
         /\ pc[p] # "idle" /\ pc'[p] = "idle" /\ pc[p] # "invalid" /\ (pc[p] = "returned" => ~run[p].steps)
               => unfinished' = unfinished \cup {run[p].sid}
         /\ pc[p] = "idle" \/ pc'[p] # "idle" \/ pc[p] = "invalid" \/ (pc[p] = "returned" /\ run[p].steps)
               => unfinished' = unfinished
  BY DEF Step

LEMMA SoloStep ==
  ASSUME Solo, SessionTyped, SessionInv, NEW p \in Procs, Step(p)
  PROVE  SessionInv'
<1>1. pc \in [Procs -> Labels] /\ run \in [Procs -> Locals] /\ run[p].gate \in Outcomes \cup {"none"}
  BY DEF SessionTyped, TypeOK, Locals, Labels
<1>2. pc[p] \notin {"idle", "numbered"} =>
        (run[p].sid \in worked <=> pc[p] \in {"running", "returned"} /\ run[p].gate = "proceed")
  BY DEF SessionInv, OwnRecord
<1>3. pc[p] = "running" => run[p].gate = "proceed"
  BY DEF SessionTyped, TypeOK
<1>4. CASE \E id \in Projects \cup {BadId} : Invoke(p, id)
  <2>1. pc[p] = "idle" /\ pc'[p] = "numbered"
    BY <1>1, <1>4 DEF Invoke, Goto
  <2> QED BY <1>4, <2>1, StepHistories, InvokeKeeps
<1>5. CASE OpenRecord(p)
  <2>1. pc[p] = "numbered" /\ pc'[p] \in {"invalid", "opened"}
    BY <1>1, <1>5 DEF OpenRecord, Goto
  <2> QED BY <1>5, <2>1, StepHistories, OpenKeeps
<1>6. CASE RefuseInvalid(p)
  <2> DEFINE record == [gate |-> "refuse", close |-> "clean"]
  <2>1. /\ pc[p] = "invalid" /\ pc' = [pc EXCEPT ![p] = "idle"]
        /\ sessions' = [sessions EXCEPT ![run[p].sid] = record]
    BY <1>6 DEF RefuseInvalid, Leave, Goto, Save
  <2>2. record \in SessionRecord /\ record.close = "clean" /\ record.gate = "refuse"
    BY RecordsTyped DEF Outcomes
  <2>3. UNCHANGED <<worked, unfinished>>
    BY <1>1, <2>1, StepHistories
  <2> HIDE DEF record
  <2> QED BY <1>2, <2>1, <2>2, <2>3, SessionLeaves
<1>7. CASE UnknownProject(p)
  <2>1. pc[p] = "opened" /\ pc' = [pc EXCEPT ![p] = "idle"] /\ sessions' = sessions
    BY <1>7 DEF UnknownProject, Leave, Goto
  <2>2. worked' = worked /\ unfinished' = unfinished \cup {run[p].sid}
    BY <1>1, <2>1, StepHistories
  <2> QED BY <2>1, <2>2, SessionLeavesUnsaved
<1>8. CASE AskGate(p)
  <2> DEFINE o == Evaluate(projects[run[p].project])
  <2>1. /\ pc[p] = "opened" /\ sessions' = sessions
        /\ run' = [run EXCEPT ![p].gate = o, ![p].steps = (o # "proceed")]
        /\ pc'[p] = IF o = "proceed" THEN "running" ELSE "returned"
    BY <1>1, <1>8 DEF AskGate, Goto
  <2> HIDE DEF o
  <2>2. run'[p].gate = o /\ run'[p].sid = run[p].sid
    BY <1>1, <2>1 DEF Locals
  <2>3. unfinished' = unfinished
    BY <2>1, StepHistories
  <2>4. worked' = IF pc'[p] = "running" THEN worked \cup {run[p].sid} ELSE worked
    BY StepHistories
  <2>5. run[p].sid \in worked' <=> pc'[p] \in {"running", "returned"} /\ run'[p].gate = "proceed"
    BY <1>2, <2>1, <2>2, <2>4
  <2> QED BY <2>1, <2>2, <2>3, <2>4, <2>5, SessionStays
<1>9. CASE Close(p)
  <2> DEFINE record == [gate |-> run[p].gate, close |-> IF run[p].steps THEN "clean" ELSE "interrupted"]
  <2>1. /\ pc[p] = "returned" /\ pc' = [pc EXCEPT ![p] = "idle"]
        /\ sessions' = [sessions EXCEPT ![run[p].sid] = record]
    BY <1>9 DEF Close, Leave, Goto, Save
  <2>2. /\ record \in SessionRecord /\ record.gate = run[p].gate
        /\ record.close = "interrupted" <=> ~run[p].steps
    BY <1>1, RecordsTyped
  <2>3. /\ worked' = worked
        /\ unfinished' = IF run[p].steps THEN unfinished ELSE unfinished \cup {run[p].sid}
    BY <1>1, <2>1, StepHistories
  <2> HIDE DEF record
  <2> QED BY <1>2, <2>1, <2>2, <2>3, SessionLeaves
<1>10. CASE BodyReturns(p)
  <2>1. PICK steps \in BOOLEAN : run' = [run EXCEPT ![p].steps = steps]
    BY <1>10 DEF BodyReturns
  <2>2. /\ pc[p] = "running" /\ pc'[p] = "returned" /\ sessions' = sessions
    BY <1>1, <1>10 DEF BodyReturns, Goto
  <2>3. run'[p].gate = run[p].gate /\ run'[p].sid = run[p].sid
    BY <1>1, <2>1 DEF Locals
  <2>4. worked' = worked /\ unfinished' = unfinished
    BY <2>2, StepHistories
  <2> QED BY <1>2, <2>2, <2>3, <2>4, SessionStays
<1>11. CASE BodyRaises(p)
  <2> DEFINE record == [gate |-> run[p].gate, close |-> "interrupted"]
  <2>1. /\ pc[p] = "running" /\ pc' = [pc EXCEPT ![p] = "idle"]
        /\ sessions' = [sessions EXCEPT ![run[p].sid] = record]
    BY <1>11 DEF BodyRaises, Raise, Leave, Goto, Save
  <2>2. record \in SessionRecord /\ record.gate = run[p].gate /\ record.close = "interrupted"
    BY <1>1, RecordsTyped
  <2>3. worked' = worked /\ unfinished' = unfinished \cup {run[p].sid}
    BY <1>1, <2>1, StepHistories
  <2> HIDE DEF record
  <2> QED BY <1>2, <1>3, <2>1, <2>2, <2>3, SessionLeaves
<1> QED BY <1>4, <1>5, <1>6, <1>7, <1>8, <1>9, <1>10, <1>11 DEF Step, ProtocolStep

\* A process that dies leaves its record as it is, interrupted; one that dies
\* between numbering and saving leaves nothing.
LEMMA SoloDies ==
  ASSUME Solo, SessionTyped, SessionInv, NEW p \in Procs, Dies(p)
  PROVE  SessionInv'
<1>1. /\ pc[p] # "idle" /\ pc' = [pc EXCEPT ![p] = "idle"] /\ UNCHANGED <<sessions, worked>>
      /\ unfinished' = IF pc[p] = "numbered" THEN unfinished ELSE unfinished \cup {run[p].sid}
  BY DEF Dies, Crash, Leave, Goto
<1>2. CASE pc[p] = "numbered"
  <2>1. \A q \in Procs : q = p /\ pc'[q] = "idle"
    BY <1>1 DEF Solo, SessionTyped, TypeOK
  <2>2. Active = {} /\ Active' = {} /\ OnDisk' = OnDisk
    BY <1>1, <1>2, <2>1, SoloActive, SoloActiveNext DEF OnDisk
  <2>3. unfinished' = unfinished
    BY <1>1, <1>2
  <2> QED BY <1>1, <2>1, <2>2, <2>3 DEF SessionInv, IdsDense, OwnRecord, RecordsTell, GateFirst
<1>3. CASE pc[p] # "numbered"
  BY <1>1, <1>3, SessionLeavesUnsaved
<1> QED BY <1>2, <1>3

LEMMA SoloNext ==
  ASSUME Solo
  PROVE  SessionTyped /\ SessionInv /\ [Next]_vars => SessionInv'
<1> SUFFICES ASSUME SessionTyped, SessionInv, [Next]_vars PROVE SessionInv'
  OBVIOUS
<1>1. ASSUME UNCHANGED <<sessions, pc, run, worked, unfinished>> PROVE SessionInv'
  BY <1>1 DEF SessionInv, IdsDense, OwnRecord, RecordsTell, GateFirst, OnDisk, Active
<1>2. ASSUME NEW id \in Projects, Edit(id) PROVE SessionInv'
  BY <1>1, <1>2 DEF Edit, EditProject
<1>3. CASE UNCHANGED vars
  BY <1>1, <1>3 DEF vars
<1> QED BY <1>2, <1>3, SoloStep, SoloDies DEF Next

LEMMA SoloHolds == ASSUME Solo PROVE Spec => []SessionInv
  BY InitSolo, SoloNext, TypedHolds, PTL DEF Spec

\* With one command at a time, find_resumable answers with exactly the sessions
\* that were left without a clean close, and the running one.
THEOREM SoloResumable == ASSUME Solo PROVE Spec => []ResumableIsUnfinished
<1>1. SessionInv => ResumableIsUnfinished
  BY DEF SessionInv, RecordsTell, ResumableIsUnfinished, Resumable
<1> QED BY <1>1, SoloHolds, PTL

\* With one command at a time, no record says held or refused for a session
\* whose body ran, and none says proceed for one whose body did not.
THEOREM SoloGateFirst == ASSUME Solo PROVE Spec => []GateFirst
<1>1. SessionInv => GateFirst
  BY DEF SessionInv, RecordsTell
<1> QED BY <1>1, SoloHolds, PTL

\* With one command at a time the id a session writes its record under is above
\* every id on disk.
THEOREM SoloMonotonic == ASSUME Solo PROVE Spec => MonotonicCounter
<1>1. ASSUME SessionTyped, SessionInv, [Next]_vars, NEW p \in Procs, pc[p] = "numbered",
             NEW s \in OnDisk
      PROVE  s < run[p].sid
  <2>1. PICK n \in 0 .. MaxSessions : OnDisk = 1 .. n /\ run[p].sid = n + 1
    BY <1>1 DEF SessionInv, IdsDense
  <2> QED BY <1>1, <2>1, ProtocolAssumption
<1>2. SessionTyped /\ SessionInv /\ [Next]_vars
        => [\A p \in Procs : pc[p] = "numbered" /\ pc'[p] \in {"opened", "invalid"}
                => \A s \in OnDisk : s < run[p].sid]_vars
  BY <1>1
<1> QED BY <1>2, TypedHolds, SoloHolds, PTL DEF Spec, MonotonicCounter
=============================================================================
