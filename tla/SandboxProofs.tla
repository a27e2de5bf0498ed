---------------------------- MODULE SandboxProofs ----------------------------
(***************************************************************************)
(* The sandbox for every set of images and inputs, every request and every *)
(* length of the clock.  The inductive invariant follows one run: nothing  *)
(* starts before it is authorized, attested and bound; a client that may   *)
(* still start a container is the marked one or has been cleared; and the  *)
(* status of a container's client is explained by how the target ended.    *)
(***************************************************************************)
EXTENDS SandboxRun, TLAPS

Authorized == request.enabled /\ ValidFor(request.signoff, authorizedAt)

Began == {"binding", "launching", "capturing", "waiting", "removing", "reaping", "settling"}

Handling == {"capturing", "waiting", "removing", "reaping", "settling"}

\* Before the image is attested nothing is started; afterwards the pinned image
\* stays the attested one.
Attested ==
    /\ pc \in {"entered", "probing", "inspecting"} =>
           /\ pinned = NoImage /\ active = "none" /\ stage = "read"
           /\ \A c \in Containers : box[c].client = "none"
    /\ pc \in {"probing", "inspecting"} => Authorized
    /\ pc \in Began => pinned # NoImage
    /\ pinned # NoImage => Authorized /\ pinned = request.digest
    /\ pc \in Began \ {"binding"} => Bindable
    /\ pc = "binding" => /\ active = "none" /\ stage = "read"
                         /\ \A c \in Containers : box[c].client = "none"
    /\ pc = "launching" => active = "none" /\ box[stage].client = "none"
    /\ stage = "read" => box["repro"].client = "none"

\* A container that may still come up is the marked one, or was cleared.
Marked ==
    /\ pc \in Handling => active = stage
    /\ \A c \in Containers :
         /\ box[c].client = "starting" /\ c \notin cleared => active = c
         /\ box[c].state \in {"up", "left"} => active = c /\ c \notin cleared
         /\ box[c].state = "stray" => c \in cleared
    /\ pc \in {"capturing", "waiting", "removing"} => stage \notin cleared
    /\ pc \in {"reaping", "settling"} /\ gone => stage \in cleared
    /\ pc = "launching" => stage \notin cleared
    /\ stage = "read" => active # "repro" /\ "repro" \notin cleared
    /\ pc \in {"entered", "probing", "inspecting", "binding"} => cleared = {}

\* Each container by itself.
Lived(c) ==
    LET b == box[c]
    IN /\ b.client = "none" => b.state = "unborn" /\ b.image = NoImage /\ b.exit = "none"
       /\ b.client # "none" => pinned # NoImage /\ Bindable
       /\ b.client = "starting" => b.state = "unborn"
       /\ b.client \in {"starting", "attached"} => b.exit = "none"
       /\ b.client \in {"exited", "killed"} => b.exit # "none"
       /\ b.image # NoImage => b.image = pinned
       /\ b.state # "unborn" => b.image # NoImage
       /\ b.exit \in {"ok", "crash"} => b.state \in {"left", "gone"} /\ b.client = "exited"
       /\ b.exit = "ok" => b.died = "exit"
       /\ b.exit = "crash" => b.died \in {"signal", "capped"}
       /\ b.exit = "dead" => b.client = "exited"

\* The client of the captured container, and what the read established.
Captured ==
    /\ pc \in {"capturing", "waiting"} => box[stage].client \in {"starting", "attached", "exited"}
    /\ pc \in {"capturing", "waiting"} => box[stage].exit # "killed" /\ cut = "none"
    /\ pc \in {"removing", "reaping", "settling"} /\ cut = "none" =>
           /\ box[stage].client = "exited" /\ box[stage].exit # "killed"
           /\ box[stage].state # "stray"
    /\ pc \in {"reaping", "settling"} /\ cut = "none" /\ gone => box[stage].state \in {"gone", "unborn"}
    /\ pc = "settling" => box[stage].client \in {"exited", "killed"} /\ cut # "interrupted"
    /\ stage = "repro" => /\ Baked[pinned] = request.repro
                          /\ box["read"].state = "gone" /\ box["read"].client = "exited"

\* A verdict that rests on the target's exit.
Concluded ==
    /\ outcome = "none" <=> pc \notin {"leaving", "done"}
    /\ outcome \in Results => stage = "repro"
    /\ outcome = "reproduced" => box["repro"].exit = "crash" /\ ParseAsan(box["repro"].said)
    /\ outcome = "not_reproduced" => box["repro"].exit \in {"ok", "crash", "dead"}
    /\ outcome \in {"reproduced", "not_reproduced"} => box["repro"].state # "stray"
    /\ outcome \in Results /\ pc = "done" => active = "none"

IInv == /\ TypeOK /\ Attested /\ Marked
        /\ \A c \in Containers : Lived(c)
        /\ Captured /\ Concluded

\* What `rm -f` makes of the boxes.
LEMMA RemovedBox ==
  ASSUME box \in [Containers -> Box], NEW c \in Containers
  PROVE  /\ Removed(c) \in [Containers -> Box]
         /\ \A d \in Containers : d # c => Removed(c)[d] = box[d]
         /\ Removed(c)[c].state = IF box[c].state = "unborn" THEN "unborn" ELSE "gone"
         /\ Removed(c)[c].client = IF box[c].client = "attached" THEN "exited" ELSE box[c].client
         /\ Removed(c)[c].exit = IF box[c].client = "attached" THEN "killed" ELSE box[c].exit
         /\ Removed(c)[c].image = box[c].image /\ Removed(c)[c].died = box[c].died
         /\ Removed(c)[c].said = box[c].said
  BY DEF Removed, AfterRemoval, Box

\* A run that is removed, or not, has lived a life the invariant knows.
LEMMA RemovedLived ==
  ASSUME IInv, NEW c \in Containers, box' \in {box, Removed(c)},
         UNCHANGED <<pinned, request>>
  PROVE  /\ box' \in [Containers -> Box]
         /\ \A d \in Containers : Lived(d)'
<1>1. box \in [Containers -> Box]
  BY DEF IInv, TypeOK
<1>2. box' \in [Containers -> Box]
  BY <1>1, RemovedBox
<1>3. ASSUME NEW d \in Containers PROVE Lived(d)'
  <2>1. Lived(d) /\ box[d] \in Box
    BY <1>1 DEF IInv
  <2>2. CASE box'[d] = box[d]
    BY <2>1, <2>2 DEF Lived, Bindable
  <2>3. CASE d = c /\ box' = Removed(c)
    BY <1>1, <2>1, <2>3, RemovedBox DEF Lived, Bindable, NewBox, Box
  <2> QED BY <1>1, <2>2, <2>3, RemovedBox
<1> QED BY <1>2, <1>3
-----------------------------------------------------------------------------
LEMMA InitSound == Init => IInv
<1> SUFFICES ASSUME Init PROVE IInv
  OBVIOUS
<1>1. NewBox \in Box /\ \A c \in Containers : box[c] = NewBox
  BY DEF Init, NewBox, Box
<1>2. TypeOK
  <2>1. box \in [Containers -> Box]
    BY <1>1 DEF Init
  <2>2. authorizedAt \in 0 .. MaxNow + 1 /\ now \in 0 .. MaxNow
    BY SandboxAssumption DEF Init
  <2> QED BY <2>1, <2>2 DEF Init, TypeOK, Containers
<1>3. Attested /\ Marked
  BY <1>1 DEF Init, Attested, Marked, Containers, Began, Handling, NewBox
<1>4. \A c \in Containers : Lived(c)
  BY <1>1 DEF Lived, NewBox
<1>5. Captured /\ Concluded
  BY DEF Init, Captured, Concluded, Results
<1> QED BY <1>2, <1>3, <1>4, <1>5 DEF IInv

\* Steps of run() that leave the containers and their clients alone.
LEMMA QuietStepSound ==
  ASSUME IInv,
         \/ GateRefuses \/ Authorize \/ Probe \/ Attest \/ Bind \/ EndOfOutput
         \/ Overflow \/ Deadline \/ WaitClient \/ VerifyBakedInput \/ Classify
         \/ Interrupt \/ Retag \/ Tick
  PROVE  IInv'
<1> USE SandboxAssumption
    DEF IInv, TypeOK, Attested, Marked, Lived, Captured, Concluded, Authorized, Bindable,
        ValidFor, Began, Handling, Containers, Results, Errors, Box, NewBox, World, local,
        Goto, Leave
<1>1. CASE GateRefuses
  BY <1>1 DEF GateRefuses
<1>2. CASE Authorize
  BY <1>2 DEF Authorize
<1>3. CASE Probe
  BY <1>3 DEF Probe
<1>4. CASE Attest
  BY <1>4 DEF Attest
<1>5. CASE Bind
  BY <1>5 DEF Bind
<1>6. CASE EndOfOutput
  BY <1>6 DEF EndOfOutput
<1>7. CASE Overflow \/ Deadline
  <2>1. CASE Cut("overflowed")
    BY <2>1 DEF Cut
  <2>2. CASE Cut("timed_out")
    BY <2>2 DEF Cut
  <2> QED BY <1>7, <2>1, <2>2 DEF Overflow, Deadline
<1>8. CASE WaitClient
  BY <1>8 DEF WaitClient
<1>9. CASE VerifyBakedInput
  BY <1>9 DEF VerifyBakedInput, SeedMatches, Decoded, Unmark
<1>10. CASE Classify
  BY <1>10 DEF Classify, Classified, Unmark
<1>11. CASE Interrupt
  <2>1. CASE Cut("interrupted")
    BY <2>1 DEF Cut
  <2>2. CASE pc \notin {"capturing", "leaving", "done"} /\ Leave("interrupted")
             /\ UNCHANGED <<World, local, box, cleared>>
    BY <2>2
  <2>3. CASE pc = "leaving" /\ pc' = "done" /\ outcome' = "interrupted"
             /\ UNCHANGED <<World, local, box, cleared>>
    BY <2>3
  <2> QED BY <1>11, <2>1, <2>2, <2>3 DEF Interrupt
<1>12. CASE Retag
  BY <1>12 DEF Retag
<1>13. CASE Tick
  BY <1>13 DEF Tick
<1> QED BY <1>1, <1>2, <1>3, <1>4, <1>5, <1>6, <1>7, <1>8, <1>9, <1>10, <1>11, <1>12, <1>13

\* Starting a client.
LEMMA LaunchSound == ASSUME IInv, Launch PROVE IInv'
<1> USE SandboxAssumption
    DEF IInv, TypeOK, Attested, Marked, Captured, Concluded, Authorized, Bindable,
        ValidFor, Began, Handling, Containers, Results, Errors, Box, NewBox, World, local,
        Goto, Leave, Launch
<1>1. TypeOK'
  OBVIOUS
<1>2. Attested' /\ Marked'
  OBVIOUS
<1>3. ASSUME NEW c \in Containers PROVE Lived(c)'
  <2>1. CASE c # stage \/ box' = box
    <3>1. box'[c] = box[c] /\ Lived(c)
      BY <2>1
    <3> QED BY <3>1 DEF Lived
  <2>2. CASE c = stage /\ box' # box
    <3>1. /\ box'[c].client = "starting" /\ box'[c].state = "unborn"
          /\ box'[c].exit = "none" /\ box'[c].image = NoImage
      BY <2>2 DEF Lived
    <3> QED BY <3>1 DEF Lived
  <2> QED BY <2>1, <2>2
<1>4. Captured' /\ Concluded'
  BY DEF Lived
<1> QED BY <1>1, <1>2, <1>3, <1>4

\* Removing the container of the capture.
LEMMA ForceRemoveSound == ASSUME IInv, ForceRemove PROVE IInv'
<1>1. stage \in Containers /\ box \in [Containers -> Box] /\ box' \in {box, Removed(stage)}
  BY DEF IInv, TypeOK, ForceRemove, Confirms, Unconfirmed
<1>2. box' \in [Containers -> Box] /\ \A c \in Containers : Lived(c)'
  BY <1>1, RemovedLived DEF ForceRemove, World
<1>3. \A c \in Containers : Lived(c)
  BY DEF IInv
<1> USE SandboxAssumption, <1>1, <1>2, <1>3, RemovedBox
    DEF IInv, TypeOK, Attested, Marked, Captured, Concluded, Authorized, Bindable,
        ValidFor, Began, Handling, Containers, Results, Errors, World, Goto,
        ForceRemove, Confirms, Unconfirmed
<1>4. TypeOK'
  OBVIOUS
<1>5. Attested'
  OBVIOUS
<1>6. Marked'
  OBVIOUS
<1>7. Captured'
  BY DEF Lived
<1>8. Concluded'
  OBVIOUS
<1> QED BY <1>4, <1>5, <1>6, <1>7, <1>8

\* Reaping its client.
LEMMA ReapSound == ASSUME IInv, Reap PROVE IInv'
<1> USE SandboxAssumption
    DEF IInv, TypeOK, Attested, Marked, Captured, Concluded, Authorized, Bindable,
        ValidFor, Began, Handling, Containers, Results, Errors, Box, NewBox, World, local,
        Goto, Leave, Reap
<1>1. TypeOK'
  OBVIOUS
<1>2. Attested'
  OBVIOUS
<1>5. Marked'
  OBVIOUS
<1>3. ASSUME NEW c \in Containers PROVE Lived(c)'
  <2>1. Lived(c) /\ box[c] \in Box
    OBVIOUS
  <2>2. CASE c # stage
    <3>1. box'[c] = box[c]
      BY <2>2
    <3> QED BY <2>1, <3>1 DEF Lived
  <2>3. CASE c = stage
    <3>1. /\ box'[c].client = IF box[c].client = "exited" THEN "exited" ELSE "killed"
          /\ box'[c].exit = IF box[c].exit = "none" THEN "killed" ELSE box[c].exit
          /\ box'[c].state = box[c].state /\ box'[c].image = box[c].image
          /\ box'[c].died = box[c].died
      BY <2>3
    <3> QED BY <2>1, <2>3, <3>1 DEF Lived
  <2> QED BY <2>2, <2>3
<1>4. Captured' /\ Concluded'
  OBVIOUS
<1> QED BY <1>1, <1>2, <1>3, <1>4, <1>5

\* Tearing down.
LEMMA TeardownSound == ASSUME IInv, Teardown PROVE IInv'
<1>1. CASE active = "none" /\ UNCHANGED <<active, box, outcome, cleared>>
  BY <1>1, SandboxAssumption
  DEF IInv, TypeOK, Attested, Marked, Lived, Captured, Concluded, Authorized, Bindable,
      ValidFor, Began, Handling, Containers, Results, Errors, World, Teardown
<1>2. CASE active # "none" /\ (Confirms(active) \/ Unconfirmed(active))
  <2>1. active \in Containers /\ box \in [Containers -> Box] /\ box' \in {box, Removed(active)}
    BY <1>2 DEF IInv, TypeOK, Confirms, Unconfirmed
  <2>2. box' \in [Containers -> Box] /\ \A c \in Containers : Lived(c)'
    BY <2>1, RemovedLived DEF Teardown, World
  <2>3. \A c \in Containers : Lived(c)
    BY DEF IInv
  <2>9. \A c \in Containers : c # active =>
            /\ box[c].state \notin {"up", "left"}
            /\ box[c].client = "starting" => c \in cleared
    BY DEF IInv, Marked
  <2>10. ASSUME Confirms(active)
         PROVE  /\ box'[active].state \in {"unborn", "gone"} /\ active \in cleared'
                /\ \A c \in Containers : c # active => box'[c] = box[c] /\ (c \in cleared => c \in cleared')
    BY <2>1, <2>10, RemovedBox DEF Confirms
  <2> USE SandboxAssumption, <1>2, <2>1, <2>2, <2>3, RemovedBox
      DEF IInv, TypeOK, Attested, Marked, Captured, Concluded, Authorized, Bindable,
          ValidFor, Began, Handling, Containers, Results, Errors, World,
          Teardown, Confirms, Unconfirmed
  <2>4. TypeOK'
    OBVIOUS
  <2>5. Attested'
    OBVIOUS
  <2>6. Marked'
    <3>1. CASE Confirms(active) /\ active' = "none"
      BY <2>9, <2>10, <3>1
    <3>2. CASE Unconfirmed(active) /\ UNCHANGED active
      <4>1. \A c \in Containers : /\ box'[c].state \in {"up", "left"} => box[c].state \in {"up", "left"}
                                  /\ box'[c].client = "starting" => box[c].client = "starting"
        BY <2>1, RemovedBox
      <4> QED BY <3>2, <4>1
    <3> QED BY <3>1, <3>2
  <2>7. Captured'
    BY DEF Lived
  <2>8. Concluded'
    BY DEF Lived
  <2> QED BY <2>4, <2>5, <2>6, <2>7, <2>8
<1> QED BY <1>1, <1>2 DEF Teardown

\* The daemon answers a client that is still starting, or a client ends.
LEMMA DaemonSound ==
  ASSUME IInv, NEW c \in Containers,
         DaemonStarts(c) \/ DaemonCannot(c) \/ ClientDies(c)
  PROVE  IInv'
<1> USE SandboxAssumption
    DEF IInv, TypeOK, Attested, Marked, Lived, Captured, Concluded, Authorized, Bindable,
        ValidFor, Began, Handling, Containers, Results, Errors, Box, World, local,
        DaemonStarts, DaemonCannot, ClientDies
<1>1. TypeOK'
  OBVIOUS
<1>2. Attested'
  OBVIOUS
<1>3. Marked'
  OBVIOUS
<1>4. ASSUME NEW d \in Containers PROVE Lived(d)'
  <2>1. CASE d # c
    <3>1. box'[d] = box[d]
      BY <2>1
    <3> QED BY <3>1
  <2>2. CASE d = c
    BY <2>2
  <2> QED BY <2>1, <2>2
<1>5. Captured'
  OBVIOUS
<1>6. Concluded'
  OBVIOUS
<1> QED BY <1>1, <1>2, <1>3, <1>4, <1>5, <1>6

\* A container ends, by itself and at any time.
LEMMA EndsSound ==
  ASSUME IInv, NEW c \in Containers,
         NEW died \in {"signal", "capped", "exit", "killed", "unstarted"},
         NEW exit \in {"ok", "crash", "infra", "runtime", "dead"}, NEW said \in SUBSET Lines,
         exit = "ok" => died = "exit", exit = "crash" => died \in {"signal", "capped"},
         Ends(c, died, exit, said)
  PROVE  IInv'
<1>1. PICK state \in {"gone", "left"} :
        /\ box' = [box EXCEPT ![c].client = IF @ = "attached" THEN "exited" ELSE @,
                              ![c].exit = IF @ = "none" THEN exit ELSE @,
                              ![c].state = state, ![c].died = died, ![c].said = said]
        /\ box[c].state \in {"up", "stray"} /\ (state = "left" => box[c].state = "up")
  BY DEF Ends
<1>2. box \in [Containers -> Box] /\ Lived(c) /\ box[c] \in Box
  BY DEF IInv, TypeOK
<1>3. /\ \A d \in Containers : d # c => box'[d] = box[d]
      /\ box' \in [Containers -> Box]
      /\ box'[c].client = IF box[c].client = "attached" THEN "exited" ELSE box[c].client
      /\ box'[c].exit = IF box[c].exit = "none" THEN exit ELSE box[c].exit
      /\ box'[c].state = state /\ box'[c].image = box[c].image
      /\ box'[c].died = died /\ box'[c].said = said
  BY <1>1, <1>2 DEF Box
<1>4. /\ UNCHANGED <<request, now, tag, authorizedAt, pc, stage, active, pinned, cut, gone>>
      /\ UNCHANGED <<outcome, cleared>>
  BY DEF Ends, World, local
<1>5. /\ box[c].client \in {"attached", "exited", "killed"} /\ box[c].exit \notin {"ok", "crash"}
      /\ box[c].state = "up" => active = c /\ c \notin cleared
  BY <1>1, <1>2 DEF IInv, Lived, Marked, Box
<1>6. TypeOK'
  BY <1>3, <1>4, <1>5 DEF IInv, TypeOK
<1>7. Attested'
  <2>1. \A d \in Containers : box[d].client = "none" => box'[d].client = "none"
    <3>1. \A d \in Containers : box[d].client = "none" => d # c
      BY <1>5
    <3> QED BY <1>3, <3>1
  <2>2. stage \in Containers /\ "repro" \in Containers
    BY DEF IInv, TypeOK, Containers
  <2> QED BY <1>4, <2>1, <2>2 DEF IInv, Attested, Authorized, ValidFor, Bindable
<1>8. Marked'
  <2>1. ASSUME NEW d \in Containers
        PROVE  /\ box'[d].client = "starting" => box[d].client = "starting"
               /\ box'[d].state = "up" => box[d].state = "up"
               /\ box'[d].state = "left" => box[d].state \in {"up", "left"}
               /\ box'[d].state = "stray" => box[d].state = "stray"
    <3>1. d # c => box'[d] = box[d]
      BY <1>3
    <3>2. box'[c].client # "starting" /\ box'[c].state \in {"gone", "left"}
          /\ (box'[c].state = "left" => box[c].state = "up")
      BY <1>1, <1>3, <1>5
    <3>3. CASE d = c
      BY <3>2, <3>3
    <3>4. CASE d # c
      BY <3>1, <3>4
    <3> QED BY <3>3, <3>4
  <2> QED BY <1>4, <2>1 DEF IInv, Marked
<1>9. ASSUME NEW d \in Containers PROVE Lived(d)'
  <2>1. Lived(d)
    BY DEF IInv
  <2>2. CASE d # c
    <3>1. box'[d] = box[d]
      BY <1>3, <2>2
    <3> QED BY <1>4, <2>1, <3>1 DEF Lived, Bindable
  <2>3. CASE d = c
    <3>1. box'[c].exit \in {"ok", "crash"} => box[c].exit = "none" /\ box'[c].exit = exit
      BY <1>3, <1>5
    <3>2. box[c].exit = "none" => box[c].client = "attached"
      BY <1>2, <1>5 DEF Lived
    <3>4. box'[c].exit # "none" /\ box'[c].client \in {"exited", "killed"}
      BY <1>3, <1>5
    <3> QED BY <1>2, <1>3, <1>4, <1>5, <1>1, <2>1, <2>3, <3>1, <3>2, <3>4 DEF Lived, Bindable
  <2> QED BY <2>2, <2>3
<1>10. Captured'
  <2>1. Captured /\ stage \in Containers
    BY DEF IInv, TypeOK
  <2>2. stage = "repro" => c # "read"
    BY <1>1, <2>1 DEF Captured
  <2>3. box'[c].client \in {"exited", "killed"} /\ (box[c].client = "exited" => box'[c].client = "exited")
    BY <1>3, <1>5
  <2>4. box[c].exit # "killed" => box'[c].exit # "killed"
    BY <1>3
  <2>5. stage = "repro" => box'["read"] = box["read"]
    BY <1>3, <2>2 DEF Containers
  <2>6. CASE stage # c
    <3>1. box'[stage] = box[stage]
      BY <1>3, <2>1, <2>6
    <3> QED BY <1>4, <2>1, <2>5, <3>1 DEF Captured
  <2>7. CASE stage = c
    <3>1. /\ pc \in {"capturing", "waiting"} => box[c].client \in {"attached", "exited"}
          /\ box[c].client \in {"attached", "exited"} /\ box'[c].client # "exited" => FALSE
      BY <1>3, <1>5, <2>1, <2>7 DEF Captured
    <3>2. box'[c].state \in {"gone", "left"} /\ (box'[c].state = "left" => box[c].state = "up")
      BY <1>1, <1>3, <1>5
    <3>3. pc \in {"reaping", "settling"} /\ cut = "none" /\ gone => box'[c].state = "gone"
      BY <2>1, <2>7, <3>2 DEF Captured
    <3>4. box'[stage].state # "stray"
      BY <2>7, <3>2
    <3> QED BY <1>4, <2>1, <2>3, <2>4, <2>5, <2>7, <3>1, <3>3, <3>4 DEF Captured
  <2> QED BY <2>6, <2>7
<1>11. Concluded'
  BY <1>3, <1>4, <1>5 DEF IInv, Concluded, TypeOK, Containers
<1> QED BY <1>6, <1>7, <1>8, <1>9, <1>10, <1>11 DEF IInv

\* cat, the harness and the wrapper end as EndsSound asks: the harness does not
\* choose a status that means a death by signal, because the entrypoint of
\* every started container is the wrapper.
LEMMA TargetSound == ASSUME IInv, ReadEnds \/ TargetEnds PROVE IInv'
<1>1. CASE ReadEnds
  <2>1. ASSUME NEW died \in {"exit", "killed"}, NEW exit \in {"ok", "infra", "dead"},
               exit = "ok" => died = "exit", Ends("read", died, exit, {})
        PROVE  IInv'
    BY <2>1, EndsSound DEF Containers
  <2> QED BY <1>1, <2>1 DEF ReadEnds
<1>2. CASE TargetEnds
  <2>1. "repro" \in Containers /\ (box["repro"].state \in {"up", "stray"} => request.entry)
    BY DEF IInv, Lived, Containers, Bindable
  <2>2. CASE Ends("repro", "unstarted", RunnerExit("unstarted", "ok"), {})
    BY <2>1, <2>2, EndsSound DEF RunnerExit
  <2>3. ASSUME NEW died \in {"signal", "capped", "exit", "killed"}, NEW code \in {"ok", "crash", "infra", "runtime"},
               NEW said \in SUBSET Lines,
               Ends("repro", died, IF request.entry THEN RunnerExit(died, code) ELSE code, said)
        PROVE  IInv'
    <3>1. request.entry
      BY <2>1, <2>3 DEF Ends
    <3>2. /\ RunnerExit(died, code) \in {"ok", "crash", "dead"}
          /\ RunnerExit(died, code) = "ok" => died = "exit"
          /\ RunnerExit(died, code) = "crash" => died \in {"signal", "capped"}
      BY DEF RunnerExit
    <3>3. Ends("repro", died, RunnerExit(died, code), said)
      BY <2>3, <3>1
    <3> QED BY <2>1, <3>2, <3>3, EndsSound
  <2> QED BY <1>2, <2>2, <2>3 DEF TargetEnds
<1> QED BY <1>1, <1>2
-----------------------------------------------------------------------------
\* The invariant is inductive.
LEMMA NextKeepsIInv == IInv /\ [Next]_vars => IInv'
<1> SUFFICES ASSUME IInv, [Next]_vars PROVE IInv'
  OBVIOUS
<1>1. CASE Code \/ Interrupt \/ Retag \/ Tick
  BY <1>1, QuietStepSound, LaunchSound, ForceRemoveSound, ReapSound, TeardownSound DEF Code
<1>2. CASE ReadEnds \/ TargetEnds
  BY <1>2, TargetSound
<1>3. ASSUME NEW c \in Containers, DaemonStarts(c) \/ DaemonCannot(c) \/ ClientDies(c)
      PROVE  IInv'
  BY <1>3, DaemonSound
<1>4. CASE UNCHANGED vars
  BY <1>4 DEF vars, IInv, TypeOK, Attested, Marked, Lived, Captured, Concluded, Authorized, Bindable
<1> QED BY <1>1, <1>2, <1>3, <1>4 DEF Next

LEMMA IInvHolds == Spec => []IInv
  BY InitSound, NextKeepsIInv, PTL DEF Spec

\* The state of a run stays typed, and a run is only classified once its client
\* has a status.
THEOREM SandboxTyping == Spec => []TypeOK
<1>1. IInv => TypeOK
  BY DEF IInv
<1> QED BY <1>1, IInvHolds, PTL

\* For every set of images and inputs: what comes up is attested, bound and
\* signed off, wherever the tag points by then.
THEOREM OnlySignedOffRuns == Spec => []RunsWhatWasSignedOff
<1>1. IInv => RunsWhatWasSignedOff
  <2> SUFFICES ASSUME IInv, NEW c \in Containers, box[c].image # NoImage
               PROVE  /\ request.enabled /\ ValidFor(request.signoff, authorizedAt)
                      /\ box[c].image = request.digest
                      /\ c = "repro" => request.seed /\ Baked[box[c].image] = request.repro
    BY DEF RunsWhatWasSignedOff
  <2>1. Lived(c) /\ box[c].image = pinned /\ pinned # NoImage
    BY DEF IInv, Lived
  <2>2. Authorized /\ pinned = request.digest
    BY <2>1 DEF IInv, Attested
  <2>3. c = "repro" => stage = "repro" /\ Bindable
    BY <2>1 DEF IInv, Attested, Lived, TypeOK, Containers
  <2>4. c = "repro" => request.seed /\ Baked[pinned] = request.repro
    BY <2>3 DEF IInv, Captured, Bindable
  <2> QED BY <2>1, <2>2, <2>4 DEF Authorized
<1> QED BY <1>1, IInvHolds, PTL

\* "Reproduced" is a death by signal that the operating system saw, with a
\* report, and "did not reproduce" an end of the target, or a code that whoever
\* killed the wrapper, its container or the client has put in its place.
THEOREM VerdictsAreObserved == Spec => []VerdictIsObserved
<1>1. IInv => VerdictIsObserved
  BY DEF IInv, Concluded, Lived, VerdictIsObserved, Containers
<1> QED BY <1>1, IInvHolds, PTL

\* No order of timeouts, interrupts and answers of the daemon loses the name of
\* a container that exists, late ones aside.
THEOREM NothingIsForgotten == Spec => []NeverForgotten
<1>1. IInv => NeverForgotten
  BY DEF IInv, Marked, NeverForgotten
<1> QED BY <1>1, IInvHolds, PTL

\* A verdict leaves nothing behind.
THEOREM VerdictsAreClean == Spec => []Ephemeral
<1>1. IInv => Ephemeral
  <2> SUFFICES ASSUME IInv, outcome \in {"reproduced", "not_reproduced"}, pc = "done"
               PROVE  \A c \in Containers : box[c].state \in {"gone", "unborn"} /\ box[c].client = "exited"
    BY DEF Ephemeral
  <2>1. /\ stage = "repro" /\ active = "none" /\ box["repro"].state # "stray"
        /\ box["repro"].exit \in {"ok", "crash", "dead"}
    BY DEF IInv, Concluded, Results
  <2>2. box["read"].state = "gone" /\ box["read"].client = "exited"
    BY <2>1 DEF IInv, Captured
  <2>3. box["repro"].state \in {"gone", "unborn"} /\ box["repro"].client = "exited"
    BY <2>1 DEF IInv, Lived, Marked, Containers, TypeOK, Box
  <2> QED BY <2>2, <2>3 DEF Containers
<1> QED BY <1>1, IInvHolds, PTL
-----------------------------------------------------------------------------
\* Only the marked container is up.
UpMarked == Up \subseteq {active} /\ (Verdict \in Results => Up = {})

LEMMA UpIsMarked == IInv => UpMarked
  BY DEF UpMarked, IInv, Marked, Concluded, Up, Verdict, Results, Errors, Containers, TypeOK

\* A step that changes neither the place in run() nor a state stutters.
LEMMA StatesKept ==
  ASSUME UNCHANGED Verdict, \A c \in Containers : box'[c].state = box[c].state
  PROVE  UNCHANGED <<Verdict, Up>>
  BY DEF Up

\* Every step of the run is a step, or a stutter, of the isolated run.
LEMMA StepIsolated ==
  ASSUME IInv, [Next]_vars, IInv'
  PROVE  [Isolated!Next]_<<Verdict, Up>>
<1> USE DEF Isolated!Next, Isolated!Start, Isolated!Stop, Isolated!Conclude, Isolated!Fail
<1>a. box \in [Containers -> Box] /\ stage \in Containers /\ active \in Containers \cup {"none"}
  BY DEF IInv, TypeOK
<1>b. outcome = "none" <=> pc \notin {"leaving", "done"}
  BY DEF IInv, Concluded
<1>1. CASE GateRefuses \/ Authorize \/ Probe \/ Attest \/ Bind \/ EndOfOutput
           \/ Overflow \/ Deadline \/ WaitClient \/ VerifyBakedInput \/ Classify
           \/ Retag \/ Tick
  <2>1. UNCHANGED box
    BY <1>1 DEF GateRefuses, Authorize, Probe, Attest, Bind, EndOfOutput, Overflow, Deadline,
                Cut, WaitClient, VerifyBakedInput, Classify, Retag, Tick
  <2>2. UNCHANGED Verdict
    BY <1>1 DEF GateRefuses, Authorize, Probe, Attest, Bind, EndOfOutput, Overflow, Deadline,
                Cut, WaitClient, VerifyBakedInput, Classify, Retag, Tick, Verdict, Goto, Leave
  <2> QED BY <2>1, <2>2, StatesKept
<1>2. CASE Launch \/ Reap
  <2>1. \A c \in Containers : box'[c].state = box[c].state
    BY <1>2, <1>a DEF Launch, Reap, Box
  <2>2. UNCHANGED Verdict
    BY <1>2 DEF Launch, Reap, Verdict, Goto, Leave
  <2> QED BY <2>1, <2>2, StatesKept
<1>3. CASE Interrupt
  <2>1. UNCHANGED box
    BY <1>3 DEF Interrupt, Cut
  <2>2. UNCHANGED Up
    BY <2>1 DEF Up
  <2>3. UNCHANGED Verdict \/ (Verdict = "pending" /\ Verdict' = "failed")
    BY <1>3 DEF Interrupt, Cut, Goto, Leave, Verdict, Results
  <2> QED BY <2>2, <2>3
<1>4. CASE ForceRemove
  <2>1. UNCHANGED Verdict
    BY <1>4 DEF ForceRemove, Verdict, Goto
  <2>2. active = stage /\ box' \in {box, Removed(stage)}
    BY <1>4 DEF ForceRemove, Confirms, Unconfirmed, IInv, Marked, Handling
  <2>3. Up' \in {Up, {}}
    <3>1. CASE box' = box
      BY <3>1 DEF Up
    <3>2. CASE box' = Removed(stage)
      BY <1>a, <2>2, <3>2, UpIsMarked, RemovedBox DEF Up, UpMarked
    <3> QED BY <2>2, <3>1, <3>2
  <2> QED BY <2>1, <2>3
<1>5. CASE Teardown
  <2>1. pc = "leaving" /\ pc' = "done"
    BY <1>5 DEF Teardown
  <2>2. Verdict = "pending" /\ Verdict' \in Results \cup {"failed"}
    BY <2>1 DEF Verdict
  <2>3. Up' \in {Up, {}}
    <3>1. CASE box' = box
      BY <3>1 DEF Up
    <3>2. CASE active # "none" /\ box' = Removed(active)
      BY <1>a, <3>2, UpIsMarked, RemovedBox DEF Up, UpMarked
    <3> QED BY <1>5, <3>1, <3>2 DEF Teardown, Confirms, Unconfirmed
  <2>4. Verdict' \in Results => Up' = {}
    <3>1. UpMarked'
      BY UpIsMarked, PTL
    <3> QED BY <3>1 DEF UpMarked, Results
  <2> QED BY <2>2, <2>3, <2>4 DEF Results
<1>6. ASSUME NEW c \in Containers, DaemonStarts(c) PROVE [Isolated!Next]_<<Verdict, Up>>
  <2>1. UNCHANGED Verdict
    BY <1>6 DEF DaemonStarts, Verdict
  <2>2. box[c].client = "starting" /\ box[c].state = "unborn"
    BY <1>6 DEF DaemonStarts, IInv, Lived
  <2>3. CASE c \in cleared
    <3>1. UNCHANGED Up
      BY <1>a, <1>6, <2>2, <2>3 DEF DaemonStarts, Up, Box
    <3> QED BY <2>1, <3>1
  <2>4. CASE c \notin cleared
    <3>1. active = c /\ c \notin Up
      BY <2>2, <2>4 DEF IInv, Marked, Up
    <3>2. Up = {}
      BY <3>1, UpIsMarked DEF UpMarked
    <3>3. Up' = {c}
      BY <1>a, <1>6, <2>4, <3>2 DEF DaemonStarts, Up, Box
    <3>4. Verdict \in {"pending", "failed"}
      BY <3>1 DEF Verdict, IInv, Concluded, Containers
    <3> QED BY <2>1, <3>2, <3>3, <3>4
  <2> QED BY <2>3, <2>4
<1>7. ASSUME NEW c \in Containers, DaemonCannot(c) \/ ClientDies(c)
      PROVE  [Isolated!Next]_<<Verdict, Up>>
  <2>1. \A d \in Containers : box'[d].state = box[d].state
    BY <1>a, <1>7 DEF DaemonCannot, ClientDies, Box
  <2>2. UNCHANGED Verdict
    BY <1>7 DEF DaemonCannot, ClientDies, Verdict
  <2> QED BY <2>1, <2>2, StatesKept
<1>8. CASE ReadEnds \/ TargetEnds
  <2>1. PICK c \in Containers, died \in {"signal", "capped", "exit", "killed", "unstarted"},
             exit \in {"ok", "crash", "infra", "runtime", "dead"}, said \in SUBSET Lines :
               Ends(c, died, exit, said)
    BY <1>8 DEF ReadEnds, TargetEnds, RunnerExit, Containers
  <2>2. UNCHANGED Verdict
    BY <2>1 DEF Ends, Verdict
  <2>3. /\ \A d \in Containers : d # c => box'[d] = box[d]
        /\ box[c].state = "up" => box'[c].state \in {"left", "gone"}
        /\ box[c].state # "up" => box[c].state = "stray" /\ box'[c].state = "gone"
    BY <1>a, <2>1 DEF Ends, Box
  <2>4. Up' \in {Up, {}}
    BY <2>3, UpIsMarked DEF Up, UpMarked
  <2> QED BY <2>2, <2>4
<1>9. CASE UNCHANGED vars
  BY <1>9 DEF vars, Verdict, Up
<1> QED BY <1>1, <1>2, <1>3, <1>4, <1>5, <1>6, <1>7, <1>8, <1>9 DEF Next, Code

\* DockerSandbox implements the isolated run.
THEOREM SandboxIsolates == Spec => KeepsIsolation
<1>1. Init => Isolated!Init
  BY DEF Init, Isolated!Init, Verdict, Up, Containers, NewBox
<1>2. IInv /\ [Next]_vars /\ IInv' => [Isolated!Next]_<<Verdict, Up>>
  BY StepIsolated
<1> QED BY <1>1, <1>2, IInvHolds, PTL DEF Spec, KeepsIsolation, Isolated!Spec
=============================================================================
