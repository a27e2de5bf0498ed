------------------------------ MODULE SandboxRun ------------------------------
(***************************************************************************)
(* One `with sandbox: sandbox.run(spec)` of VERIFY on DockerSandbox        *)
(* (src/deepthought/sandbox/docker.py, base.py, asan.py and the in-image   *)
(* wrapper benchmarks/tier2/runner.c), beside everything it races with:    *)
(* the docker client and daemon, the target, the memory cap and whoever    *)
(* else kills a process, the wall deadline, an interrupt at any point, an  *)
(* operator moving the image tag, the clock.                               *)
(*                                                                         *)
(* The run starts two containers by name: one reads the baked input back,  *)
(* one runs the repro.  A container is                                     *)
(*     unborn  not created by the daemon (yet)                             *)
(*     up      created, perhaps running                                    *)
(*     left    exited, but --rm did not remove it                          *)
(*     gone    removed                                                     *)
(*     stray   created after its removal had been confirmed                *)
(***************************************************************************)
EXTENDS Naturals, FiniteSets

CONSTANTS Images,       \* content ids of local images
          NoImage,      \* no content id: nothing attested, nothing started
          Texts,        \* inputs that are valid UTF-8
          Binaries,     \* inputs that are not
          Lossy,        \* what decoding any of those with replacement gives
          NoInput,      \* no file at the input path; no stored repro
          Baked,        \* the bytes each image holds at the input path
          Requests,     \* the runs explored
          MaxNow        \* BOUND: the last instant of the clock

Inputs == Texts \cup Binaries \cup {NoInput}

Signoffs == [own : BOOLEAN, granted : Nat, expires : Nat]

\* entry: the command starts with the trusted runner; seed: its last token is
\* exactly the input path, a baked file that is not the harness; renders:
\* build_argv accepts the user, the environment and the image reference.
Request == [enabled : BOOLEAN, signoff : Signoffs, runtime : {"docker", "other", "absent"},
            digest : Images \cup {NoImage}, repro : Texts \cup {Lossy, NoInput},
            entry : BOOLEAN, seed : BOOLEAN, renders : BOOLEAN]

ASSUME SandboxAssumption ==
    /\ NoImage \notin Images
    /\ Lossy \notin Texts /\ NoInput \notin Texts \cup Binaries \cup {Lossy}
    /\ Texts \cap Binaries = {}
    /\ Baked \in [Images -> Inputs]
    /\ Requests \subseteq Request
    /\ MaxNow \in Nat

VARIABLES request,      \* the sandbox's configuration and the spec it is given
          now,          \* the calendar clock
          tag,          \* the content the image tag points to
          pc,           \* where run() and the `with` around it are
          stage,        \* the container being handled: "read", then "repro"
          active,       \* _active_container
          pinned,       \* the content id the rest of run() uses
          cut,          \* what ended the capture, if not the target
          gone,         \* container_gone
          box,          \* the containers, with their clients
          outcome,      \* the result or the exception of run(), then of `with`
          authorizedAt, \* history: the instant the sign-off was checked at
          cleared       \* history: containers whose removal was confirmed

vars == <<request, now, tag, pc, stage, active, pinned, cut, gone, box, outcome,
          authorizedAt, cleared>>
local == <<stage, active, pinned, cut, gone>>

Containers == {"read", "repro"}
Results == {"reproduced", "not_reproduced", "timed_out"}
Errors == {"disabled", "unsigned", "isolation", "failed", "interrupted"}
Lines == {"header", "access", "frame"}

\* client: the `docker run` process; state, image: the container; died, exit,
\* said: how the target ended ("capped": killed by the memory cap; "killed":
\* the wrapper was), the status the client reports ("dead": a killed process's
\* own code; "killed": run() killed the client), what it printed.
NewBox == [client |-> "none", state |-> "unborn", image |-> NoImage,
           died |-> "no", exit |-> "none", said |-> {}]

Init ==
    /\ request \in Requests /\ now = 0 /\ tag \in Images
    /\ pc = "entered" /\ stage = "read" /\ active = "none" /\ pinned = NoImage
    /\ cut = "none" /\ gone = FALSE /\ outcome = "none"
    /\ box = [c \in Containers |-> NewBox]
    /\ authorizedAt = MaxNow + 1 /\ cleared = {}

Goto(label) == pc' = label /\ UNCHANGED outcome

\* Whatever run() returns or raises, __exit__ comes next.
Leave(what) == pc' = "leaving" /\ outcome' = what

World == <<request, now, tag, authorizedAt>>
-----------------------------------------------------------------------------
\* Signoff.valid_for
ValidFor(signoff, instant) ==
    signoff.own /\ signoff.granted <= instant /\ instant < signoff.expires

\* The double gate, and a runtime that is pinned to the local daemon.
GateRefuses ==
    /\ pc = "entered"
    /\ \/ ~request.enabled /\ Leave("disabled")
       \/ request.enabled /\ ~ValidFor(request.signoff, now) /\ Leave("unsigned")
       \/ /\ request.enabled /\ ValidFor(request.signoff, now)
          /\ request.runtime # "docker" /\ Leave("isolation")
    /\ UNCHANGED <<World, local, box, cleared>>

Authorize ==
    /\ pc = "entered"
    /\ request.enabled /\ ValidFor(request.signoff, now) /\ request.runtime = "docker"
    /\ authorizedAt' = now
    /\ Goto("probing")
    /\ UNCHANGED <<request, now, tag, local, box, cleared>>

\* _preflight_runtime
Probe ==
    /\ pc = "probing"
    /\ Goto("inspecting") \/ Leave("isolation")
    /\ UNCHANGED <<World, local, box, cleared>>

\* The tag is resolved once; from here on its content id is what runs.
Attest ==
    /\ pc = "inspecting"
    /\ \/ tag = request.digest /\ pinned' = tag /\ Goto("binding")
       \/ Leave("failed") /\ UNCHANGED pinned    \* inspection failed, or another image
    /\ UNCHANGED <<World, stage, active, cut, gone, box, cleared>>

\* The stored repro resolves, the command is exactly [runner, harness, input]
\* on a baked seed, and the argv renders.
Bindable == /\ request.repro # NoInput
            /\ request.entry /\ request.seed /\ request.renders

Bind ==
    /\ pc = "binding"
    /\ \/ Bindable /\ Goto("launching")
       \/ ~Bindable /\ Leave("failed")
    /\ UNCHANGED <<World, local, box, cleared>>

\* The container is marked in flight before its client is started; the client
\* may not start.
Launch ==
    /\ pc = "launching"
    /\ active' = stage /\ cut' = "none"
    /\ \/ box' = [box EXCEPT ![stage].client = "starting"] /\ Goto("capturing")
       \/ Leave("failed") /\ UNCHANGED box
    /\ UNCHANGED <<World, stage, pinned, gone, cleared>>
-----------------------------------------------------------------------------
\* Mutant: the container runs whatever the tag points to by then.
DaemonStartsTag(c) ==
    /\ box[c].client = "starting"
    /\ box' = [box EXCEPT ![c].client = "attached", ![c].image = tag,
                          ![c].state = IF c \in cleared THEN "stray" ELSE "up"]
    /\ UNCHANGED <<World, pc, local, outcome, cleared>>

\* The daemon answers the client in its own time.
DaemonStarts(c) ==
    /\ box[c].client = "starting"
    /\ box' = [box EXCEPT ![c].client = "attached", ![c].image = pinned,
                          ![c].state = IF c \in cleared THEN "stray" ELSE "up"]
    /\ UNCHANGED <<World, pc, local, outcome, cleared>>

\* 125 - 127: the runtime could not run the container, or the client lost the
\* daemon while attached.
DaemonCannot(c) ==
    /\ box[c].client \in {"starting", "attached"}
    /\ box' = [box EXCEPT ![c].client = "exited", ![c].exit = "runtime"]
    /\ UNCHANGED <<World, pc, local, outcome, cleared>>

\* The client itself is killed (a negative code); the container lives on.
ClientDies(c) ==
    /\ box[c].client \in {"starting", "attached"}
    /\ box' = [box EXCEPT ![c].client = "exited", ![c].exit = "dead"]
    /\ UNCHANGED <<World, pc, local, outcome, cleared>>

\* Mutant: reserved codes are passed on too.
RunnerExitRaw(died, code) ==
    CASE died \in {"signal", "capped"} -> "crash"
      [] died = "unstarted" -> "infra"
      [] died = "killed"    -> "dead"
      [] died = "exit"      -> code

\* runner.c: 99 exactly for a death by signal, the SIGKILL of the memory cap
\* included; a code the target chose itself is passed on, unless it is
\* reserved, when it becomes 98.  A wrapper that is killed itself says 137.
RunnerExit(died, code) ==
    CASE died \in {"signal", "capped"} -> "crash"
      [] died = "unstarted" -> "infra"
      [] died = "killed"    -> "dead"
      [] died = "exit"      -> IF code \in {"crash", "infra", "runtime"} THEN "ok" ELSE code

\* A container that ends is removed by --rm, which may fail silently.
Ends(c, died, exit, said) ==
    /\ box[c].state \in {"up", "stray"}
    /\ \E state \in {"gone", IF box[c].state = "up" THEN "left" ELSE "gone"} :
         box' = [box EXCEPT ![c].client = IF @ = "attached" THEN "exited" ELSE @,
                            ![c].exit = IF @ = "none" THEN exit ELSE @,
                            ![c].state = state, ![c].died = died, ![c].said = said]
    /\ UNCHANGED <<World, pc, local, outcome, cleared>>

\* cat prints the baked input, if there is one; or the container is killed.
ReadEnds ==
    \/ Ends("read", "exit", IF Baked[box["read"].image] = NoInput THEN "infra" ELSE "ok", {})
    \/ Ends("read", "killed", "dead", {})

\* The harness dies by a signal of its own or of the memory cap, or exits with
\* a code of its choice, and may print anything; or the wrapper cannot start
\* it; or the wrapper, the container's first process, is killed over it.
TargetEnds ==
    \/ Ends("repro", "unstarted", RunnerExit("unstarted", "ok"), {})
    \/ \E died \in {"signal", "capped", "exit", "killed"},
          code \in {"ok", "crash", "infra", "runtime"}, said \in SUBSET Lines :
         Ends("repro", died, IF request.entry THEN RunnerExit(died, code) ELSE code, said)

Retag == tag' \in Images /\ UNCHANGED <<request, now, pc, local, box, outcome, authorizedAt, cleared>>

Tick == /\ now < MaxNow /\ now' = now + 1
        /\ UNCHANGED <<request, tag, pc, local, box, outcome, authorizedAt, cleared>>
-----------------------------------------------------------------------------
\* The select loop of _stream_capture: both streams end (the target may close
\* them and live on), the cap is reached, or the monotonic deadline passes.
EndOfOutput ==
    /\ pc = "capturing"
    /\ box[stage].client = "exited" \/ box[stage].state # "unborn"
    /\ Goto("waiting")
    /\ UNCHANGED <<World, local, box, cleared>>

Cut(why) == /\ pc = "capturing"
            /\ cut' = why
            /\ Goto("removing")
            /\ UNCHANGED <<World, stage, active, pinned, gone, box, cleared>>

Overflow == box[stage].state # "unborn" /\ Cut("overflowed")

\* Mutant: the deadline is only looked at when output arrives.
DeadlineOnOutput == box[stage].state # "unborn" /\ Cut("timed_out")

Deadline == Cut("timed_out")

\* _wait_client: end of output is not the end of the container.
WaitClient ==
    /\ pc = "waiting"
    /\ cut' = IF box[stage].client = "exited" THEN "none" ELSE "timed_out"
    /\ Goto("removing")
    /\ UNCHANGED <<World, stage, active, pinned, gone, box, cleared>>

\* What `rm -f` does to a container, and the death of the client attached to it.
AfterRemoval(b) ==
    [client |-> IF b.client = "attached" THEN "exited" ELSE b.client,
     state  |-> IF b.state = "unborn" THEN "unborn" ELSE "gone",
     exit   |-> IF b.client = "attached" THEN "killed" ELSE b.exit,
     image  |-> b.image, died |-> b.died, said |-> b.said]

Removed(c) == [box EXCEPT ![c] = AfterRemoval(@)]

\* _force_remove: removed or "no such container", on the daemon's word; or no
\* word from it, whether it did remove the container or not.
Confirms(c) == box' = Removed(c) /\ cleared' = cleared \cup {c}

Unconfirmed(c) == box' \in {box, Removed(c)} /\ UNCHANGED cleared

\* Mutant: after a clean exit --rm is trusted to have removed the container.
ForceRemoveIfCut ==
    /\ pc = "removing"
    /\ \/ Confirms(stage) /\ gone' = TRUE
       \/ Unconfirmed(stage) /\ gone' = FALSE
       \/ cut = "none" /\ gone' = TRUE /\ UNCHANGED <<box, cleared>>
    /\ Goto("reaping")
    /\ UNCHANGED <<World, stage, active, pinned, cut>>

\* On every path, a clean exit included.
ForceRemove ==
    /\ pc = "removing"
    /\ \/ Confirms(stage) /\ gone' = TRUE
       \/ Unconfirmed(stage) /\ gone' = FALSE
    /\ Goto("reaping")
    /\ UNCHANGED <<World, stage, active, pinned, cut>>

\* Mutant: the client is waited for and never killed.
ReapPatiently ==
    /\ pc = "reaping"
    /\ IF cut = "interrupted" THEN Leave("interrupted") ELSE Goto("settling")
    /\ UNCHANGED <<World, local, box, cleared>>

\* _reap: the client has exited or is killed.  An interrupted capture raises
\* here, with the container still marked in flight.
Reap ==
    /\ pc = "reaping"
    /\ box' = [box EXCEPT ![stage].client = IF @ = "exited" THEN @ ELSE "killed",
                          ![stage].exit = IF @ = "none" THEN "killed" ELSE @]
    /\ IF cut = "interrupted" THEN Leave("interrupted") ELSE Goto("settling")
    /\ UNCHANGED <<World, local, cleared>>

\* The container stays marked unless its removal was confirmed.
Unmark == active' = IF gone THEN "none" ELSE active

Decoded(bytes) == IF bytes \in Texts THEN bytes ELSE Lossy

\* Mutant: the read is trusted even if its container may still be there.
SeedMatchesUngone ==
    /\ cut = "none" /\ box["read"].exit = "ok"
    /\ LET shown == Decoded(Baked[box["read"].image])
       IN shown # Lossy /\ request.repro # Lossy /\ shown = request.repro

\* The read container printed the stored repro, which is text, and is gone.
SeedMatches ==
    /\ cut = "none" /\ box["read"].exit = "ok"
    /\ LET shown == Decoded(Baked[box["read"].image])
       IN shown # Lossy /\ request.repro # Lossy /\ shown = request.repro
    /\ gone

\* _verify_baked_input
VerifyBakedInput ==
    /\ pc = "settling" /\ stage = "read"
    /\ Unmark
    /\ \/ SeedMatches /\ stage' = "repro" /\ Goto("launching")
       \/ ~SeedMatches /\ Leave("failed") /\ UNCHANGED stage
    /\ UNCHANGED <<World, pinned, cut, gone, box, cleared>>

\* parse_asan: a header alone is no crash.
ParseAsan(said) == "header" \in said /\ said \cap {"access", "frame"} # {}

\* The tail of run(): what the captured run amounts to.
Classified ==
    LET exit == box["repro"].exit
    IN CASE cut = "timed_out"  -> "timed_out"
         [] cut = "overflowed" -> "failed"
         [] OTHER -> CASE exit = "infra"   -> "failed"
                       [] exit = "runtime" -> "isolation"
                       [] OTHER -> IF exit = "crash" /\ ParseAsan(box["repro"].said)
                                   THEN "reproduced" ELSE "not_reproduced"

\* A result is paged first, and writing a page may fail.
Classify ==
    /\ pc = "settling" /\ stage = "repro"
    /\ Unmark
    /\ Leave(Classified) \/ Leave("failed")
    /\ UNCHANGED <<World, stage, pinned, cut, gone, box, cleared>>

\* Mutant: teardown tries, and passes over a removal it cannot confirm.
TeardownQuietly ==
    /\ pc = "leaving" /\ pc' = "done"
    /\ \/ active = "none" /\ UNCHANGED <<box, cleared>>
       \/ active # "none" /\ (Confirms(active) \/ Unconfirmed(active))
    /\ active' = "none"
    /\ UNCHANGED <<World, stage, pinned, cut, gone, outcome>>

\* __exit__: teardown always runs; a container it cannot confirm removed turns
\* the result into an error.
Teardown ==
    /\ pc = "leaving" /\ pc' = "done"
    /\ \/ active = "none" /\ UNCHANGED <<active, box, outcome, cleared>>
       \/ active # "none" /\ Confirms(active) /\ active' = "none" /\ UNCHANGED outcome
       \/ active # "none" /\ Unconfirmed(active) /\ outcome' = "failed" /\ UNCHANGED active
    /\ UNCHANGED <<World, stage, pinned, cut, gone>>

\* Ctrl-C.  While output is captured it is caught: the container is removed
\* and the client reaped first.  Elsewhere in run() it goes to teardown, and
\* in teardown out of the `with`.
Interrupt ==
    \/ Cut("interrupted")
    \/ /\ pc \notin {"capturing", "leaving", "done"} /\ Leave("interrupted")
       /\ UNCHANGED <<World, local, box, cleared>>
    \/ /\ pc = "leaving" /\ pc' = "done" /\ outcome' = "interrupted"
       /\ UNCHANGED <<World, local, box, cleared>>

Code == \/ GateRefuses \/ Authorize \/ Probe \/ Attest \/ Bind \/ Launch
        \/ EndOfOutput \/ Overflow \/ Deadline \/ WaitClient \/ ForceRemove \/ Reap
        \/ VerifyBakedInput \/ Classify \/ Teardown

Next ==
    \/ Code \/ Interrupt \/ Retag \/ Tick
    \/ ReadEnds \/ TargetEnds
    \/ \E c \in Containers : DaemonStarts(c) \/ DaemonCannot(c) \/ ClientDies(c)

\* run() goes on while it can.  Nothing is assumed of the daemon, the target
\* or the person at the keyboard.
Spec == Init /\ [][Next]_vars /\ WF_vars(Code)
-----------------------------------------------------------------------------
Box == [client : {"none", "starting", "attached", "exited", "killed"},
        state : {"unborn", "up", "left", "gone", "stray"},
        image : Images \cup {NoImage},
        died : {"no", "signal", "capped", "exit", "killed", "unstarted"},
        exit : {"none", "ok", "crash", "infra", "runtime", "dead", "killed"},
        said : SUBSET Lines]

TypeOK ==
    /\ request \in Requests /\ now \in 0 .. MaxNow /\ tag \in Images
    /\ pc \in {"entered", "probing", "inspecting", "binding", "launching", "capturing",
               "waiting", "removing", "reaping", "settling", "leaving", "done"}
    /\ stage \in Containers /\ active \in Containers \cup {"none"}
    /\ pinned \in Images \cup {NoImage}
    /\ cut \in {"none", "timed_out", "overflowed", "interrupted"}
    /\ gone \in BOOLEAN
    /\ box \in [Containers -> Box]
    /\ outcome \in Results \cup Errors \cup {"none"}
    /\ authorizedAt \in 0 .. MaxNow + 1
    /\ cleared \subseteq Containers
    /\ pc = "settling" => box[stage].exit # "none" /\ cut # "interrupted"

\* Article III and the binding of provenance: whatever the tag is moved to and
\* however long the preflight takes, a container that came up - late ones too -
\* runs the attested image under a sign-off that was in its window when it was
\* checked, and the repro's one runs on the very bytes of the stored repro.
RunsWhatWasSignedOff ==
    \A c \in Containers :
        box[c].image # NoImage =>
            /\ request.enabled /\ ValidFor(request.signoff, authorizedAt)
            /\ box[c].image = request.digest
            /\ c = "repro" => request.seed /\ Baked[box[c].image] = request.repro

\* The outcomes a run can have without the operating system having seen the
\* target's end: the wrapper could not start it, the daemon could not run it or
\* was lost, the capture was cut, the clean-up failed.  None of them reads as
\* "reproduced", which takes a death by signal with a credible report, and none
\* as "did not reproduce" - unless the wrapper, its container or the client was
\* killed from outside: run() takes their codes for the target's own.
VerdictIsObserved ==
    /\ outcome = "reproduced" =>
           box["repro"].died \in {"signal", "capped"} /\ ParseAsan(box["repro"].said)
    /\ outcome = "not_reproduced" =>
           box["repro"].died \in {"signal", "capped", "exit"} \/ box["repro"].exit = "dead"

\* A container that exists is the one teardown will remove, however the run is
\* cut, interrupted or failed and whatever the daemon answers - unless the
\* daemon created it after it had answered that there is no such container.
NeverForgotten ==
    \A c \in Containers : box[c].state \in {"up", "left"} => active = c

\* A verdict that rests on an exit status leaves nothing behind, --rm or not and
\* whoever was killed, not even a late container: those only follow a run that
\* was cut.
Ephemeral ==
    outcome \in {"reproduced", "not_reproduced"} /\ pc = "done" =>
        \A c \in Containers : box[c].state \in {"gone", "unborn"} /\ box[c].client = "exited"

\* What the caller learns, and the containers that exist, late ones aside.
Verdict == IF pc # "done" THEN "pending" ELSE IF outcome \in Results THEN outcome ELSE "failed"

Up == {c \in Containers : box[c].state \in {"up", "left"}}

\* The run keeps the promise of IsolatedRun: one container at a time, none up
\* at a verdict, none started after one.
Isolated == INSTANCE IsolatedRun WITH verdict <- Verdict, up <- Up

KeepsIsolation == Isolated!Spec

\* The `with` ends, though the target may hang, flood, or close its output and
\* live on, and the daemon may never answer.
EveryRunEnds == <>(pc = "done")
=============================================================================
