# TLA+ models of Deep Thought

Deep Thought runs vulnerability research as a series of short *sessions* over a
store of Markdown files. Every session asks a gate before it works, leaves a
record that the next session can resume from, and moves findings through a
lifecycle whose status changes must rest on real evidence. This directory
models that core, checks it with TLC and proves its main safety properties
with TLAPS.

Paths below are relative to `src/src/deepthought/` unless they start otherwise.

## 1. The system

| Component | State it keeps | Operations | Hard behaviour | What makes it correct |
|---|---|---|---|---|
| Gate (`protocol/gate.py`, `schema/project.py`) | none; reads a project's authorization and scope | `evaluate` | three refusals and a hold, whose order matters | nothing unauthorized or unscoped proceeds |
| Session protocol (`protocol/session.py`) | `sessions/S-<day>-<n>.md` | `run_session`, `find_resumable` | numbering by counting, two saves with a crash between them, exceptions, project edits under way | the record tells what happened; unfinished sessions are exactly the resumable ones; ids grow; closed records stay |
| Finding lifecycle (`store/base.py`, `store/filestore.py`, `schema/finding.py`) | `findings/<id>.md`: status, `evidence_ref`, references, transition log; `detail/<session>/` | `transition_finding`, `save_finding`, `write_detail`, `detail_exists` | read and save are separate, no lock | status only as the guard allows, explained by the log, on resolving evidence |
| VERIFY (`sessions/verify.py`) | a finding copy held across the sandbox run | `run`, `_promote`, `_leave_candidate`, the revert | stale copies, five writes with crashes between them, rejected transitions | verified only on a reproduction of this finding |
| Autonomous loop (`loop/`, `schema/loop.py`) | `loop/L-<day>-<n>.md`, the in-run `done` set, the budget | `select_next_action`, `run_loop` | state-based selection over records other sessions write; budgets; escalations | converges, never exceeds its budget by a session, never executes or transmits, loses no escalation |
| NEW PROJECT (`sessions/new_project.py`) | `projects/<id>.md` | resolve, register | identity scan, then write; people edit the files | one project per identity, no record overwritten |
| STATUS, MAP (`sessions/status.py`, `map.py`) | `coverage/` | report, record areas | scope edited between runs | each area in scope is mapped, none outside |
| DISCOVER (`sessions/discover.py`) | findings, read coverage | number, build and save candidates, ingest, record areas | numbers from max+1, taken before the saves; torn files | no earlier finding overwritten; what is saved is reported |
| SIBLING HUNT (`sessions/sibling_hunt.py`, `sibling/`) | candidates and coverage in the source and its siblings, one outcome per target | derive a class, gate and hunt each target, filter the worker's answer | per-target gates and failures, a worker of another make, a DISCOVER meanwhile | candidates only, in a scope gated for their own project; every target answered for |
| DISCLOSURE (`sessions/disclosure.py`) | drafts under `detail/` | render four drafts | drafts outlive the evidence they describe | drafts only for verified findings, nothing sent |
| Conductor, Ledger (`orchestrator/`, `schema/envelope.py`) | bounded ledger of primitives | dispatch, fold in envelopes | eviction at the limit | raw detail never enters the conductor's context |
| Sandbox (`sandbox/`) | running containers, queued removals | `run`, `teardown` | timeout, overflow, client exit and interrupts race; removal may fail; processes are killed from outside | sign-off and provenance before execution; no container outlives its run |
| Memory vault (`src/memory/mem.py`) | notes, index, snapshots | add, index, backup, restore | crashes between renames; rotation | the last good copy stays restorable, and what a command found is not lost |
| SARIF ingest (`ingest/sarif.py`, `scope.py`) | none | results to candidates and suspected primitives | containment, numbering across skipped results | what is filed lies in the allowlist and keeps its binding |
| Check, publish (`check.py`, `cli.py`) | `out/` | audit the store, write artifacts | kinds and details read one after another, the store listed again, files written while it changes | what is published was checked and rests on evidence |
| Exports, profiles, benchmark harness and detectors | none | pure functions on text | parsing | see section 7 |

The components meet in the store. Sessions do not call each other: each reads
what earlier ones wrote, the loop decides from the same records, and a person
edits projects and findings with an editor while commands run. The store has
no lock, `save_*` overwrites whole files, and a process may die anywhere.

## 2. Modules

| Module | Models | Uses |
|---|---|---|
| `Gate` | `DefaultGate.evaluate` as an operator over the fields it reads | |
| `SessionProtocol` | the steps of `run_session` around the scoped work, for any number of processes | `Gate` |
| `AnySession` | `run_session` around an arbitrary body, with two history variables; its properties | `SessionProtocol` |
| `FindingLifecycle` | the finding record, the guard, what each transition writes | |
| `VerifySession` | VERIFY and `transition_finding` inside the session protocol, over one store | `SessionProtocol`, `FindingLifecycle` |
| `EvidenceLifecycle` | the abstract specification: statuses move along the lifecycle's edges and leave candidate only when proven | `FindingLifecycle` |
| `AutonomousLoop` | the loop's policy and driver on one project, over the store effects of STATUS, MAP, DISCOVER, SIBLING HUNT and DISCLOSURE | `Gate` |
| `SandboxRun` | one `with sandbox: sandbox.run(spec)` of `DockerSandbox`, beside the daemon, the client, the target, the clock, a moved tag and an interrupt | |
| `IsolatedRun` | the abstract specification: containers one at a time, none up at a verdict, none started after one | |
| `SarifIngest` | what the SARIF ingest accepts, numbers and binds, as operators | `Gate` |
| `ExploitLedger` | the bounded ledger of primitives and its compositions, as operators | |
| `DiscoverSession` | DISCOVER past its gate, one file operation at a time | `SarifIngest` |
| `SiblingHunt` | the whole of SIBLING HUNT beside a DISCOVER of another process | `DiscoverSession`, `ExploitLedger` |
| `MemoryVault` | `mem.py` init, add, index, backup with rotation, restore, by any number of processes that may die | |
| `NewProject` | NEW PROJECT past the session protocol, by any number of processes, beside people and torn writes | `Gate` |
| `CheckPublish` | `run_check` and `publish`, step by step, over a store that sessions and people change | `FindingLifecycle` |
| `MCAnySession`, `MCVerifySession`, `MCAutonomousLoop`, `MCSandboxRun`, `MCSiblingHunt`, `MCMemoryVault`, `MCNewProject`, `MCCheckPublish` | constants and symmetry for TLC | |
| `VerifyProofs` | lemmas about the guard, theorems for any number of concurrent processes and for one command at a time | `VerifySession` |
| `SessionProofs` | theorems about the session protocol around any body | `AnySession` |
| `LoopProofs` | theorems about the loop's budget, withdrawal and convergence | `AutonomousLoop` |
| `PublishProofs` | theorems about what is published | `CheckPublish` |
| `VaultProofs` | theorems about snapshots, rotation, restore and the index | `MemoryVault` |
| `SandboxProofs` | theorems about the sandbox, and its refinement of `IsolatedRun` | `SandboxRun` |
| `HuntProofs` | theorems about a hunt beside a DISCOVER | `SiblingHunt` |
| `RegistrationProofs` | theorems about registrations | `NewProject` |

How state corresponds to the code:

- `projects`, `sessions`, `findings`, `details` are the four directories of the
  store, each a function from ids to records or to a value for "no such file".
  A project is the fields the gate reads; a session is its `gate_outcome` and
  `close_state`; a detail is what a paged VERIFY result says (which finding,
  and whether it reproduced); a finding's `evidence_ref` is the number of the
  session whose detail it names, 0 when absent.
- `pc[p]` and `run[p]` are where a process is inside `run_session` and its
  locals there; `work[p]` the locals of VERIFY and of `transition_finding`.
  A process between two labels is between two file operations: each read of a
  record and each write of one is a step, what happens in memory between them
  belongs to the step before it.
- Session numbers stand for `S-<day>-NNNN`. `NextSessionId` is a count, as in
  `generate_session_id`, not a maximum.
- `EditProject`, `AskTransition`/`Transition` and `AddReference` are people.
  The last is external: no code of the repository writes `cve` or
  `references`, it only reads them.

The actions follow the code one to one: `Invoke` (the listing that numbers the
session), `OpenRecord` (the first save), `RefuseInvalid`, `UnknownProject`,
`AskGate`, the body, `Close`, `Raise`; in VERIFY `FindingMissing`, `Refuse`,
`EnterSandbox`, `SandboxFails`, `DryRun`, `PageEvidence`, then either
`SetEvidence`, `ReadForTransition`, `Promote` and, on rejection, `Reload` and
`RevertEvidence`, or `LeaveCandidate`. `Crash` may come between any two.

In `AutonomousLoop` the same store is seen from further away: one command at a
time, a driven session is one step (`RunSession`) or fails half-way
(`SessionFails`), and sessions are a sequence in the order of their ids.
`context` and `checkout` are the project and its `local_path`; `coverage` is
`last_session` per area; `drafts` the sessions whose four drafts pass
`disclosure_drafts_ok`; `loops` the saved `LoopRun` records, whose trace is a set
because no action runs twice in it. `Wanted` says what the store calls for,
`Rung` in which order, `Proposals` what `select_next_action` may return: the code
takes the first finding of a rung by id, the model any. `Start` is `run_loop` up
to its up-front gate; `Select` one turn of its loop up to the session;
`RunSession` gates the project as it is stored now, works, and records the step;
`SaveRun` writes the `LoopRun`. Between any two of them `EditProject`,
`ChangeStatus` (VERIFY or a person), `LoseDrafts`, `TimePasses` and `Crash` may
come, and between runs `DiscoverWithSarif`. `settled` is a history variable: the
last run ended with nothing left, and no event has come since it began.

In `SandboxRun` the variable `pc` follows `run()` and the `__exit__` around it,
and `stage` says which of its two containers is handled: the one that reads the
baked input back (`_verify_baked_input`), then the one that runs the repro; both
go through the same `_capture`, so `Launch` to `Reap` are shared. `active` is
`_active_container`, `pinned` the content id that replaces the tag, `cut` what
ended the capture when the target did not, `gone` the answer of `_force_remove`.
`box[c]` is the outside world: the `docker run` client, the container, how the
target really ended and what the client reports of it, which `RunnerExit`
translates as the in-image wrapper does. A target ends by itself (`exit`), by a
signal of its own (`signal`) or of the memory cap (`capped`, docker.py:249),
which the wrapper cannot tell apart, or with the wrapper or the whole container
(`killed`). The actions `DaemonStarts`, `DaemonCannot` (the daemon cannot run
the container, or is lost while a client waits), `ClientDies`, `ReadEnds`,
`TargetEnds` and `Retag` are the environment's; a container may come up after
its removal was confirmed (`stray`), because "no such container" is an answer
about the moment it was given. `Interrupt` is Ctrl-C at each of the places where
the code treats it differently.

In `DiscoverSession` a finding's id is its index and a SARIF document the
sequence of its results; a record remembers which command saved it (`by`, a
history field). `ReadSarif` numbers all candidates at once, `SaveCandidate` writes
one file, and `TearCandidate` is a `write_text` that dies after it truncated the
file: such a record makes every later listing raise (`Listable`). In
`SiblingHunt`, `hunt` holds the locals of `run` and `_hunt_target`; `Dispatch` is
the harness's gate, after which a person may still edit the record that `run()`
reads again (`EditSource`, `SourceGone`). Each target goes through `Number`,
`Filter` or `Reject`, `SaveVariant`, `PageDetail`, `RecordRead`,
`LedgerPrimitive`, `Conclude`, or leaves by `TargetFails`; the siblings come by
`PassOver`, `SiblingTorn`, `GateStops` or `GatePasses`. `Answers` is what the
worker returns: the in-repo worker's answer, and for the targets of `Rogue` also
what a worker of another make may add to it, which `Kept` and `Normalised` have
to filter. `approved` and `raced` are history: what each gate saw, and which
targets' batches a DISCOVER step disturbed.

In `MemoryVault` a directory is the set of its notes, those its index lists and
its mtime; `vault`, `old`, `restoring` and `snaps` are the four paths `mem.py`
renames between. Copying goes note by note, for a snapshot (`StartCopy`,
`CopyNote`, `EndCopy`) and for the copy restore makes (`StartStage`, `StageNote`,
`EndStage`), because copytree can be overtaken by another command or a crash; a
removal may be cut short and leave any part of a directory (`DieRotating`,
`DieClearing`, `Remains`). Single files are swapped in by `os.replace` and are one
step. `CmdBackup` rotates with the `--keep` it was given, every other command with
`Keep`. `Stale` and `Outdated` read the same directory listings as
`_autobackup_if_stale` and the rotation, `.partial` ones included, in the string
order of their names (`Rank`). `Die` stands for a kill and for every exception a
path that is taken or gone raises: none of them cleans up.

In `NewProject` a project is its identity (`git_url or local_path`) and what the
gate reads. `Propose` is the gate on the proposal, which may still be one that
the schema would refuse; `RefuseId`, `ResolveExisting` or `ResolveNew` are the
checks of `run` up to `resolve_project`, `RefuseUrl` the question to git, which
is asked only of an identity in `GitUrls`, `Unnamed` the constructor of
`Project`, and `Scan`, `Collide` and `Write` the two halves of `save_project`:
the listing and the write. `ListingRaises` is a file that does not parse.
`since` is history: the files changed since this registration resolved its
identity, and since it listed the projects.

In `CheckPublish`, `ReadProjects`, `ReadFindings` and `ReadRecords` are the kinds
in the order `raw_records` reads them, with what each adds to the report, and
`Judge` or `RefusePublish` the lookups in `detail/` and the verdict. Coverage,
session and loop records look alike to check, so they are one set. `List` is
publish's own listing and `WriteArtifact` one file of `out/`. `Sessions` is one
action per file they write, in their order (`Draft` before `CloseRecord`), each on
what is stored. VERIFY and a person's transition are the `Writers`, each with its
own locals in `work`: `read` is the copy VERIFY took before its sandbox ran, which
`SetEvidence` and `LeaveCandidate` save; `held` the copy that `transition_finding`
(`ReadForTransition` to `Promote`, `AskTransition` to `Transition`) or the reload
after a rejected promotion (`Reload` to `Revert`) has read. `Drop` ends a writer
at any step. `OpenMistyped` is `run_session` with an unregistered id; `HandEdit`
is a person, or a write that tears a file. Three variables are history: `strayed`
(one of these two has happened), `stripped` (a revert has taken the evidence of a
finding that was past candidate by then) and `moved` (the store changed under this
publish).

## 3. Runs

| Run | Question | Bounds | Result |
|---|---|---|---|
| `session_solo` | is the session log exact for one command at a time, any body, crashes and edits? | 1 process, 2 projects, 3 sessions | 12,972 states, holds |
| `verify_solo` | one command at a time: evidence, audit trail, refinement | 1 process, 1 finding, 2 projects, 2 sessions, 3 log entries | 733,532 states, holds |
| `verify_team` | two processes: what survives every lost update? | 2 processes, 1 finding, 1 session id, 2 log entries | 4.4 M states, holds |
| `verify_overlap` | does VERIFY leave alone what others did meanwhile? | 2 processes | violated |
| `verify_weakened` | does a VERIFY that did not reproduce block promotion? | 1 process | violated |
| `loop_run` | does the loop end, keep its budget, obey withdrawal, report everything, converge? | 1 finding, 3 areas, 3 project contents, 2 budgets, 2 loop runs, 2 events | 833,017 states, holds |
| `sandbox_run` | is every verdict observed, every start signed off, no container forgotten, and does every run end? | 13 requests, 4 images, 3 inputs, clock 0..1 | 208,428 states, holds |
| `hunt_run` | is a hunt gated, filtered, ledgered and accounted for, whatever its worker and a DISCOVER do? | 3 projects, 9 initial stores, 3 areas, 2 classes, 1 rogue target, ledger of 2 | about 895,000 states, holds |
| `vault_run` | does the last good copy stay, do notes survive commands and deaths, is the index current? | 2 processes, 2 notes, keep 2 or 1, 4 commands, 1 death, clock 1..2 | about 3.9 M states, holds |
| `register_run` | does the gate keep bad records out, and is what registrations write over only what was written meanwhile? | 2 processes, 2 ids and an unsafe one, a git URL, a path and none, 4 proposals | 50,929 states, holds |
| `publish_run` | do sessions keep check green, and what do published artifacts rest on? | 1 project, 1 finding, 2 writers, 2 formats, 1 record, 1 publish, 1 hand edit | about 2.7 M states, holds |
| `verify_revert` | does a rejected promotion leave verified findings their evidence? | 2 processes | violated |

Why the bounds are enough. Three sessions let one finish, one be left
interrupted and one see both; two projects let a session meet its own, another
and an unregistered one; the unsafe id is a value of its own. Two sessions and
three log entries let a finding be verified, moved back and verified again by
another session, which is the shortest history in which old and new evidence
differ. One finding suffices because every record is written alone; the theorems
drop that bound and all the others. `MaxSessions`, `MaxLog` and `Contexts` are
the only bounds there, and they guard only the start of new work, never a step
of work under way. `verify_revert` narrows its search with the constraint
`Unreferenced`; it looks for a violation, so nothing is hidden by it.

Two loop runs are what convergence speaks of, a first and a repeated one; two
events let a person withdraw and restore, or a failure follow an edit, at any
two points. The project contents are one with a blank entry, one with a broader
scope and one without authorization. A budget of two sessions stops in the middle
of the chain; a wall clock may run out anywhere or never. `MaxLoops` and
`MaxEvents` only stop new runs and new events.

In `sandbox_run` there is one right request and each way it can be wrong; the
images carry the stored repro, another text, bytes that do not decode, and
nothing; one tick of the clock takes a sign-off into or out of its window
between any two steps. In `hunt_run` the siblings are `b`, the source again and
`a`; the initial registries make them missing, torn, held, refused or approved,
and the initial findings are each one a hunt must refuse to start from. The
document has a result of every kind the ingest tells apart, so more than two
primitives reach the ledger of two and evict. `MaxId` 14 is never reached by a
command; an answer with an id above it is not taken (`Filter`), and in the run
there is none. The record is edited once (`EditSource`), and there is one
DISCOVER. In `vault_run` two seconds and two names per second are enough for a
name to be taken again; `MaxAge` 0 makes a snapshot stale after one tick, `Keep`
2 rotates at the third, and `Keeps` lets a backup keep only one. Four commands
let two processes each run a command over what an earlier pair left, and one
death leaves one half-done directory for the later ones to meet.

In `register_run` two ids and two identities are what a duplicate and a collision
need, and the four proposals are one the gate lets through and one for each
reason to hold or refuse it; of the identities one is a URL that git is asked
about, the other a path. In `publish_run` the OSV record and one draft format
stand for the two ways publish picks its findings, so that `--format all` has two
files of one finding. `MaxRecords` 1 suffices since check judges each record
alone, one finding since it judges findings alone. `Cite` adds what disclosure
needs, and a hand or a mistyped id comes once, at any point; sessions are bounded
by the store itself. Two writers are what a stale copy and a stripping revert
take. The bounds leave out two projects of one identity and the artifacts of an
earlier publish; those only the theorems of `PublishProofs` cover.

Two constraints keep `publish_run` small. `StillClaimed` drops states after a hand
edit or a stripping revert in which the store moved under the last publish:
neither property claims anything of them or of what follows. `WritersOverlap` is a
bound: the two writers overlap as long as the finding carries no references and no
hand has come, afterwards one works at a time. A stripping revert needs no
references, and what a reference adds concerns the guard on one copy; the theorems
do without either constraint.

Processes and ids are interchangeable in `register_run`, writers in `publish_run`,
processes in `verify_team` and `verify_revert`, and processes and notes in
`vault_run`, which check
no liveness: symmetry is sound there. Deadlock is not checked: when the
modelled day's sessions are used up, nothing has to happen.

Properties of `AnySession`:

- `ResumableIsUnfinished`: `find_resumable` answers exactly the sessions that
  started and left without a clean close.
- `GateFirst`: no record says held or refused for a session that worked, and
  one that says proceed did work.
- `MonotonicCounter`: ids grow, so nothing on disk is overwritten.

Properties of `VerifySession`:

- `RestsOnReproduction`: a finding past candidate names a paged artifact that
  records a reproduction of this very finding.
- `AuditTrailGrows`: no step loses a logged attempt.
- `KeepsLifecycle`: the refinement of `EvidenceLifecycle`, where a finding's
  status is its stored status and *proven* means some stored detail records
  its reproduction.
- `LogExplainsStatus`, `AdvancedIsReferenced`: for concurrent processes, lost
  updates lose whole records, never half of one.

Properties of `AutonomousLoop`:

- `BudgetIsExact`: no run has one session more than its limit or stops before it;
  and without a limit that binds - a budget of tokens only, while every session
  reports a zero cost - a run is bounded by its own selection.
- `NothingLeftUnsaid`: a run that ends at a hard stop or a fixed point has
  recorded every candidate and every drafted finding for a person, and what it
  leaves undone it has tried in that run.
- `WithdrawalHolds`: authorization or scope withdrawn while a loop runs stops the
  next session from working, although the loop keeps its first copy of the
  project.
- `RepeatRunsConverge`: an undisturbed run after an undisturbed run that left
  nothing has nothing to do, when MAP can reach the whole scope.
- `EveryLoopEnds`: under weak fairness of the loop's own steps, which the code
  justifies: a session is a finite computation, and the one that waits, on the
  sandbox, has a timeout. Time, people and failures are not fair.

Properties of `SandboxRun`:

- `RunsWhatWasSignedOff`: a container that comes up, however late, runs the
  attested image under a sign-off that was valid when it was checked, and the
  repro's one runs on the bytes of the stored repro.
- `VerdictIsObserved`: "reproduced" is a death by signal with a credible report,
  "did not reproduce" an end of the target that the wrapper saw - or the code of a
  wrapper, container or client that was killed from outside, which `run()` takes
  for the target's own (section 4). A target that was never started, a lost
  daemon, a cut capture or a failed clean-up reads as neither.
- `NeverForgotten`: a container that exists is the one teardown will remove.
- `Ephemeral`: a verdict leaves neither container nor client behind, whoever was
  killed and whether `--rm` worked or not.
- `KeepsIsolation`: the refinement of `IsolatedRun`.
- `EveryRunEnds`: under weak fairness of `run()`'s own steps (`Code`). Its select
  loop has a deadline and every other call of a subprocess a timeout, so each
  step ends whatever the daemon, the target or the person does; of those nothing
  is assumed.

Properties of `SiblingHunt` (with the DISCOVER it interleaves with):

- `GatedOnly`: a variant or a coverage record of the hunt lies in a contained
  scope that the gate let proceed for its own project.
- `LedgerIsBacked`: a ledgered primitive has a record on disk, a candidate, and
  of the hunted class; hunts compose no chain.
- `AccountedFor`: a session that closes reports what it left on disk, also after
  a target failed half-way, and nothing else.
- `OutcomesTellAll`: every target has an outcome, and it agrees with the store.
- `VariantsFiled`: a target reported as resolved or empty has every same-class
  instance of the document on disk.
- `RecordsKept`: no command overwrites what was on disk when it numbered.

The hunt claims no liveness: it is a finite loop, and its worker is external.

Properties of `MemoryVault`:

- `GoodCopyRemains`: once a snapshot was taken, a whole one no older is there under
  its name, whatever `--keep` backups were given and wherever a copy or a removal
  was cut short. A half directory under a snapshot's name there may well be; the
  property says that a good one stays beside it.
- `NothingDestroyed`: what the vault held when the last command started is in the
  vault, in `vault.old` or in a whole snapshot, wherever a command died.
- `FreshBeforeWrite`: add writes only beside a fresh whole snapshot, as long as no
  command has died.
- `IndexIsCurrent`: an index that a command wrote lists the notes there are, in the
  vault and in every whole snapshot, until a note is added or lost or a half
  directory is restored. What a dead copy or removal leaves in `vault.restoring` or
  `vault.old` is no vault, and nothing is said of it.

All four are about commands that run one at a time: two that overlap may copy into
one `.partial` and write an index of notes read before.

Properties of `NewProject`:

- `TypeOK` is here also a promise of the gate: it reads a proposal that no schema
  has seen, and what it lets through the schema accepts.
- `RecordsKept`: a registration writes only over a file that changed since it
  resolved its identity; what was there before is never lost to it.
- `DuplicatesAreRaced`: a second project of an identity is made only beside one
  written after this registration's own listing.

Properties of `CheckPublish`:

- `SessionsKeepGreen`: overlapping VERIFYs and transitions, stale copies included,
  and all other sessions never turn check red, at whichever point between two of
  their writes it comes - until a hand edit, a torn write, a mistyped id, or a
  revert that strips a finding past candidate of its evidence.
- `DraftsRestOnEvidence`: what a publish has written of a finding is what its one
  listing said, in every format, a draft only past candidate, and the finding has
  what its status demands: after a hand edit or a stripping revert because check
  saw the result and nothing has moved since, otherwise however sessions
  interleave with check, listing and writing.

Every property of a passing run has a mutant in `PROJECT.json`: an operator,
next to the definition it changes, with one plausible bug, under which TLC
finds the property violated.

## 4. Disagreements between the code and its own words

- **A failed VERIFY can demote** (`verify_overlap`). `_leave_candidate` says it
  changes no status, but it saves the finding read before the sandbox ran.
- **A VERIFY that does not reproduce leaves old evidence in force**
  (`verify_weakened`). In the trace a promotion dies after it saved `evidence_ref`
  (`sessions/verify.py:250`) and before the transition. The candidate keeps that
  reference; a later VERIFY that does not reproduce pages its result and saves the
  finding with the reference in it, so the guard would still promote, while the
  teach-back says it promotes nothing. A finding moved back from verified gets
  there without a crash.
- **The revert can strip a verified finding** (`verify_revert`). After a
  rejected promotion the old `evidence_ref` is put on the reloaded finding,
  which another session may have verified meanwhile.

The demotion and the revert need overlapping commands, the second does not.

Also in the models, without a run of their own; a change of one constant or
condition shows each:

- **Overlapping commands share a session id.** `generate_session_id` counts
  records that the other command has not written yet, while `loop/policy.py:112`
  relies on a monotonic counter. With two processes in `session_solo.cfg` TLC
  finds `MonotonicCounter` violated.
- **An area MAP refuses keeps the loop discovering.** MAP is proposed by every
  run, rewrites the coverage it can write, and so makes the last DISCOVER stale;
  the plan says the policy never re-proposes completed work. `RepeatRunsConverge`
  without its condition on `Mappable`, and a scope with an entry in `Escaping`.
- **Overlapping registrations duplicate an identity.** `save_project` lists, then
  writes; `schema/project.py:5` says the store never creates a duplicate.
  `DuplicatesAreRaced` with `FALSE` for `i \in since[p].scanned`: that condition
  is the only way.
- **What is published need not have been checked.** `publish` lists the findings
  anew after `run_check` read them (`cli.py:689` and `:696`). Stale copies alone
  do no harm there, but a hand edit does, and so do two overlapping VERIFYs whose
  revert strips a verified finding in that window: it is listed, and drafts are
  written of it. Drop `~stripped` or
  `~strayed` from `DraftsRestOnEvidence`, and the constraint `StillClaimed`.
- **A mistyped project id turns check red.** `run_session` saves its record
  (`protocol/session.py:140`) before anything looks for the project; only
  `disclose` and `loop` look first, and a test says that a CLI typo persists no
  session record (`src/tests/test_cli_005.py:81`). This is `OpenMistyped`, and
  why `SessionsKeepGreen` needs `~strayed`.

Met while modelling, each a part of the model but without a run of its own:

- **A kill reads as "did not reproduce".** `run()` takes every exit code that is
  not one of its own for the target's (`sandbox/docker.py:557`). The memory cap it
  sets itself (`:249`) kills the harness by a signal, so that the wrapper reports a
  crash with no report; a wrapper or container killed from outside gives 137, a
  killed client a negative code. `_preflight_runtime` says that an infrastructure
  failure never reads as a negative verification result (`:846`).
  `VerdictIsObserved` accepts these by `"capped"` and by `exit = "dead"`; without
  either TLC finds the run.
- **A crash in restore leaves no vault.** Between the two renames
  (`memory/mem.py:268`) the notes are only in `vault.old`; the next `add` makes an
  empty vault, and the next restore removes `vault.old`. `NothingDestroyed` still
  holds, because restore takes a snapshot first.
- **Restore may rotate its source away.** That snapshot is taken before the
  source is copied (`memory/mem.py:262`); a named source that is then the oldest
  is gone, and `StartStage` cannot run.
- **A half directory counts.** A `.partial`, or a snapshot that a rotation was
  killed in (`memory/mem.py:109`), takes a place in the rotation, makes
  `_autobackup_if_stale` think a snapshot is fresh, and may be what restore takes:
  two snapshots, a `backup --keep 1` killed while it removes the older one, and
  that name is a half copy which the default rotation keeps. `memory/mem.py:106`
  says that a half-copied snapshot never looks complete. Hence `deaths = 0` in
  `FreshBeforeWrite`, and `GoodCopyRemains` speaks of a good copy, not of all.
- **Ages are copied.** copytree gives a snapshot the vault's mtime, so its age is
  the time since the last write, not since the backup.
- **A freed name sorts first.** With `backup --keep 1` a name that rotation freed
  is taken again within the same second and sorts before a snapshot taken earlier:
  of three such backups in one second the third removes what it has just copied.
  With `Keep` 1, restore could lose what it overwrites that way, which is why
  `NothingDestroyed` is proved for deeper rotations; the code's default is 20.
- **Long areas get no coverage.** The comment at `sessions/discover.py:218` says
  they still get a full record; line 430 writes from the bounded delta only.
- **A torn sibling record ends the hunt.** `get_project` at
  `sessions/sibling_hunt.py:451` is outside the per-target guard.
- **The source is read again after its gate** (`sessions/sibling_hunt.py:393`): an
  edit in between decides the scope the hunt uses, ungated.

## 5. Proofs

`VerifyProofs` proves, from the assumptions named in the modules and for every
value of the constants and any number of processes, `VerifyTyping`,
`LogAlwaysExplains` and `AdvancedAlwaysReferenced`. `LogExplainsStatus` speaks
of stored findings, but a step saves what a process *holds*, so the inductive
invariant `IInv` says of every held copy what it says of the stored ones
(`RecordsSound`), next to the types of the protocol's and of the store's
variables (`ProtocolTyped`, `StoreTyped`). That is the whole reason lost
updates are harmless to these two properties: every copy in circulation was
sound when it was made. The module begins with the lemmas: what the guard
allows and what a transition writes preserve types, explanation and references.

Its second half adds `ASSUME Solo` (at most one process) and proves
`SoloReproduced`, `SoloLifecycle` and `SoloAuditTrail`. The invariant `SoloInv`
has five parts: `IdsDense` (session numbers on disk are 1..n, so the count is a
fresh id), `SessionsOnDisk` (a process past `OpenRecord` has its record),
`ArtifactOfRun` (from `PageEvidence` on, the detail under the session's id is
this run's), `EvidenceReal` (every evidence reference, stored or held, names a
reproduction of its finding) and `CopyCurrent` (the held copy differs from the
stored finding only in what this run wrote). Each fails for two processes, as
the violated runs show, which is why the theorem needs `Solo`.

`SandboxProofs` proves, for every set of images, inputs and requests and any
length of the clock, `SandboxTyping`, `OnlySignedOffRuns`, `VerdictsAreObserved`,
`NothingIsForgotten`, `VerdictsAreClean` and `SandboxIsolates`. Its invariant
follows one run: `Attested` (nothing starts before authorization, attestation and
binding, and the pinned image stays the attested one), `Marked` (a client that
may still start a container is that of the marked one, or has been cleared),
`Lived` (the client's status is explained by how the target ended), `Captured`
(what a capture that was not cut has seen, and what the read established) and
`Concluded` (what a result implies about both containers). `NeverForgotten` is
not inductive alone: a client that is still starting has no container yet, and
what matters is that its container is already marked. The refinement maps a
step that ends the run to `Conclude` or `Fail`, a container's coming up to
`Start` or, when it was cleared before, to a stutter.

`HuntProofs` proves, for every set of projects, stores, siblings, documents and
worker answers and any number of findings, `HuntTyping`, `HuntIsGated`,
`LedgerStaysBacked` and `RecordsAreKept`. Its invariant follows a batch from the
worker's answer to the ledger. `Gates` ties the scope in use to what the target's
own gate saw. `BatchSound` says that what the firewall kept has ids of its own,
lies in that scope, and as long as it waits to be saved can meet on disk only
what DISCOVER saved since: this is where the numbering is trusted no longer than
the code trusts it. `LedgerSound` says that what is saved of the batch backs its
primitives, and that no ledgered node names a finding still to be written; without
it a later write could take the record from under a node. `DiscSound` is the
same for the other command. `Kempt` is the outcomes, and the ledger's bound and
keys, by a lemma on one `AddPrimitive`. `RecordsKept` then follows step by step
from `BatchSound` and `DiscSound`.

Its second half proves what a closed session says of all it did: `SessionsAccount`,
`OutcomesAreComplete` and `VariantsAreFiled`. `TellInv` follows the targets: they
are taken one after another and none twice (`QueueSound`; that the siblings are
deduplicated, `sessions/sibling_hunt.py:364`, is an assumption of the model, and
without it a second visit would overwrite the first one's outcome); every whole
record and read coverage of the hunt is in its target's outcome, or among the
locals of the target under way (`Reported`), and what those name is on disk
(`TrueToDisk`). `DiscTold` is the same for DISCOVER. `FiledInv` explains why no
variant is lost to the numbering: the ids from `start` on are free when the
firewall reads the store, unless DISCOVER came between (`FreeAhead`); so it keeps
every instance that is due, which then waits to be saved (`Underway`) until the
outcome is written (`Promised`).

`RegistrationProofs` proves the three properties of `NewProject` for any number of
processes, ids, identities and authorizations. What is inductive is `Looked`: a
registration under way was cleared by the gate; once it has resolved its identity,
every record of that identity is in `since`; once it has listed, so are a file
under its id and any other record of its identity, the latter as changed since
that very listing. `ClearedIsStorable` links the gate to the schema, and the two
action properties are `Looked` at the moment of `Write`.

`SessionProofs` proves the typing of `AnySession` for any number of processes,
and under `Solo` its other three invariants. `SessionInv` is `IdsDense` (the ids on
disk are 1..n, which makes the count a fresh id), `OwnRecord` (the record of
a process past `OpenRecord` is still undecided, and its work has begun exactly when
the gate let it) and `RecordsTell` (of every other session the record tells what
became of it: interrupted exactly when it did not finish). Without `Solo` the
first fails at once: section 4 says how.

`LoopProofs` proves all the safety properties of `AutonomousLoop`, for any
findings, areas, budgets and contexts and whatever people change meanwhile.
`LoopBudgetIsExact` rests on `Counted`: the sessions of a run are as many as its
trace has rows with one and as many as the actions it has done, because no action
is proposed twice. `LoopConverges` needs to say what "completed" is worth later:
`Effective` (what a session of this run did is still in the store), for which
`CoverageBound` (no coverage is newer than the last session) is needed, and that
a run that stops for lack of work has left only proposals for people (`RunInv`).
`RestInv` carries that over to the runs that follow.

`PublishProofs` proves both properties of `CheckPublish` for any number of
projects, findings, records, overlapping writers and runs. `PublishInv` has two
halves. `Healthy` and `CopiesKept` say that a store which no hand and no stripping
revert has touched is as check wants it, and so is every copy a writer holds: what
a stale copy says of its finding's evidence and references stays true while
`detail/` only grows (`Carried`), which is the whole reason stale saves are
harmless here. `ReadIsStored` says that what the command has read is what is
stored as long as nothing moved under it. From these follow that check finds
nothing amiss in the first case (`NothingAmiss`), and that the listing rests on
evidence in both (`ListingRests`).

`VaultProofs` proves the four properties of `MemoryVault`, for any processes,
notes, `--keep`s, deaths and up to ten snapshots of one second
(`OneDigitAssumption`: above that the string order of the names is another one).
A rotation with a small `--keep` frees names that the next snapshots take, so
the snapshot just made need not be the newest by name. What is inductive is that
no `.partial` of its second or of a later one is there (`NamesKept`,
`GoodParts`) and that the newest name in use is that of a whole copy
(`GoodKept`): rotation keeps at least one, so it never removes that one, nor is
it ever removing it. `VaultGoodCopyRemains` needs nothing more.
`VaultNothingDestroyed` needs the very snapshot that restore has taken of what
it overwrites, and with it `RotationIsDeep`: rotation keeps at least as many as
one second can name; in the code `KEEP_BACKUPS = 20` (`memory/mem.py:51`).
`HeldInv` says where what the vault held is while a restore moves directories
around: in the vault, or in a snapshot. `VaultFreshBeforeWrite` follows the ages
(`TimesKept`, `FreshIsWhole`), and `VaultIndexIsCurrent` what is copied note by
note from a directory that nobody changes meanwhile (`CopyIsFaithful`) and the
index of every directory, also of those no command reads (`AllCurrent`).

Model-checked only: liveness (`EveryLoopEnds`, `EveryRunEnds`), which is out of
TLAPS's reach. The refinements `KeepsLifecycle` and `KeepsIsolation` and all
other properties of the passing runs are theorems: those of `AnySession` and
`VerifySession` that fail for overlapping commands under `Solo`,
`NothingDestroyed` under `RotationIsDeep`, and the rest without further
hypothesis.

## 6. Plan

What is left, most important first:

1. The verdict rules of the benchmark's evaluation contract, as pure operators
   against a reference definition.
2. Evidence in `AutonomousLoop`, by a composition with `VerifySession`: what a
   draft or a hunt still counts for when its finding was demoted and verified
   again (`loop/policy.py:56` and `:135`).
3. `AutonomousLoop` as an abstraction of the sessions it drives: each of its steps
   shown to be what the detailed session does to the store.
4. The lifecycle of several overlapping commands: which of the invariants under
   `Solo` survive when commands overlap on different findings only.

## 7. Not modelled

JSON parsing of SARIF, the export formats, profiles, path resolution and the
benchmark detectors are functions on text and paths; a model of them would
restate the code. The models take their verdicts as inputs. The benchmark harness
is in the plan. File writes are one step, except that a finding's write may be
torn in `SiblingHunt`, a project's in `NewProject`, and either in `CheckPublish`,
where registrations do not overlap (`NewProject` has their race) and drafts always
conform to their formats. That the `deepthought` process itself is killed inside a
sandbox run is not modelled: nothing of it survives to promise anything, and
`--rm` and the queued removal are the daemon's; nor that the daemon starts a
container whose client was killed before. The vault's clock is never set back, and
a vault that holds only an index counts as empty when restore moves its copy in,
where the code raises. The sandbox's hardening flags are data. The wording of
reasons and teach-backs is left out, except whether a teach-back names next steps.
