----------------------------- MODULE MemoryVault -----------------------------
(***************************************************************************)
(* The portable agent memory (memory/mem.py): a directory of notes with an *)
(* index, rotating snapshots beside it, and the commands init, add, index, *)
(* backup and restore, each a short-lived process that may die at any      *)
(* step.  A command is split where another process or its own death can    *)
(* come between two file operations.  A note is its file: what a command   *)
(* writes goes to a temporary file and is swapped in, so it is there or    *)
(* not; a directory that is copied or removed can be left half done.       *)
(***************************************************************************)
EXTENDS Naturals, FiniteSets

CONSTANTS Procs,        \* processes running mem.py
          Notes,        \* the notes there are to write
          Keep,         \* KEEP_BACKUPS
          Keeps,        \* BOUND: what backup --keep is given; 0 stands for less than 0
          MaxAge,       \* max_age_s of _autobackup_if_stale
          MaxNow,       \* BOUND: the clock, in seconds
          MaxCommands,  \* BOUND: commands issued
          MaxDeaths,    \* BOUND: processes that die midway
          MaxSame,      \* BOUND: snapshots that share a second, but the first
          NoDir,        \* a path where there is no directory
          NoName        \* no note or snapshot

ASSUME VaultAssumption ==
    /\ Keep \in Nat \ {0} /\ MaxAge \in Nat /\ MaxNow \in Nat \ {0}
    /\ Keeps \subseteq Nat /\ MaxDeaths \in Nat /\ MaxCommands \in Nat

\* Names are sorted as strings: above 9, -10 would come before -2.
ASSUME OneDigitAssumption == MaxSame \in 0 .. 9

\* backups/<stamp>, backups/<stamp>-<n>, and their .partial.
Names == [stamp : 1 .. MaxNow, n : 0 .. MaxSame, partial : BOOLEAN]

\* A vault directory: its notes, the notes its index lists, and its mtime.
\* History: dirty, the notes were changed and no index written since.  What is
\* half copied or half removed counts as dirty: whether the index file is among
\* what is there is left open.
Dir == [notes : SUBSET Notes, index : SUBSET Notes, mtime : 0 .. MaxNow, dirty : BOOLEAN]

\* A snapshot.  History: whole, it is a complete copy.
Snap == [dir : Dir, whole : BOOLEAN]

ASSUME AbsentAssumption == NoDir \notin Dir /\ NoDir \notin Snap /\ NoName \notin Names

VARIABLES vault,        \* memory/vault, or NoDir
          old,          \* memory/vault.old, or NoDir
          restoring,    \* memory/vault.restoring, or NoDir
          snaps,        \* memory/backups, by name
          now,          \* the clock the names and ages are taken from
          pc,           \* where each process is
          loc,          \* its local variables
          held,         \* history: the notes the vault held when it was last whole
          deaths,       \* history: processes that died or raised midway
          overlapped,   \* history: two commands ran at once
          issued,       \* history: commands so far
          latest        \* history: the second of the snapshot promoted last, or 0

history == <<held, deaths, overlapped, issued, latest>>

vars == <<vault, old, restoring, snaps, now, pc, loc, history>>

NoWork == [note |-> NoName, seen |-> {}, left |-> {}, name |-> NoName, src |-> NoName,
           keep |-> Keep, ret |-> "idle", checked |-> 0]

EmptyVault == [notes |-> {}, index |-> {}, mtime |-> now, dirty |-> FALSE]

Init == /\ vault = NoDir /\ old = NoDir /\ restoring = NoDir
        /\ snaps = [x \in Names |-> NoDir]
        /\ now = 1
        /\ pc = [p \in Procs |-> "idle"] /\ loc = [p \in Procs |-> NoWork]
        /\ held = {}
        /\ deaths = 0 /\ overlapped = FALSE
        /\ issued = 0 /\ latest = 0
-----------------------------------------------------------------------------
Dirs == {x \in Names : snaps[x] # NoDir}

\* The order of the names as strings within one second: S, S-1, S-1.partial,
\* S-2, ..., S.partial.
Rank(x) == IF x.partial /\ x.n = 0 THEN 2 * MaxSame + 2
           ELSE 2 * x.n + (IF x.partial THEN 1 ELSE 0)

Older(x, y) == \/ x.stamp < y.stamp
               \/ x.stamp = y.stamp /\ Rank(x) < Rank(y)

Newer(x) == {y \in Dirs : Older(x, y)}

\* What rotation removes: all but the newest directories, .partial or not, and
\* nothing if less than one is to be kept.
Outdated(keep) == {x \in Dirs : keep > 0 /\ Cardinality(Newer(x)) >= keep}

Goto(p, label) == pc' = [pc EXCEPT ![p] = label]

Local(p, new) == loc' = [loc EXCEPT ![p] = new]

Touched(dir) == [dir EXCEPT !.mtime = now]

\* A command starts: what the vault holds now is what it may not lose.
Started(p) == /\ pc[p] = "idle" /\ issued < MaxCommands
              /\ issued' = issued + 1
              /\ overlapped' = (overlapped \/ \E q \in Procs : pc[q] # "idle")
              /\ held' = IF vault = NoDir THEN held ELSE vault.notes
              /\ UNCHANGED <<deaths, latest>>

Done(p) == Goto(p, "idle") /\ Local(p, NoWork)

\* The process dies, or an exception ends it: nothing is cleaned up.
Dies(p) == /\ deaths < MaxDeaths
           /\ Done(p)
           /\ deaths' = deaths + 1
           /\ UNCHANGED <<held, overlapped, issued, latest>>
-----------------------------------------------------------------------------
\* cmd_init: an empty vault with the template's index.
CmdInit(p) == /\ Started(p) /\ vault = NoDir
              /\ vault' = EmptyVault
              /\ UNCHANGED <<old, restoring, snaps, now, pc, loc>>

\* cmd_add makes the vault directory if there is none.
CmdAdd(p) == /\ Started(p)
             /\ vault' = IF vault = NoDir THEN EmptyVault ELSE vault
             /\ \E n \in Notes : Local(p, [NoWork EXCEPT !.note = n, !.ret = "writing"])
             /\ Goto(p, "checking")
             /\ UNCHANGED <<old, restoring, snaps, now>>

\* backup, with a --keep of its own or without.
CmdBackup(p) == /\ Started(p)
                /\ \E keep \in Keeps \cup {Keep} : Local(p, [NoWork EXCEPT !.keep = keep])
                /\ Goto(p, "copying")
                /\ UNCHANGED <<vault, old, restoring, snaps, now>>

CmdIndex(p) == /\ Started(p) /\ vault # NoDir
               /\ Goto(p, "reading") /\ UNCHANGED loc
               /\ UNCHANGED <<vault, old, restoring, snaps, now>>

\* Mutant: restore does not take a snapshot of its own first.
CmdRestoreUnsaved(p) == /\ Started(p)
                        /\ \E x \in Dirs : Local(p, [NoWork EXCEPT !.src = x, !.ret = "staging"])
                        /\ Goto(p, "staging")
                        /\ UNCHANGED <<vault, old, restoring, snaps, now>>

\* cmd_restore takes the newest directory there is, or one that is named.
CmdRestore(p) == /\ Started(p)
                 /\ \E x \in Dirs : Local(p, [NoWork EXCEPT !.src = x, !.ret = "staging"])
                 /\ Goto(p, "copying")
                 /\ UNCHANGED <<vault, old, restoring, snaps, now>>
-----------------------------------------------------------------------------
\* Mutant: the oldest directory is asked for its age.
StaleByOldest == \E x \in Dirs : snaps[x].dir.mtime + MaxAge < now

\* _autobackup_if_stale: no directory is young enough.  A directory carries the
\* mtime copied from the vault, a half-copied one that of its own making.
Stale == \A x \in Dirs : snaps[x].dir.mtime + MaxAge < now

CheckAge(p) == /\ pc[p] = "checking"
               /\ Goto(p, IF Stale THEN "copying" ELSE "writing")
               /\ Local(p, [loc[p] EXCEPT !.checked = now])
               /\ UNCHANGED <<vault, old, restoring, snaps, now, history>>

Return(p) == /\ Goto(p, loc[p].ret)
             /\ Local(p, [loc[p] EXCEPT !.name = NoName, !.seen = {}])

\* _make_backup without a vault or without notes.
NothingToCopy(p) == /\ pc[p] = "copying"
                    /\ vault = NoDir \/ (vault # NoDir /\ vault.notes = {})
                    /\ Return(p)
                    /\ UNCHANGED <<vault, old, restoring, snaps, now, history>>

Half(notes) == [dir |-> [notes |-> notes, index |-> {}, mtime |-> now, dirty |-> TRUE], whole |-> FALSE]

\* Mutant: a name is taken only if its .partial is free as well.
StartCopyBeside(p) ==
    /\ pc[p] = "copying" /\ vault # NoDir /\ vault.notes # {}
    /\ \E x \in Names :
         /\ x.stamp = now /\ x.partial
         /\ snaps[x] = NoDir /\ snaps[[x EXCEPT !.partial = FALSE]] = NoDir
         /\ \A n \in 0 .. x.n - 1 :
              \E partial \in BOOLEAN : snaps[[stamp |-> now, n |-> n, partial |-> partial]] # NoDir
         /\ snaps' = [snaps EXCEPT ![x] = Half({})]
         /\ Local(p, [loc[p] EXCEPT !.name = x, !.seen = vault.notes, !.left = vault.notes])
    /\ Goto(p, "copied")
    /\ UNCHANGED <<vault, old, restoring, now, history>>

\* A name of this second that is free, and a new .partial for it: whoever else
\* was copying to that .partial loses what it has copied.
StartCopy(p) ==
    /\ pc[p] = "copying" /\ vault # NoDir /\ vault.notes # {}
    /\ \E x \in Names :
         /\ x.stamp = now /\ x.partial
         /\ snaps[[x EXCEPT !.partial = FALSE]] = NoDir
         /\ \A n \in 0 .. x.n - 1 : snaps[[stamp |-> now, n |-> n, partial |-> FALSE]] # NoDir
         /\ snaps' = [snaps EXCEPT ![x] = Half({})]
         /\ Local(p, [loc[p] EXCEPT !.name = x, !.seen = vault.notes, !.left = vault.notes])
    /\ Goto(p, "copied")
    /\ UNCHANGED <<vault, old, restoring, now, history>>

\* A note of the listing is copied; one that is gone ends the copy (Die).
CopyNote(p) ==
    /\ pc[p] = "copied" /\ vault # NoDir /\ snaps[loc[p].name] # NoDir
    /\ \E n \in loc[p].left \cap vault.notes :
         /\ snaps' = [snaps EXCEPT ![loc[p].name] = Half(snaps[loc[p].name].dir.notes \cup {n})]
         /\ Local(p, [loc[p] EXCEPT !.left = @ \ {n}])
    /\ UNCHANGED <<vault, old, restoring, now, pc, history>>

\* The copy is complete; copytree gives it the vault's mtime last.
EndCopy(p) ==
    /\ pc[p] = "copied" /\ vault # NoDir /\ snaps[loc[p].name] # NoDir /\ loc[p].left = {}
    /\ LET copy == snaps[loc[p].name].dir
       IN snaps' = [snaps EXCEPT ![loc[p].name] =
                       [dir |-> [vault EXCEPT !.notes = copy.notes],
                        whole |-> loc[p].seen \subseteq copy.notes]]
    /\ Goto(p, "promoting")
    /\ UNCHANGED <<vault, old, restoring, now, loc, history>>

\* os.replace: the snapshot gets its name, unless another one has it by now.
Promote(p) ==
    LET dest == [loc[p].name EXCEPT !.partial = FALSE]
    IN /\ pc[p] = "promoting" /\ snaps[loc[p].name] # NoDir /\ snaps[dest] = NoDir
       /\ snaps' = [snaps EXCEPT ![dest] = snaps[loc[p].name], ![loc[p].name] = NoDir]
       /\ latest' = dest.stamp
       /\ Goto(p, "rotating")
       /\ UNCHANGED <<vault, old, restoring, now, loc, held, deaths, overlapped, issued>>

\* Rotation removes the outdated directories one after the other.
Rotate(p) == /\ pc[p] = "rotating"
             /\ \E x \in Outdated(loc[p].keep) : snaps' = [snaps EXCEPT ![x] = NoDir]
             /\ UNCHANGED <<vault, old, restoring, now, pc, loc, history>>

Rotated(p) == /\ pc[p] = "rotating" /\ Outdated(loc[p].keep) = {}
              /\ Return(p)
              /\ UNCHANGED <<vault, old, restoring, snaps, now, history>>
-----------------------------------------------------------------------------
\* _atomic_write of the note, in a directory it makes if there is none.
WriteNote(p) ==
    LET dir == IF vault = NoDir THEN EmptyVault ELSE vault
    IN /\ pc[p] = "writing"
       /\ vault' = Touched([dir EXCEPT !.notes = @ \cup {loc[p].note}, !.dirty = TRUE])
       /\ Goto(p, "reading")
       /\ UNCHANGED <<old, restoring, snaps, now, loc, history>>

\* cmd_index reads the notes ...
ReadNotes(p) == /\ pc[p] = "reading"
                /\ \/ /\ vault # NoDir
                      /\ Local(p, [loc[p] EXCEPT !.seen = vault.notes]) /\ Goto(p, "indexing")
                   \/ vault = NoDir /\ Done(p)
                /\ UNCHANGED <<vault, old, restoring, snaps, now, history>>

\* Mutant: the note just written is appended to the index that is there.
WriteIndexAppending(p) ==
    LET dir == IF vault = NoDir THEN EmptyVault ELSE vault
    IN /\ pc[p] = "indexing"
       /\ vault' = Touched([dir EXCEPT !.index = @ \cup {loc[p].note}, !.dirty = FALSE])
       /\ Done(p)
       /\ UNCHANGED <<old, restoring, snaps, now, history>>

\* ... and writes the index of what it read.
WriteIndex(p) ==
    LET dir == IF vault = NoDir THEN EmptyVault ELSE vault
    IN /\ pc[p] = "indexing"
       /\ vault' = Touched([dir EXCEPT !.index = loc[p].seen, !.dirty = FALSE])
       /\ Done(p)
       /\ UNCHANGED <<old, restoring, snaps, now, history>>
-----------------------------------------------------------------------------
\* restore removes what an earlier one left half copied and begins a copy of the
\* snapshot next to the vault, if rotation has left it ...
StartStage(p) ==
    /\ pc[p] = "staging" /\ snaps[loc[p].src] # NoDir
    /\ restoring' = Half({}).dir
    /\ LET notes == snaps[loc[p].src].dir.notes
       IN Local(p, [loc[p] EXCEPT !.seen = notes, !.left = notes])
    /\ Goto(p, "staged")
    /\ UNCHANGED <<vault, old, snaps, now, history>>

\* ... copies one note after the other ...
StageNote(p) ==
    /\ pc[p] = "staged" /\ snaps[loc[p].src] # NoDir /\ restoring # NoDir
    /\ \E n \in loc[p].left \cap snaps[loc[p].src].dir.notes :
         /\ restoring' = Half(restoring.notes \cup {n}).dir
         /\ Local(p, [loc[p] EXCEPT !.left = @ \ {n}])
    /\ UNCHANGED <<vault, old, snaps, now, pc, history>>

\* ... until all are there ...
EndStage(p) ==
    /\ pc[p] = "staged" /\ snaps[loc[p].src] # NoDir /\ restoring # NoDir /\ loc[p].left = {}
    /\ restoring' = [snaps[loc[p].src].dir EXCEPT !.notes = restoring.notes]
    /\ Goto(p, "clearing") /\ Local(p, NoWork)
    /\ UNCHANGED <<vault, old, snaps, now, history>>

\* ... removes what an earlier restore left ...
ClearOld(p) == /\ pc[p] = "clearing"
               /\ \/ vault # NoDir /\ old' = NoDir /\ Goto(p, "retiring")
                  \/ vault = NoDir /\ UNCHANGED old /\ Goto(p, "installing")
               /\ UNCHANGED <<vault, restoring, snaps, now, loc, history>>

\* ... moves the vault aside ...
Retire(p) == /\ pc[p] = "retiring" /\ vault # NoDir /\ old = NoDir
             /\ old' = vault /\ vault' = NoDir
             /\ Goto(p, "installing")
             /\ UNCHANGED <<restoring, snaps, now, loc, history>>

\* ... moves the copy in, unless there is a vault again and it is not empty ...
Install(p) == /\ pc[p] = "installing" /\ restoring # NoDir
              /\ vault = NoDir \/ (vault # NoDir /\ vault.notes = {})
              /\ vault' = restoring /\ restoring' = NoDir
              /\ Goto(p, "tidying")
              /\ UNCHANGED <<old, snaps, now, loc, history>>

\* ... and removes the old vault.
Tidy(p) == /\ pc[p] = "tidying"
           /\ old' = NoDir
           /\ Done(p)
           /\ UNCHANGED <<vault, restoring, snaps, now, history>>

Command(p) ==
    \/ CmdInit(p) \/ CmdAdd(p) \/ CmdBackup(p) \/ CmdIndex(p) \/ CmdRestore(p)
    \/ CheckAge(p) \/ NothingToCopy(p) \/ StartCopy(p) \/ CopyNote(p) \/ EndCopy(p) \/ Promote(p)
    \/ Rotate(p) \/ Rotated(p) \/ WriteNote(p) \/ ReadNotes(p) \/ WriteIndex(p)
    \/ StartStage(p) \/ StageNote(p) \/ EndStage(p) \/ ClearOld(p) \/ Retire(p) \/ Install(p) \/ Tidy(p)
-----------------------------------------------------------------------------
\* The process dies between two steps, or finds a path taken or gone.
Die(p) == /\ pc[p] # "idle"
          /\ Dies(p)
          /\ UNCHANGED <<vault, old, restoring, snaps, now>>

\* What is left of a directory whose removal was cut short.
Remains(dir) == {Half(notes) : notes \in SUBSET dir.notes}

\* ... or in the middle of a removal: of an outdated snapshot ...
DieRotating(p) ==
    /\ pc[p] = "rotating"
    /\ \E x \in Outdated(loc[p].keep) :
         \E rest \in Remains(snaps[x].dir) : snaps' = [snaps EXCEPT ![x] = rest]
    /\ Dies(p)
    /\ UNCHANGED <<vault, old, restoring, now>>

\* ... of what an earlier restore left half copied, or of an old vault.
DieClearing(p) ==
    /\ \/ /\ pc[p] = "staging" /\ restoring # NoDir
          /\ \E rest \in Remains(restoring) : restoring' = rest.dir
          /\ UNCHANGED old
       \/ /\ old # NoDir
          /\ pc[p] = "tidying" \/ (pc[p] = "clearing" /\ vault # NoDir)
          /\ \E rest \in Remains(old) : old' = rest.dir
          /\ UNCHANGED restoring
    /\ Dies(p)
    /\ UNCHANGED <<vault, snaps, now>>

Tick == /\ now < MaxNow
        /\ now' = now + 1
        /\ UNCHANGED <<vault, old, restoring, snaps, pc, loc, history>>

\* A note is lost to something that is not mem.py: what backups are for.
LoseNote == /\ vault # NoDir /\ \A p \in Procs : pc[p] = "idle"
            /\ \E n \in vault.notes : /\ vault' = Touched([vault EXCEPT !.notes = @ \ {n}, !.dirty = TRUE])
                                      /\ held' = held \ {n}
            /\ UNCHANGED <<old, restoring, snaps, now, pc, loc, deaths, overlapped, issued, latest>>

Next == \/ \E p \in Procs : Command(p) \/ Die(p) \/ DieRotating(p) \/ DieClearing(p)
        \/ Tick \/ LoseNote

Spec == Init /\ [][Next]_vars
-----------------------------------------------------------------------------
\* "Can always be restored from the last good copy": once a snapshot was taken,
\* a whole one that is no older is there under its name, whatever --keep the
\* rotations were given and wherever commands died, as long as they run one at a
\* time: a .partial or a half-removed directory never takes its place.
GoodCopyRemains ==
    ~overlapped /\ latest > 0 =>
        \E x \in Dirs : ~x.partial /\ snaps[x].whole /\ x.stamp >= latest

Held(dir) == dir # NoDir /\ held \subseteq dir.notes

\* "Nothing is destroyed": as long as commands run one at a time (and the clock
\* only goes forward, as it does here), what the vault held when the last
\* command started is in the vault, in vault.old or in a whole snapshot, wherever
\* the command died.
NothingDestroyed ==
    ~overlapped =>
        \/ held = {} \/ Held(vault) \/ Held(old)
        \/ \E x \in Dirs : snaps[x].whole /\ held \subseteq snaps[x].dir.notes

\* "A fresh snapshot exists before we mutate the vault": when add has decided
\* not to take one, or has taken it, a whole one of the last MaxAge seconds is
\* there, as long as no command has died and no two have overlapped.  A half
\* directory that a crash leaves looks young and stands in its way.
FreshBeforeWrite ==
    \A p \in Procs :
        pc[p] = "writing" /\ deaths = 0 /\ ~overlapped /\ vault # NoDir /\ vault.notes # {} =>
            \E x \in Dirs : snaps[x].whole /\ x.stamp + MaxAge >= loc[p].checked

\* The index lists the notes there are, in what commands read: in the vault and
\* in every whole snapshot, from when a command has written it to when a note is
\* added or lost or a half directory is restored, as long as commands run one at
\* a time.
IndexIsCurrent ==
    \A dir \in {vault} \cup {snaps[x].dir : x \in {y \in Dirs : snaps[y].whole}} :
        ~overlapped /\ dir # NoDir /\ ~dir.dirty => dir.index = dir.notes
=============================================================================
