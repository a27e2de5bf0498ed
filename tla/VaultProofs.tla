----------------------------- MODULE VaultProofs -----------------------------
(***************************************************************************)
(* What the agent memory promises, for any processes, notes and bounds, of *)
(* commands that never overlapped: that a good copy remains, that nothing  *)
(* is destroyed, that an add finds a fresh snapshot and that the index is  *)
(* right.  The first three rest on the order of the snapshot names.  The   *)
(* names of a second may have gaps, which a rotation with a small --keep   *)
(* leaves and the next snapshots fill, so the snapshot just made need not  *)
(* be the newest by name; but no .partial of its second or of a later one  *)
(* is there, and the newest name in use is that of a whole copy.           *)
(***************************************************************************)
EXTENDS MemoryVault, FiniteSetTheorems, TLAPS

\* By default rotation keeps at least as many snapshots as one second can name.
\* With fewer, the one that restore takes of what it overwrites could fill a gap,
\* sort as an old one and go.
RotationIsDeep == MaxSame < Keep

Labels == {"idle", "checking", "copying", "copied", "promoting", "rotating", "writing", "reading",
           "indexing", "staging", "staged", "clearing", "retiring", "installing", "tidying"}

Work == [note : Notes \cup {NoName}, seen : SUBSET Notes, left : SUBSET Notes,
         name : Names \cup {NoName}, src : Names \cup {NoName},
         keep : Nat, ret : {"idle", "writing", "staging"}, checked : 0 .. MaxNow]

Making(p) == pc[p] \in {"copied", "promoting"}

Copier(p) == Making(p) \/ pc[p] = "rotating"

FilesTyped ==
    /\ vault \in Dir \cup {NoDir} /\ old \in Dir \cup {NoDir} /\ restoring \in Dir \cup {NoDir}
    /\ snaps \in [Names -> Snap \cup {NoDir}]
    /\ now \in 1 .. MaxNow

\* What each place of a command says of its locals.
Placed(label, work) ==
    /\ label \in {"checking", "writing"} => work.ret = "writing"
    /\ label \in {"staging", "staged"} => work.ret = "staging"
    /\ work.ret = "writing" => work.note \in Notes
    /\ work.ret = "staging" => work.src \in Names
    /\ work.ret # "idle" => work.keep = Keep
    /\ label \in {"copied", "promoting", "rotating"} => work.name \in Names /\ work.name.partial
    /\ label \notin {"copied", "promoting", "rotating"} => work.name = NoName

ProcsTyped ==
    /\ pc \in [Procs -> Labels] /\ loc \in [Procs -> Work]
    /\ \A p \in Procs : Placed(pc[p], loc[p])

HistoryTyped ==
    /\ held \in SUBSET Notes /\ deaths \in Nat /\ issued \in Nat
    /\ overlapped \in BOOLEAN /\ latest \in Nat

VaultTyped == FilesTyped /\ ProcsTyped /\ HistoryTyped

Dest(x) == [x EXCEPT !.partial = FALSE]

-----------------------------------------------------------------------------
\* All of this is about commands that never overlapped.
Alone == \A p, q \in Procs : pc[p] # "idle" /\ pc[q] # "idle" => p = q

\* What is being copied is the vault, or the snapshot that is restored: nobody
\* changes them meanwhile.
CopyIsFaithful ==
    \A p \in Procs :
        /\ pc[p] = "copied" =>
             /\ vault # NoDir /\ loc[p].seen = vault.notes /\ loc[p].left \subseteq loc[p].seen
             /\ loc[p].name \in Dirs /\ snaps[loc[p].name].dir.notes = loc[p].seen \ loc[p].left
        /\ pc[p] = "indexing" => vault # NoDir /\ loc[p].seen = vault.notes
        /\ pc[p] = "staged" =>
             /\ restoring # NoDir /\ loc[p].src \in Dirs
             /\ loc[p].seen = snaps[loc[p].src].dir.notes /\ loc[p].left \subseteq loc[p].seen
             /\ restoring.notes = loc[p].seen \ loc[p].left

\* The index of every directory lists its notes, unless it is dirty: also of
\* those that no command reads.
Current(dir) == dir # NoDir /\ ~dir.dirty => dir.index = dir.notes

AllCurrent == /\ Current(vault) /\ Current(old) /\ Current(restoring)
              /\ \A x \in Dirs : Current(snaps[x].dir)

IndexInv == ~overlapped => Alone /\ CopyIsFaithful /\ AllCurrent

\* No name is of the future, and a .partial that a crash has left in this second
\* is that of the name the next snapshot takes.
NamesKept ==
    /\ \A x \in Dirs : x.stamp <= now
    /\ \A x \in Dirs : x.partial /\ x.stamp = now =>
         /\ Dest(x) \notin Dirs
         /\ \A n \in 0 .. x.n - 1 : [stamp |-> now, n |-> n, partial |-> FALSE] \in Dirs

\* The newest of the named snapshots is whole ...
Last(z) == ~z.partial /\ snaps[z].whole /\ \A y \in Dirs \ {z} : y.partial \/ Older(y, z)

\* ... and of the second of the last promotion, or a later one.
GoodKept == \/ latest = 0 /\ \A x \in Dirs : x.partial
            \/ \E z \in Dirs : Last(z) /\ z.stamp >= latest

\* A snapshot in the making, or just promoted, is of the last second there is,
\* and no other .partial is of that second.
GoodParts(p) ==
    /\ Copier(p) => \A y \in Dirs \ {loc[p].name} :
         y.stamp < loc[p].name.stamp \/ (y.stamp = loc[p].name.stamp /\ ~y.partial)
    /\ pc[p] = "promoting" => loc[p].name \in Dirs /\ snaps[loc[p].name].whole
    /\ pc[p] = "rotating" => loc[p].name \notin Dirs /\ latest = loc[p].name.stamp

GoodInv == ~overlapped => NamesKept /\ GoodKept /\ \A p \in Procs : GoodParts(p)

SnapHolds(x) == x \in Dirs /\ snaps[x].whole /\ held \subseteq snaps[x].dir.notes

\* What the vault held is in it until a snapshot has it, and a restore goes on
\* only when one has.
HeldSomewhere == held = {} \/ Held(vault) \/ \E x \in Dirs : SnapHolds(x)

HeldParts(p) ==
    /\ pc[p] \in {"checking", "copying"} => vault = NoDir \/ vault.notes = {} \/ held \subseteq vault.notes
    /\ Copier(p) => Held(vault)
    /\ pc[p] = "promoting" => SnapHolds(loc[p].name)
    /\ pc[p] = "rotating" /\ loc[p].ret = "staging" => SnapHolds(Dest(loc[p].name))
    /\ pc[p] \in {"staging", "staged", "clearing", "retiring", "installing", "tidying"} =>
         held = {} \/ \E x \in Dirs : SnapHolds(x)

HeldInv == ~overlapped => HeldSomewhere /\ \A p \in Procs : HeldParts(p)

\* No directory claims to be of a time that is still to come.
TimesKept ==
    /\ vault # NoDir => vault.mtime <= now
    /\ restoring # NoDir => restoring.mtime <= now
    /\ \A x \in Dirs : snaps[x].dir.mtime <= now
    /\ \A p \in Procs : loc[p].checked <= now

Fresh(p, x) == x \in Dirs /\ snaps[x].whole /\ x.stamp >= loc[p].checked

\* Without a crash every directory but the one being copied is whole and no
\* younger than its name says.
FreshIsWhole ==
    ~overlapped /\ deaths = 0 =>
        /\ \A x \in Dirs : \/ \E p \in Procs : pc[p] = "copied" /\ loc[p].name = x
                           \/ snaps[x].whole /\ snaps[x].dir.mtime <= x.stamp
        /\ \A p \in Procs :
             /\ pc[p] = "copied" => vault.mtime <= loc[p].name.stamp
             /\ Making(p) => loc[p].name \in Dirs /\ loc[p].name.stamp >= loc[p].checked
             /\ pc[p] = "rotating" => \E x \in Dirs : Fresh(p, x)
        /\ FreshBeforeWrite

FreshInv == TimesKept /\ FreshIsWhole
-----------------------------------------------------------------------------
LEMMA SuffixIsNat == MaxSame \in Nat
  BY OneDigitAssumption

USE VaultAssumption, AbsentAssumption, SuffixIsNat

LEMMA NoWorkTyped == NoWork \in Work /\ \A label \in Labels : label \notin {"checking", "writing", "staging", "staged", "copied", "promoting", "rotating"} => Placed(label, NoWork)
  BY DEF NoWork, Work, Placed

LEMMA ProcsStep ==
  ASSUME ProcsTyped, NEW p \in Procs, NEW label \in Labels, NEW work \in Work,
         Goto(p, label), Local(p, work), Placed(label, work)
  PROVE  ProcsTyped' /\ pc'[p] = label /\ loc'[p] = work
         /\ \A q \in Procs \ {p} : pc'[q] = pc[q] /\ loc'[q] = loc[q]
<1>1. pc' = [pc EXCEPT ![p] = label] /\ loc' = [loc EXCEPT ![p] = work]
  BY DEF Goto, Local
<1>2. pc' \in [Procs -> Labels] /\ loc' \in [Procs -> Work]
  BY <1>1 DEF ProcsTyped
<1>3. pc'[p] = label /\ loc'[p] = work /\ \A q \in Procs \ {p} : pc'[q] = pc[q] /\ loc'[q] = loc[q]
  BY <1>1 DEF ProcsTyped
<1> QED BY <1>2, <1>3 DEF ProcsTyped

LEMMA DoneStep ==
  ASSUME ProcsTyped, NEW p \in Procs, Done(p)
  PROVE  ProcsTyped' /\ pc'[p] = "idle" /\ loc'[p] = NoWork
         /\ \A q \in Procs \ {p} : pc'[q] = pc[q] /\ loc'[q] = loc[q]
  BY NoWorkTyped, ProcsStep DEF Done, Labels

LEMMA GotoStep ==
  ASSUME ProcsTyped, NEW p \in Procs, NEW label \in Labels, Goto(p, label), UNCHANGED loc,
         Placed(label, loc[p])
  PROVE  ProcsTyped' /\ pc'[p] = label /\ \A q \in Procs \ {p} : pc'[q] = pc[q]
<1>1. Local(p, loc[p]) /\ loc[p] \in Work
  BY DEF Local, ProcsTyped
<1> QED BY <1>1, ProcsStep

LEMMA LocalStep ==
  ASSUME ProcsTyped, NEW p \in Procs, NEW work \in Work, Local(p, work), UNCHANGED pc,
         Placed(pc[p], work)
  PROVE  ProcsTyped' /\ loc'[p] = work /\ \A q \in Procs \ {p} : loc'[q] = loc[q]
<1>1. Goto(p, pc[p]) /\ pc[p] \in Labels
  BY DEF Goto, ProcsTyped
<1> QED BY <1>1, ProcsStep

LEMMA ReturnStep ==
  ASSUME ProcsTyped, NEW p \in Procs, Return(p)
  PROVE  /\ ProcsTyped' /\ pc'[p] = loc[p].ret
         /\ loc'[p] = [loc[p] EXCEPT !.name = NoName, !.seen = {}]
         /\ \A q \in Procs \ {p} : pc'[q] = pc[q] /\ loc'[q] = loc[q]
<1> DEFINE work == [loc[p] EXCEPT !.name = NoName, !.seen = {}]
<1>1. loc[p] \in Work /\ Placed(pc[p], loc[p]) /\ loc[p].ret \in {"idle", "writing", "staging"}
  BY DEF ProcsTyped, Work
<1>2. work \in Work /\ work.name = NoName /\ work.ret = loc[p].ret /\ work.note = loc[p].note /\ work.src = loc[p].src
      /\ work.keep = loc[p].keep
  BY <1>1 DEF Work
<1> HIDE DEF work
<1>3. Placed(loc[p].ret, work)
  BY <1>1, <1>2 DEF Placed
<1>4. Goto(p, loc[p].ret) /\ Local(p, work)
  BY DEF Return, work
<1> QED BY <1>1, <1>2, <1>3, <1>4, ProcsStep DEF Labels, work

LEMMA FilesStep ==
  ASSUME FilesTyped
  PROVE  /\ \A dir \in Dir : /\ dir # NoDir /\ Touched(dir) \in Dir
                             /\ Touched(dir).notes = dir.notes /\ Touched(dir).index = dir.index
                             /\ Touched(dir).dirty = dir.dirty /\ Touched(dir).mtime = now
                             /\ \A rest \in Remains(dir) : rest \in Snap /\ rest.dir \in Dir
         /\ EmptyVault \in Dir
         /\ \A notes \in SUBSET Notes : Half(notes) \in Snap
         /\ NoDir \notin Snap
<1>1. now \in 0 .. MaxNow /\ now \in Nat
  BY DEF FilesTyped
<1>2. \A notes \in SUBSET Notes : Half(notes) \in Snap /\ Half(notes).dir \in Dir
  BY <1>1 DEF Half, Dir, Snap
<1>3. EmptyVault \in Dir
  BY <1>1 DEF EmptyVault, Dir
<1>4. ASSUME NEW dir \in Dir
      PROVE  /\ dir # NoDir /\ Touched(dir) \in Dir
             /\ Touched(dir).notes = dir.notes /\ Touched(dir).index = dir.index
             /\ Touched(dir).dirty = dir.dirty /\ Touched(dir).mtime = now
  BY <1>1 DEF Touched, Dir
<1>5. ASSUME NEW dir \in Dir, NEW rest \in Remains(dir) PROVE rest \in Snap /\ rest.dir \in Dir
  <2>1. dir.notes \in SUBSET Notes
    BY DEF Dir
  <2> QED BY <1>2, <2>1 DEF Remains
<1> QED BY <1>2, <1>3, <1>4, <1>5

LEMMA StartCopyStep ==
  ASSUME VaultTyped, NEW p \in Procs, StartCopy(p)
  PROVE  \E x \in Names :
           /\ pc[p] = "copying" /\ vault \in Dir /\ vault # NoDir /\ vault.notes # {}
           /\ x.stamp = now /\ x.partial /\ x \in Names
           /\ Dest(x) \in Names /\ snaps[Dest(x)] = NoDir
           /\ \A n \in 0 .. x.n - 1 : snaps[[stamp |-> now, n |-> n, partial |-> FALSE]] # NoDir
           /\ snaps' = [snaps EXCEPT ![x] = Half({})] /\ Half({}) \in Snap
           /\ loc'[p] = [loc[p] EXCEPT !.name = x, !.seen = vault.notes, !.left = vault.notes]
           /\ loc'[p] \in Work /\ pc'[p] = "copied" /\ ProcsTyped'
           /\ \A q \in Procs \ {p} : pc'[q] = pc[q] /\ loc'[q] = loc[q]
           /\ UNCHANGED <<vault, old, restoring, now, held, deaths, overlapped, issued, latest>>
<1>1. PICK x \in Names :
         /\ x.stamp = now /\ x.partial
         /\ snaps[Dest(x)] = NoDir
         /\ \A n \in 0 .. x.n - 1 : snaps[[stamp |-> now, n |-> n, partial |-> FALSE]] # NoDir
         /\ snaps' = [snaps EXCEPT ![x] = Half({})]
         /\ Local(p, [loc[p] EXCEPT !.name = x, !.seen = vault.notes, !.left = vault.notes])
  BY DEF StartCopy, Dest
<1>2. /\ pc[p] = "copying" /\ vault \in Dir /\ vault # NoDir /\ vault.notes # {} /\ Goto(p, "copied")
      /\ UNCHANGED <<vault, old, restoring, now, held, deaths, overlapped, issued, latest>>
  BY DEF StartCopy, VaultTyped, FilesTyped, history
<1>3. Half({}) \in Snap
  BY FilesStep DEF VaultTyped
<1> DEFINE work == [loc[p] EXCEPT !.name = x, !.seen = vault.notes, !.left = vault.notes]
<1>4. loc[p] \in Work /\ Placed("copying", loc[p]) /\ vault.notes \in SUBSET Notes
  BY <1>2 DEF VaultTyped, ProcsTyped, Dir
<1>5. /\ work \in Work /\ work.name = x /\ work.ret = loc[p].ret /\ work.note = loc[p].note
      /\ work.src = loc[p].src /\ work.keep = loc[p].keep
  BY <1>1, <1>4 DEF Work
<1> HIDE DEF work
<1>6. Placed("copied", work)
  BY <1>1, <1>4, <1>5 DEF Placed
<1>7. /\ ProcsTyped' /\ pc'[p] = "copied" /\ loc'[p] = work
      /\ \A q \in Procs \ {p} : pc'[q] = pc[q] /\ loc'[q] = loc[q]
  BY <1>1, <1>2, <1>5, <1>6, ProcsStep DEF VaultTyped, Labels, work
<1>8. Dest(x) \in Names
  BY DEF Dest, Names
<1> QED BY <1>1, <1>2, <1>3, <1>5, <1>7, <1>8 DEF work

LEMMA CopyNoteStep ==
  ASSUME VaultTyped, NEW p \in Procs, CopyNote(p)
  PROVE  LET x == loc[p].name IN
         /\ pc[p] = "copied" /\ x \in Names /\ x.partial /\ vault \in Dir /\ vault # NoDir
         /\ snaps[x] \in Snap /\ snaps[x] # NoDir
         /\ \E n \in loc[p].left \cap vault.notes :
              /\ snaps' = [snaps EXCEPT ![x] = Half(snaps[x].dir.notes \cup {n})]
              /\ Half(snaps[x].dir.notes \cup {n}) \in Snap
              /\ loc'[p] = [loc[p] EXCEPT !.left = @ \ {n}]
         /\ loc[p] \in Work /\ loc'[p] \in Work /\ ProcsTyped'
         /\ \A q \in Procs \ {p} : loc'[q] = loc[q]
         /\ UNCHANGED <<vault, old, restoring, now, pc, held, deaths, overlapped, issued, latest>>
<1> DEFINE x == loc[p].name
<1>1. pc[p] = "copied" /\ loc[p] \in Work /\ Placed(pc[p], loc[p])
  BY DEF CopyNote, VaultTyped, ProcsTyped
<1>2. x \in Names /\ x.partial
  BY <1>1 DEF Placed
<1>3. /\ snaps[x] \in Snap /\ snaps[x] # NoDir /\ vault \in Dir /\ vault # NoDir
      /\ UNCHANGED <<vault, old, restoring, now, pc, held, deaths, overlapped, issued, latest>>
  BY <1>2 DEF CopyNote, VaultTyped, FilesTyped, history
<1> HIDE DEF x
<1>4. PICK n \in loc[p].left \cap vault.notes :
         /\ snaps' = [snaps EXCEPT ![x] = Half(snaps[x].dir.notes \cup {n})]
         /\ Local(p, [loc[p] EXCEPT !.left = @ \ {n}])
  BY DEF CopyNote, x
<1>5. Half(snaps[x].dir.notes \cup {n}) \in Snap
  BY <1>1, <1>3, <1>4, FilesStep DEF VaultTyped, Snap, Dir, Work
<1> DEFINE work == [loc[p] EXCEPT !.left = @ \ {n}]
<1>6. /\ work \in Work /\ work.name = loc[p].name /\ work.ret = loc[p].ret /\ work.note = loc[p].note
      /\ work.src = loc[p].src /\ work.keep = loc[p].keep
  BY <1>1 DEF Work
<1> HIDE DEF work
<1>7. Placed(pc[p], work)
  BY <1>1, <1>6 DEF Placed
<1>8. ProcsTyped' /\ loc'[p] = work /\ \A q \in Procs \ {p} : loc'[q] = loc[q]
  BY <1>3, <1>4, <1>6, <1>7, LocalStep DEF VaultTyped, work
<1> QED BY <1>1, <1>2, <1>3, <1>4, <1>5, <1>6, <1>8 DEF work, x

LEMMA EndCopyStep ==
  ASSUME VaultTyped, NEW p \in Procs, EndCopy(p)
  PROVE  LET x    == loc[p].name
             done == [dir |-> [vault EXCEPT !.notes = snaps[x].dir.notes],
                      whole |-> loc[p].seen \subseteq snaps[x].dir.notes]
         IN /\ pc[p] = "copied" /\ x \in Names /\ x.partial /\ vault \in Dir /\ vault # NoDir
            /\ snaps[x] \in Snap /\ snaps[x] # NoDir /\ loc[p].left = {}
            /\ snaps' = [snaps EXCEPT ![x] = done] /\ done \in Snap
            /\ pc'[p] = "promoting" /\ ProcsTyped'
            /\ \A q \in Procs \ {p} : pc'[q] = pc[q]
            /\ UNCHANGED <<vault, old, restoring, now, loc, held, deaths, overlapped, issued, latest>>
<1> DEFINE x    == loc[p].name
<1> DEFINE done == [dir |-> [vault EXCEPT !.notes = snaps[x].dir.notes],
                    whole |-> loc[p].seen \subseteq snaps[x].dir.notes]
<1>1. pc[p] = "copied" /\ loc[p] \in Work /\ Placed(pc[p], loc[p])
  BY DEF EndCopy, VaultTyped, ProcsTyped
<1>2. x \in Names /\ x.partial
  BY <1>1 DEF Placed
<1>3. /\ snaps[x] \in Snap /\ snaps[x] # NoDir /\ vault \in Dir /\ vault # NoDir /\ loc[p].left = {}
      /\ UNCHANGED <<vault, old, restoring, now, loc, held, deaths, overlapped, issued, latest>>
  BY <1>2 DEF EndCopy, VaultTyped, FilesTyped, history
<1>4. snaps' = [snaps EXCEPT ![x] = done] /\ Goto(p, "promoting")
  BY DEF EndCopy
<1>5. done \in Snap
  BY <1>3 DEF Snap, Dir
<1>6. Placed("promoting", loc[p])
  BY <1>1 DEF Placed
<1>7. ProcsTyped' /\ pc'[p] = "promoting" /\ \A q \in Procs \ {p} : pc'[q] = pc[q]
  BY <1>3, <1>4, <1>6, GotoStep DEF VaultTyped, Labels
<1> QED BY <1>1, <1>2, <1>3, <1>4, <1>5, <1>7

LEMMA PromoteStep ==
  ASSUME VaultTyped, NEW p \in Procs, Promote(p)
  PROVE  LET x == loc[p].name
         IN /\ pc[p] = "promoting" /\ x \in Names /\ x.partial /\ Dest(x) \in Names /\ Dest(x) # x
            /\ snaps[x] \in Snap /\ snaps[x] # NoDir /\ snaps[Dest(x)] = NoDir
            /\ snaps' = [snaps EXCEPT ![Dest(x)] = snaps[x], ![x] = NoDir]
            /\ pc'[p] = "rotating" /\ ProcsTyped' /\ latest' = x.stamp
            /\ \A q \in Procs \ {p} : pc'[q] = pc[q]
            /\ UNCHANGED <<vault, old, restoring, now, loc, held, deaths, overlapped, issued>>
<1> DEFINE x == loc[p].name
<1>1. pc[p] = "promoting" /\ loc[p] \in Work /\ Placed(pc[p], loc[p])
  BY DEF Promote, VaultTyped, ProcsTyped
<1>2. x \in Names /\ x.partial /\ Dest(x) \in Names /\ Dest(x) # x
  BY <1>1 DEF Placed, Dest, Names
<1>3. /\ snaps[x] \in Snap /\ snaps[x] # NoDir /\ snaps[Dest(x)] = NoDir
      /\ UNCHANGED <<vault, old, restoring, now, loc, held, deaths, overlapped, issued>>
  BY <1>2 DEF Promote, VaultTyped, FilesTyped, Dest
<1>4. snaps' = [snaps EXCEPT ![Dest(x)] = snaps[x], ![x] = NoDir] /\ Goto(p, "rotating")
  BY DEF Promote, Dest
<1>8. latest' = x.stamp
  BY <1>2 DEF Promote, Names
<1>5. Placed("rotating", loc[p])
  BY <1>1 DEF Placed
<1>6. ProcsTyped' /\ pc'[p] = "rotating" /\ \A q \in Procs \ {p} : pc'[q] = pc[q]
  BY <1>3, <1>4, <1>5, GotoStep DEF VaultTyped, Labels
<1> QED BY <1>1, <1>2, <1>3, <1>4, <1>6, <1>8

LEMMA RotateStep ==
  ASSUME VaultTyped, NEW p \in Procs, Rotate(p)
  PROVE  /\ pc[p] = "rotating"
         /\ \E x \in Outdated(loc[p].keep) : x \in Names /\ x \in Dirs /\ snaps' = [snaps EXCEPT ![x] = NoDir]
         /\ UNCHANGED <<vault, old, restoring, now, pc, loc, held, deaths, overlapped, issued, latest>>
  BY DEF Rotate, Outdated, Dirs, history

LEMMA DieRotatingStep ==
  ASSUME VaultTyped, NEW p \in Procs, DieRotating(p)
  PROVE  /\ pc[p] = "rotating" /\ deaths' = deaths + 1
         /\ \E x \in Outdated(loc[p].keep), notes \in SUBSET Notes :
              x \in Names /\ x \in Dirs /\ snaps' = [snaps EXCEPT ![x] = Half(notes)] /\ Half(notes) \in Snap
         /\ ProcsTyped' /\ pc'[p] = "idle" /\ loc'[p] = NoWork
         /\ \A q \in Procs \ {p} : pc'[q] = pc[q] /\ loc'[q] = loc[q]
         /\ UNCHANGED <<vault, old, restoring, now, held, overlapped, issued, latest>>
<1>1. Done(p)
  BY DEF DieRotating, Dies
<1>2. \A notes \in SUBSET Notes : Half(notes) \in Snap
  BY FilesStep DEF VaultTyped
<1>3. PICK x \in Outdated(loc[p].keep) : \E rest \in Remains(snaps[x].dir) : snaps' = [snaps EXCEPT ![x] = rest]
  BY DEF DieRotating
<1>4. x \in Names /\ x \in Dirs /\ snaps[x].dir.notes \in SUBSET Notes
  BY DEF Outdated, Dirs, VaultTyped, FilesTyped, Snap, Dir
<1>5. PICK notes \in SUBSET Notes : snaps' = [snaps EXCEPT ![x] = Half(notes)]
  BY <1>3, <1>4 DEF Remains
<1> QED BY <1>1, <1>2, <1>4, <1>5, DoneStep DEF VaultTyped, DieRotating, Dies

\* The steps that leave every snapshot as it is.
Plain(p) == \/ CmdInit(p) \/ CmdAdd(p) \/ CmdBackup(p) \/ CmdIndex(p) \/ CmdRestore(p)
            \/ CheckAge(p) \/ NothingToCopy(p) \/ Rotated(p) \/ WriteNote(p) \/ ReadNotes(p)
            \/ WriteIndex(p) \/ StartStage(p) \/ StageNote(p) \/ EndStage(p) \/ ClearOld(p)
            \/ Retire(p) \/ Install(p) \/ Tidy(p) \/ Die(p) \/ DieClearing(p)

\* The process that acts leaves the others alone, and starts no copy.
Moves(p) ==
    /\ ProcsTyped'
    /\ \A q \in Procs \ {p} : pc'[q] = pc[q] /\ loc'[q] = loc[q]
    /\ pc'[p] \in {"copied", "promoting"} => pc'[p] = pc[p] /\ loc'[p] = loc[p]

LEMMA CommandMoves ==
  ASSUME VaultTyped, NEW p \in Procs, CmdInit(p) \/ CmdAdd(p) \/ CmdBackup(p) \/ CmdIndex(p) \/ CmdRestore(p)
  PROVE  Moves(p)
<1>0. ProcsTyped /\ pc[p] = "idle" /\ Placed(pc[p], loc[p])
  BY DEF VaultTyped, ProcsTyped, CmdInit, CmdAdd, CmdBackup, CmdIndex, CmdRestore, Started
<1>1. CASE CmdInit(p)
  BY <1>0, <1>1 DEF CmdInit, ProcsTyped, Moves
<1>2. CASE CmdAdd(p)
  <2>1. PICK n \in Notes : Local(p, [NoWork EXCEPT !.note = n, !.ret = "writing"]) /\ Goto(p, "checking")
    BY <1>2 DEF CmdAdd
  <2> DEFINE work == [NoWork EXCEPT !.note = n, !.ret = "writing"]
  <2>2. NoWork \in Work /\ NoWork.name = NoName /\ NoWork.keep = Keep
    BY NoWorkTyped DEF NoWork
  <2>3. work \in Work /\ work.note = n /\ work.ret = "writing" /\ work.name = NoName /\ work.keep = Keep
    BY <2>2 DEF Work
  <2>4. Placed("checking", work)
    BY <2>3 DEF Placed
  <2> HIDE DEF work
  <2> QED BY <1>0, <2>1, <2>3, <2>4, ProcsStep DEF Labels, Moves, work
<1>3. CASE CmdBackup(p)
  <2>0. PICK keep \in Keeps \cup {Keep} : Local(p, [NoWork EXCEPT !.keep = keep]) /\ Goto(p, "copying")
    BY <1>3 DEF CmdBackup
  <2> DEFINE work == [NoWork EXCEPT !.keep = keep]
  <2>1. work \in Work /\ Placed("copying", work)
    BY DEF NoWork, Work, Placed
  <2>2. Local(p, work) /\ Goto(p, "copying")
    BY <2>0
  <2> HIDE DEF work
  <2> QED BY <1>0, <2>1, <2>2, ProcsStep DEF Labels, Moves
<1>4. CASE CmdIndex(p)
  <2>1. Goto(p, "reading") /\ UNCHANGED loc /\ Placed("reading", loc[p])
    BY <1>0, <1>4 DEF CmdIndex, Placed
  <2> QED BY <1>0, <2>1, GotoStep DEF Labels, Moves
<1>5. CASE CmdRestore(p)
  <2>1. PICK x \in Dirs : Local(p, [NoWork EXCEPT !.src = x, !.ret = "staging"]) /\ Goto(p, "copying")
    BY <1>5 DEF CmdRestore
  <2> DEFINE work == [NoWork EXCEPT !.src = x, !.ret = "staging"]
  <2>2. x \in Names
    BY DEF Dirs
  <2>3. NoWork \in Work /\ NoWork.name = NoName /\ NoWork.keep = Keep
    BY NoWorkTyped DEF NoWork
  <2>4. work \in Work /\ work.src = x /\ work.ret = "staging" /\ work.name = NoName /\ work.keep = Keep
    BY <2>2, <2>3 DEF Work
  <2>5. Placed("copying", work)
    BY <2>2, <2>4 DEF Placed
  <2> HIDE DEF work
  <2> QED BY <1>0, <2>1, <2>4, <2>5, ProcsStep DEF Labels, Moves, work
<1> QED BY <1>1, <1>2, <1>3, <1>4, <1>5

LEMMA PlainMoves ==
  ASSUME VaultTyped, NEW p \in Procs, Plain(p)
  PROVE  Moves(p)
<1>0. ProcsTyped /\ Placed(pc[p], loc[p]) /\ loc[p] \in Work
  BY DEF VaultTyped, ProcsTyped
<1>1. ASSUME Done(p) PROVE Moves(p)
  BY <1>0, <1>1, DoneStep DEF Moves
<1>2. ASSUME Return(p) PROVE Moves(p)
  BY <1>0, <1>2, ReturnStep DEF Moves, Work
<1>3. ASSUME NEW label \in Labels, Goto(p, label), UNCHANGED loc,
             pc[p] \in {"writing", "clearing", "retiring", "installing"},
             label \in {"reading", "retiring", "installing", "tidying"}
      PROVE  Moves(p)
  <2>1. Placed(label, loc[p])
    BY <1>0, <1>3 DEF Placed
  <2> QED BY <1>0, <1>3, <2>1, GotoStep DEF Moves
<1>4. CASE CheckAge(p)
  <2> DEFINE work  == [loc[p] EXCEPT !.checked = now]
  <2> DEFINE label == IF Stale THEN "copying" ELSE "writing"
  <2>1. Goto(p, label) /\ Local(p, work) /\ pc[p] = "checking"
    BY <1>4 DEF CheckAge
  <2>2. now \in 0 .. MaxNow
    BY DEF VaultTyped, FilesTyped
  <2>3. /\ work \in Work /\ work.name = loc[p].name /\ work.ret = loc[p].ret /\ work.note = loc[p].note
        /\ work.src = loc[p].src /\ work.keep = loc[p].keep
    BY <1>0, <2>2 DEF Work
  <2>4. label \in {"copying", "writing"}
    OBVIOUS
  <2> HIDE DEF work, label
  <2>5. Placed(label, work)
    BY <1>0, <2>1, <2>3, <2>4 DEF Placed
  <2> QED BY <1>0, <2>1, <2>3, <2>4, <2>5, ProcsStep DEF Labels, Moves
<1>5. CASE ReadNotes(p)
  <2>1. CASE Done(p)
    BY <1>1, <2>1
  <2>2. CASE vault # NoDir /\ Local(p, [loc[p] EXCEPT !.seen = vault.notes]) /\ Goto(p, "indexing")
    <3> DEFINE work == [loc[p] EXCEPT !.seen = vault.notes]
    <3>1. vault.notes \in SUBSET Notes /\ pc[p] = "reading"
      BY <1>5, <2>2 DEF ReadNotes, VaultTyped, FilesTyped, Dir
    <3>2. /\ work \in Work /\ work.name = loc[p].name /\ work.ret = loc[p].ret
          /\ work.note = loc[p].note /\ work.src = loc[p].src /\ work.keep = loc[p].keep
      BY <1>0, <3>1 DEF Work
    <3> HIDE DEF work
    <3>3. Placed("indexing", work)
      BY <1>0, <3>1, <3>2 DEF Placed
    <3> QED BY <1>0, <2>2, <3>2, <3>3, ProcsStep DEF Labels, Moves, work
  <2> QED BY <1>5, <2>1, <2>2 DEF ReadNotes
<1>6. CASE EndStage(p)
  BY <1>0, <1>6, NoWorkTyped, ProcsStep DEF EndStage, Labels, Moves
<1>13. CASE StartStage(p)
  <2> DEFINE notes == snaps[loc[p].src].dir.notes
  <2> DEFINE work  == [loc[p] EXCEPT !.seen = notes, !.left = notes]
  <2>1. pc[p] = "staging" /\ Local(p, work) /\ Goto(p, "staged")
    BY <1>13 DEF StartStage
  <2>2. notes \in SUBSET Notes
    BY <1>0, <1>13 DEF StartStage, Placed, VaultTyped, FilesTyped, Snap, Dir
  <2> HIDE DEF notes
  <2>3. /\ work \in Work /\ work.name = loc[p].name /\ work.ret = loc[p].ret /\ work.note = loc[p].note
        /\ work.src = loc[p].src /\ work.keep = loc[p].keep
    BY <1>0, <2>2 DEF Work
  <2> HIDE DEF work
  <2>4. Placed("staged", work)
    BY <1>0, <2>1, <2>3 DEF Placed
  <2> QED BY <1>0, <2>1, <2>3, <2>4, ProcsStep DEF Labels, Moves
<1>14. CASE StageNote(p)
  <2>1. PICK n : Local(p, [loc[p] EXCEPT !.left = @ \ {n}])
    BY <1>14 DEF StageNote
  <2>2. pc[p] = "staged" /\ UNCHANGED pc
    BY <1>14 DEF StageNote
  <2> DEFINE work == [loc[p] EXCEPT !.left = @ \ {n}]
  <2>3. /\ work \in Work /\ work.name = loc[p].name /\ work.ret = loc[p].ret /\ work.note = loc[p].note
        /\ work.src = loc[p].src /\ work.keep = loc[p].keep
    BY <1>0 DEF Work
  <2> HIDE DEF work
  <2>4. Placed(pc[p], work)
    BY <1>0, <2>2, <2>3 DEF Placed
  <2> QED BY <1>0, <2>1, <2>2, <2>3, <2>4, LocalStep DEF Moves, work
<1>7. CASE WriteNote(p)
  BY <1>3, <1>7 DEF WriteNote, Labels
<1>8. CASE ClearOld(p)
  BY <1>3, <1>8 DEF ClearOld, Labels
<1>9. CASE Retire(p)
  BY <1>3, <1>9 DEF Retire, Labels
<1>10. CASE Install(p)
  BY <1>3, <1>10 DEF Install, Labels
<1>11. CASE NothingToCopy(p) \/ Rotated(p)
  BY <1>2, <1>11 DEF NothingToCopy, Rotated
<1>12. CASE WriteIndex(p) \/ Tidy(p) \/ Die(p) \/ DieClearing(p)
  BY <1>1, <1>12 DEF WriteIndex, Tidy, Die, DieClearing, Dies
<1> QED BY <1>4, <1>5, <1>6, <1>7, <1>8, <1>9, <1>10, <1>11, <1>12, <1>13, <1>14, CommandMoves DEF Plain

\* What the steps that write no snapshot make of the copy that restore stages ...
LEMMA RestoringAfter ==
  ASSUME VaultTyped, NEW p \in Procs, Plain(p)
  PROVE  /\ restoring' \in Dir \cup {NoDir}
         /\ \/ restoring' \in {restoring, NoDir}
            \/ restoring'.dirty = TRUE /\ restoring'.mtime = now /\ (StartStage(p) \/ StageNote(p) \/ DieClearing(p))
            \/ /\ EndStage(p) /\ loc[p].src \in Dirs /\ restoring # NoDir /\ restoring'.notes = restoring.notes
               /\ restoring'.index = snaps[loc[p].src].dir.index /\ restoring'.dirty = snaps[loc[p].src].dir.dirty
               /\ restoring'.mtime = snaps[loc[p].src].dir.mtime
<1>0. restoring \in Dir \cup {NoDir} /\ snaps \in [Names -> Snap \cup {NoDir}]
  BY DEF VaultTyped, FilesTyped
<1>1. \A notes \in SUBSET Notes : Half(notes).dir \in Dir /\ Half(notes).dir.dirty = TRUE /\ Half(notes).dir.mtime = now
  BY FilesStep DEF VaultTyped, Half, Snap
<1>2. CASE StartStage(p)
  BY <1>1, <1>2 DEF StartStage
<1>3. CASE StageNote(p)
  <2>1. restoring \in Dir /\ loc[p].left \in SUBSET Notes
    BY <1>0, <1>3 DEF StageNote, VaultTyped, ProcsTyped, Work
  <2>2. PICK n \in loc[p].left : restoring' = Half(restoring.notes \cup {n}).dir
    BY <1>3 DEF StageNote
  <2>3. restoring.notes \cup {n} \in SUBSET Notes
    BY <2>1 DEF Dir
  <2> QED BY <1>1, <1>3, <2>2, <2>3
<1>4. CASE EndStage(p)
  <2>1. loc[p].src \in Names /\ snaps[loc[p].src] # NoDir /\ restoring # NoDir
    BY <1>4 DEF EndStage, VaultTyped, ProcsTyped, Placed
  <2>2. snaps[loc[p].src].dir \in Dir /\ restoring.notes \in SUBSET Notes
    BY <1>0, <2>1 DEF Snap, Dir
  <2>3. restoring' = [snaps[loc[p].src].dir EXCEPT !.notes = restoring.notes]
    BY <1>4 DEF EndStage
  <2> QED BY <1>4, <2>1, <2>2, <2>3 DEF Dir, Dirs
<1>5. CASE DieClearing(p)
  <2>1. CASE UNCHANGED restoring
    BY <1>0, <2>1
  <2>2. CASE restoring # NoDir /\ \E rest \in Remains(restoring) : restoring' = rest.dir
    <3>1. PICK notes \in SUBSET restoring.notes : restoring' = Half(notes).dir
      BY <2>2 DEF Remains
    <3>2. notes \in SUBSET Notes
      BY <1>0, <2>2 DEF Dir
    <3> QED BY <1>1, <1>5, <3>1, <3>2
  <2> QED BY <1>5, <2>1, <2>2 DEF DieClearing
<1>6. CASE restoring' \in {restoring, NoDir}
  BY <1>0, <1>6
<1> QED BY <1>2, <1>3, <1>4, <1>5, <1>6
        DEF Plain, CmdInit, CmdAdd, CmdBackup, CmdIndex, CmdRestore, CheckAge, NothingToCopy, Rotated,
            WriteNote, ReadNotes, WriteIndex, ClearOld, Retire, Install, Tidy, Die

\* ... and of the vault it moves aside.
LEMMA OldAfter ==
  ASSUME VaultTyped, NEW p \in Procs, Plain(p)
  PROVE  old' \in {old, vault, NoDir} \/ (old' \in Dir /\ old'.dirty = TRUE)
<1>1. CASE DieClearing(p)
  <2>1. CASE UNCHANGED old
    BY <2>1
  <2>2. CASE old # NoDir /\ \E rest \in Remains(old) : old' = rest.dir
    <3>1. old \in Dir
      BY <2>2 DEF VaultTyped, FilesTyped
    <3>2. PICK notes \in SUBSET old.notes : old' = Half(notes).dir
      BY <2>2 DEF Remains
    <3>3. Half(notes) \in Snap
      BY <3>1, FilesStep DEF VaultTyped, Dir
    <3> QED BY <3>2, <3>3 DEF Half, Snap
  <2> QED BY <1>1, <2>1, <2>2 DEF DieClearing
<1>2. CASE old' \in {old, vault, NoDir}
  BY <1>2
<1> QED BY <1>1, <1>2
        DEF Plain, CmdInit, CmdAdd, CmdBackup, CmdIndex, CmdRestore, CheckAge, NothingToCopy, Rotated,
            WriteNote, ReadNotes, WriteIndex, StartStage, StageNote, EndStage, ClearOld, Retire, Install, Tidy, Die

LEMMA PlainFiles ==
  ASSUME VaultTyped, NEW p \in Procs, Plain(p)
  PROVE  FilesTyped' /\ HistoryTyped' /\ UNCHANGED <<snaps, now, latest>>
<1>1. UNCHANGED <<snaps, now, latest>>
  BY DEF Plain, CmdInit, CmdAdd, CmdBackup, CmdIndex, CmdRestore, CheckAge, NothingToCopy, Rotated,
         WriteNote, ReadNotes, WriteIndex, StartStage, StageNote, EndStage, ClearOld, Retire, Install, Tidy, Die, DieClearing, Dies,
         Started, history
<1>2. HistoryTyped'
  <2>1. CASE Started(p)
    BY <2>1, <1>1 DEF Started, VaultTyped, HistoryTyped, FilesTyped, Dir
  <2>2. CASE Dies(p)
    BY <2>2, <1>1 DEF Dies, VaultTyped, HistoryTyped
  <2>3. CASE UNCHANGED history
    BY <2>3 DEF VaultTyped, HistoryTyped, history
  <2> QED BY <2>1, <2>2, <2>3
          DEF Plain, CmdInit, CmdAdd, CmdBackup, CmdIndex, CmdRestore, CheckAge, NothingToCopy, Rotated,
              WriteNote, ReadNotes, WriteIndex, StartStage, StageNote, EndStage, ClearOld, Retire, Install, Tidy, Die, DieClearing, history
<1>3. /\ EmptyVault \in Dir
      /\ \A dir \in Dir, notes \in SUBSET Notes, dirty \in BOOLEAN :
           /\ Touched([dir EXCEPT !.notes = notes, !.dirty = dirty]) \in Dir
           /\ Touched([dir EXCEPT !.index = notes, !.dirty = dirty]) \in Dir
  <2>1. \A dir \in Dir, notes \in SUBSET Notes, dirty \in BOOLEAN :
           /\ [dir EXCEPT !.notes = notes, !.dirty = dirty] \in Dir
           /\ [dir EXCEPT !.index = notes, !.dirty = dirty] \in Dir
    BY DEF Dir
  <2> QED BY <2>1, FilesStep DEF VaultTyped
<1>4. vault' \in Dir \cup {NoDir}
  <2>1. CASE WriteNote(p)
    <3> DEFINE dir == IF vault = NoDir THEN EmptyVault ELSE vault
    <3>1. dir \in Dir /\ dir.notes \in SUBSET Notes
      BY <1>3 DEF VaultTyped, FilesTyped, Dir
    <3>2. loc[p].note \in Notes
      BY <2>1 DEF WriteNote, VaultTyped, ProcsTyped, Placed
    <3>3. vault' = Touched([dir EXCEPT !.notes = @ \cup {loc[p].note}, !.dirty = TRUE])
      BY <2>1 DEF WriteNote
    <3> HIDE DEF dir
    <3>4. vault' = Touched([dir EXCEPT !.notes = dir.notes \cup {loc[p].note}, !.dirty = TRUE])
      BY <3>1, <3>3
    <3> QED BY <1>3, <3>1, <3>2, <3>4
  <2>2. CASE WriteIndex(p)
    <3> DEFINE dir == IF vault = NoDir THEN EmptyVault ELSE vault
    <3>1. dir \in Dir /\ loc[p].seen \in SUBSET Notes
      BY <1>3 DEF VaultTyped, FilesTyped, ProcsTyped, Work
    <3>2. vault' = Touched([dir EXCEPT !.index = loc[p].seen, !.dirty = FALSE])
      BY <2>2 DEF WriteIndex
    <3> HIDE DEF dir
    <3> QED BY <1>3, <3>1, <3>2
  <2>3. CASE vault' \in {vault, restoring, NoDir, EmptyVault}
    BY <1>3, <2>3 DEF VaultTyped, FilesTyped
  <2> QED BY <2>1, <2>2, <2>3
          DEF Plain, CmdInit, CmdAdd, CmdBackup, CmdIndex, CmdRestore, CheckAge, NothingToCopy, Rotated,
              ReadNotes, StartStage, StageNote, EndStage, ClearOld, Retire, Install, Tidy, Die, DieClearing
<1>5. restoring' \in Dir \cup {NoDir}
  BY RestoringAfter
<1>6. old' \in Dir \cup {NoDir}
  BY OldAfter DEF VaultTyped, FilesTyped
<1> QED BY <1>1, <1>2, <1>4, <1>5, <1>6 DEF VaultTyped, FilesTyped

LEMMA VaultTypedInit == Init => VaultTyped
<1> SUFFICES ASSUME Init PROVE VaultTyped
  OBVIOUS
<1>1. FilesTyped
  BY DEF Init, FilesTyped
<1>2. ProcsTyped
  BY NoWorkTyped DEF Init, ProcsTyped, Labels
<1>3. HistoryTyped
  BY DEF Init, HistoryTyped
<1> QED BY <1>1, <1>2, <1>3 DEF VaultTyped

\* Every step, by what it does to the snapshots.
SnapshotStep(p) == StartCopy(p) \/ CopyNote(p) \/ EndCopy(p) \/ Promote(p) \/ Rotate(p) \/ DieRotating(p)

LEMMA StepKinds ==
  ASSUME [Next]_vars
  PROVE  \/ UNCHANGED vars \/ Tick \/ LoseNote
         \/ \E p \in Procs : Plain(p) \/ SnapshotStep(p)
  BY DEF Next, Command, Plain, SnapshotStep

LEMMA LoseNoteStep ==
  ASSUME VaultTyped, LoseNote
  PROVE  /\ vault # NoDir /\ vault \in Dir /\ \A p \in Procs : pc[p] = "idle"
         /\ \E n \in vault.notes :
              /\ vault' = Touched([vault EXCEPT !.notes = @ \ {n}, !.dirty = TRUE])
              /\ vault' \in Dir /\ vault' # NoDir /\ vault'.notes = vault.notes \ {n} /\ vault'.dirty = TRUE
              /\ vault'.mtime = now
              /\ held' = held \ {n}
         /\ UNCHANGED <<old, restoring, snaps, now, pc, loc, deaths, overlapped, issued, latest>>
<1>1. PICK n \in vault.notes : /\ vault' = Touched([vault EXCEPT !.notes = @ \ {n}, !.dirty = TRUE])
                               /\ held' = held \ {n}
  BY DEF LoseNote
<1>2. vault # NoDir /\ vault \in Dir
  BY DEF LoseNote, VaultTyped, FilesTyped
<1> DEFINE dir == [vault EXCEPT !.notes = @ \ {n}, !.dirty = TRUE]
<1>3. dir \in Dir /\ dir.notes = vault.notes \ {n} /\ dir.dirty = TRUE
  BY <1>2 DEF Dir
<1> HIDE DEF dir
<1>4. /\ Touched(dir) \in Dir /\ Touched(dir) # NoDir /\ Touched(dir).notes = dir.notes
      /\ Touched(dir).dirty = dir.dirty /\ Touched(dir).mtime = now
  BY <1>3, FilesStep DEF VaultTyped
<1>5. vault' = Touched(dir)
  BY <1>1 DEF dir
<1>6. /\ \A p \in Procs : pc[p] = "idle"
      /\ UNCHANGED <<old, restoring, snaps, now, pc, loc, deaths, overlapped, issued, latest>>
  BY DEF LoseNote
<1> QED BY <1>1, <1>2, <1>3, <1>4, <1>5, <1>6

LEMMA RankTyped ==
  ASSUME NEW x \in Names
  PROVE  /\ Rank(x) \in Nat /\ x.stamp \in Nat /\ x.n \in 0 .. MaxSame /\ x.partial \in BOOLEAN
         /\ x = [stamp |-> x.stamp, n |-> x.n, partial |-> x.partial]
         /\ ~x.partial => Rank(x) = 2 * x.n
         /\ x.partial /\ x.n # 0 => Rank(x) = 2 * x.n + 1
         /\ x.partial /\ x.n = 0 => Rank(x) = 2 * MaxSame + 2
  BY DEF Names, Rank

LEMMA VaultTypedNext == VaultTyped /\ [Next]_vars => VaultTyped'
<1> SUFFICES ASSUME VaultTyped, [Next]_vars PROVE VaultTyped'
  OBVIOUS
<1>1. CASE UNCHANGED vars
  BY <1>1 DEF vars, history, VaultTyped, FilesTyped, ProcsTyped, HistoryTyped
<1>2. CASE Tick
  BY <1>2 DEF Tick, history, VaultTyped, FilesTyped, ProcsTyped, HistoryTyped
<1>3. CASE LoseNote
  BY <1>3, LoseNoteStep DEF VaultTyped, FilesTyped, ProcsTyped, HistoryTyped
<1>4. ASSUME NEW p \in Procs, Plain(p) PROVE VaultTyped'
  BY <1>4, PlainMoves, PlainFiles DEF Moves, VaultTyped
<1>5. ASSUME NEW p \in Procs, SnapshotStep(p) PROVE VaultTyped'
  <2>1. ASSUME snaps' \in [Names -> Snap \cup {NoDir}], UNCHANGED <<vault, old, restoring, now>>
        PROVE  FilesTyped'
    BY <2>1 DEF VaultTyped, FilesTyped
  <2>2. ASSUME UNCHANGED <<held, overlapped, issued>>, deaths' \in Nat, latest' \in Nat
        PROVE  HistoryTyped'
    BY <2>2 DEF VaultTyped, HistoryTyped
  <2>3. /\ snaps \in [Names -> Snap \cup {NoDir}] /\ deaths \in Nat /\ latest \in Nat
        /\ ProcsTyped
    BY DEF VaultTyped, FilesTyped, HistoryTyped
  <2>4. CASE StartCopy(p)
    <3>1. PICK x \in Names : snaps' = [snaps EXCEPT ![x] = Half({})] /\ Half({}) \in Snap
      BY <2>4, StartCopyStep
    <3>3. snaps' \in [Names -> Snap \cup {NoDir}]
      BY <2>3, <3>1
    <3> QED BY <2>1, <2>2, <2>3, <2>4, <3>3, StartCopyStep DEF VaultTyped
  <2>5. CASE CopyNote(p)
    <3>1. snaps' \in [Names -> Snap \cup {NoDir}]
      <4>1. PICK n \in loc[p].left \cap vault.notes :
              /\ snaps' = [snaps EXCEPT ![loc[p].name] = Half(snaps[loc[p].name].dir.notes \cup {n})]
              /\ Half(snaps[loc[p].name].dir.notes \cup {n}) \in Snap
        BY <2>5, CopyNoteStep
      <4> QED BY <2>3, <4>1
    <3> QED BY <2>1, <2>2, <2>3, <2>5, <3>1, CopyNoteStep DEF VaultTyped
  <2>6. CASE EndCopy(p)
    <3>1. snaps' \in [Names -> Snap \cup {NoDir}]
      BY <2>3, <2>6, EndCopyStep
    <3> QED BY <2>1, <2>2, <2>3, <2>6, <3>1, EndCopyStep DEF VaultTyped
  <2>7. CASE Promote(p)
    <3>1. snaps' \in [Names -> Snap \cup {NoDir}] /\ latest' \in Nat
      BY <2>3, <2>7, PromoteStep, RankTyped
    <3> QED BY <2>1, <2>2, <2>3, <2>7, <3>1, PromoteStep DEF VaultTyped
  <2>8. CASE Rotate(p)
    <3>1. snaps' \in [Names -> Snap \cup {NoDir}]
      BY <2>3, <2>8, RotateStep
    <3>2. ProcsTyped'
      BY <2>3, <2>8, RotateStep DEF ProcsTyped
    <3> QED BY <2>1, <2>2, <2>3, <2>8, <3>1, <3>2, RotateStep DEF VaultTyped
  <2>9. CASE DieRotating(p)
    <3>1. snaps' \in [Names -> Snap \cup {NoDir}]
      BY <2>3, <2>9, DieRotatingStep
    <3> QED BY <2>1, <2>2, <2>3, <2>9, <3>1, DieRotatingStep DEF VaultTyped
  <2> QED BY <1>5, <2>4, <2>5, <2>6, <2>7, <2>8, <2>9 DEF SnapshotStep
<1> QED BY <1>1, <1>2, <1>3, <1>4, <1>5, StepKinds
-----------------------------------------------------------------------------
\* The order of the names, and what rotation counts.

LEMMA NamesFinite == IsFiniteSet(Names)
<1> DEFINE f == [t \in ((1 .. MaxNow) \X (0 .. MaxSame)) \X BOOLEAN |->
                   [stamp |-> t[1][1], n |-> t[1][2], partial |-> t[2]]]
<1> DEFINE triples == ((1 .. MaxNow) \X (0 .. MaxSame)) \X BOOLEAN
<1>1. IsFiniteSet(1 .. MaxNow) /\ IsFiniteSet(0 .. MaxSame)
  BY FS_Interval
<1>2. IsFiniteSet(BOOLEAN)
  <2>1. IsFiniteSet({TRUE})
    BY FS_Singleton, Zenon
  <2>2. IsFiniteSet({TRUE} \cup {FALSE})
    BY <2>1, FS_AddElement, Zenon
  <2>3. BOOLEAN = {TRUE} \cup {FALSE}
    OBVIOUS
  <2> QED BY <2>2, <2>3
<1>3. IsFiniteSet(triples)
  BY <1>1, <1>2, FS_Product
<1>4. f \in Surjection(triples, Names)
  <2>1. f \in [triples -> Names]
    BY DEF Names
  <2>2. ASSUME NEW x \in Names PROVE \E t \in triples : f[t] = x
    <3>1. x.stamp \in 1 .. MaxNow /\ x.n \in 0 .. MaxSame /\ x.partial \in BOOLEAN
          /\ x = [stamp |-> x.stamp, n |-> x.n, partial |-> x.partial]
      BY DEF Names
    <3> DEFINE t == <<<<x.stamp, x.n>>, x.partial>>
    <3>2. t \in triples
      BY <3>1
    <3>3. f[t] = [stamp |-> t[1][1], n |-> t[1][2], partial |-> t[2]]
      BY <3>2
    <3> QED BY <3>1, <3>2, <3>3
  <2> HIDE DEF f, triples
  <2> QED BY <2>1, <2>2 DEF Surjection
<1> HIDE DEF f, triples
<1> QED BY <1>3, <1>4, FS_Surjection

LEMMA SameName ==
  ASSUME NEW x \in Names, NEW y \in Names, x.stamp = y.stamp, x.n = y.n, x.partial = y.partial
  PROVE  x = y
  BY RankTyped

LEMMA OlderOrder ==
  ASSUME NEW x \in Names, NEW y \in Names, NEW z \in Names
  PROVE  /\ ~Older(x, x)
         /\ Older(x, y) /\ Older(y, z) => Older(x, z)
         /\ Older(x, y) => ~Older(y, x)
  BY RankTyped DEF Older

LEMMA DestTyped ==
  ASSUME NEW x \in Names
  PROVE  /\ Dest(x) \in Names /\ Dest(x).stamp = x.stamp /\ Dest(x).n = x.n /\ ~Dest(x).partial
         /\ Dest(x) = [stamp |-> x.stamp, n |-> x.n, partial |-> FALSE]
         /\ x.partial => Older(Dest(x), x)
         /\ ~x.partial => Dest(x) = x
<1>1. /\ Dest(x) \in Names /\ Dest(x).stamp = x.stamp /\ Dest(x).n = x.n /\ ~Dest(x).partial
      /\ Dest(x).partial = FALSE
  BY DEF Dest, Names
<1>2. x.partial => Older(Dest(x), x)
  BY <1>1, RankTyped DEF Older
<1>3. ~x.partial => Dest(x) = x
  BY <1>1, RankTyped, SameName
<1> QED BY <1>1, <1>2, <1>3, RankTyped

LEMMA NewerFinite ==
  ASSUME NEW x
  PROVE  Newer(x) \subseteq Names /\ IsFiniteSet(Newer(x)) /\ Cardinality(Newer(x)) \in Nat
<1>1. Newer(x) \subseteq Names
  BY DEF Newer, Dirs
<1> QED BY <1>1, NamesFinite, FS_Subset, FS_CardinalityType

\* The directories there are after a step.
LEMMA DirsAfter ==
  ASSUME VaultTyped, NEW p \in Procs
  PROVE  /\ UNCHANGED snaps => Dirs' = Dirs
         /\ CopyNote(p) \/ EndCopy(p) \/ DieRotating(p) => Dirs' = Dirs
         /\ Promote(p) => /\ loc[p].name \in Dirs /\ Dest(loc[p].name) \notin Dirs
                          /\ Dirs' = (Dirs \ {loc[p].name}) \cup {Dest(loc[p].name)}
<1>1. snaps \in [Names -> Snap \cup {NoDir}]
  BY DEF VaultTyped, FilesTyped
<1>2. UNCHANGED snaps => Dirs' = Dirs
  BY DEF Dirs
<1>3. ASSUME NEW x \in Names, NEW snap \in Snap, snaps[x] # NoDir, snaps' = [snaps EXCEPT ![x] = snap]
      PROVE  Dirs' = Dirs
  BY <1>1, <1>3 DEF Dirs
<1>4. CopyNote(p) => Dirs' = Dirs
  <2>1. SUFFICES ASSUME CopyNote(p) PROVE Dirs' = Dirs
    OBVIOUS
  <2>2. loc[p].name \in Names /\ snaps[loc[p].name] # NoDir
    BY <2>1, CopyNoteStep
  <2>3. PICK n : /\ snaps' = [snaps EXCEPT ![loc[p].name] = Half(snaps[loc[p].name].dir.notes \cup {n})]
                 /\ Half(snaps[loc[p].name].dir.notes \cup {n}) \in Snap
    BY <2>1, CopyNoteStep
  <2> QED BY <1>3, <2>2, <2>3
<1>5. EndCopy(p) => Dirs' = Dirs
  BY <1>3, EndCopyStep
<1>6. DieRotating(p) => Dirs' = Dirs
  <2>1. SUFFICES ASSUME DieRotating(p) PROVE Dirs' = Dirs
    OBVIOUS
  <2>2. PICK x \in Names, notes \in SUBSET Notes :
          x \in Dirs /\ snaps' = [snaps EXCEPT ![x] = Half(notes)] /\ Half(notes) \in Snap
    BY <2>1, DieRotatingStep
  <2> QED BY <1>3, <2>2 DEF Dirs
<1>7. Promote(p) => /\ loc[p].name \in Dirs /\ Dest(loc[p].name) \notin Dirs
                    /\ Dirs' = (Dirs \ {loc[p].name}) \cup {Dest(loc[p].name)}
  <2> SUFFICES ASSUME Promote(p)
               PROVE  /\ loc[p].name \in Dirs /\ Dest(loc[p].name) \notin Dirs
                      /\ Dirs' = (Dirs \ {loc[p].name}) \cup {Dest(loc[p].name)}
    OBVIOUS
  <2> DEFINE x == loc[p].name
  <2>1. /\ x \in Names /\ Dest(x) \in Names /\ Dest(x) # x
        /\ snaps[x] \in Snap /\ snaps[x] # NoDir /\ snaps[Dest(x)] = NoDir
        /\ snaps' = [snaps EXCEPT ![Dest(x)] = snaps[x], ![x] = NoDir]
    BY PromoteStep
  <2> HIDE DEF x
  <2>2. \A y \in Names : snaps'[y] = IF y = x THEN NoDir ELSE IF y = Dest(x) THEN snaps[x] ELSE snaps[y]
    BY <1>1, <2>1
  <2>3. x \in Dirs /\ Dest(x) \notin Dirs /\ Dirs' = (Dirs \ {x}) \cup {Dest(x)}
    BY <1>1, <2>1, <2>2 DEF Dirs
  <2> QED BY <2>3 DEF x
<1> QED BY <1>2, <1>4, <1>5, <1>6, <1>7

\* The step that makes a .partial, and the one that removes a directory.
LEMMA DirsStarted ==
  ASSUME VaultTyped, NEW x \in Names, NEW snap \in Snap, snaps' = [snaps EXCEPT ![x] = snap]
  PROVE  Dirs' = Dirs \cup {x} /\ snaps'[x] = snap /\ \A y \in Names \ {x} : snaps'[y] = snaps[y]
<1>1. snaps \in [Names -> Snap \cup {NoDir}]
  BY DEF VaultTyped, FilesTyped
<1> QED BY <1>1, FilesStep DEF Dirs, VaultTyped

LEMMA DirsRemoved ==
  ASSUME VaultTyped, NEW x \in Names, snaps' = [snaps EXCEPT ![x] = NoDir]
  PROVE  Dirs' = Dirs \ {x} /\ \A y \in Names \ {x} : snaps'[y] = snaps[y]
<1>1. snaps \in [Names -> Snap \cup {NoDir}]
  BY DEF VaultTyped, FilesTyped
<1> QED BY <1>1 DEF Dirs

\* The newest directory is never outdated.
LEMMA NewestStays ==
  ASSUME NEW x \in Dirs, Newer(x) = {}, NEW keep \in Nat
  PROVE  x \notin Outdated(keep)
<1>1. Cardinality({}) = 0
  BY FS_EmptySet
<1>2. Cardinality(Newer(x)) = 0
  BY <1>1, Zenon
<1> QED BY <1>2 DEF Outdated

\* By default, no named snapshot of the last second is outdated.
LEMMA CurrentStays ==
  ASSUME RotationIsDeep, VaultTyped, NEW x \in Dirs, ~x.partial,
         \A y \in Dirs : y.stamp < x.stamp \/ (y.stamp = x.stamp /\ ~y.partial)
  PROVE  x \notin Outdated(Keep)
<1>1. x \in Names /\ x.n \in 0 .. MaxSame
  BY RankTyped DEF Dirs
<1>2. \A y \in Newer(x) : y \in Names /\ y.stamp = x.stamp /\ ~y.partial /\ y # x
  <2> SUFFICES ASSUME NEW y \in Newer(x) PROVE y \in Names /\ y.stamp = x.stamp /\ ~y.partial /\ y # x
    OBVIOUS
  <2>1. y \in Dirs /\ y \in Names /\ Older(x, y)
    BY DEF Newer, Dirs
  <2> QED BY <1>1, <2>1, OlderOrder, RankTyped DEF Older
<1> DEFINE free == (0 .. MaxSame) \ {x.n}
<1> DEFINE f == [y \in Newer(x) |-> y.n]
<1>3. \A y \in Newer(x) : y.n \in free
  BY <1>1, <1>2, SameName, RankTyped
<1>4. \A y, z \in Newer(x) : y.n = z.n => y = z
  BY <1>2, SameName, RankTyped
<1>5. f \in Injection(Newer(x), free)
  <2>1. f \in [Newer(x) -> free]
    BY <1>3
  <2>2. \A y, z \in Newer(x) : f[y] = f[z] => y = z
    BY <1>4
  <2> HIDE DEF f, free
  <2> QED BY <2>1, <2>2 DEF Injection, IsInjective
<1>6. IsFiniteSet(free) /\ Cardinality(free) = MaxSame
  <2>0. MaxSame \in Nat
    BY OneDigitAssumption
  <2>1. IsFiniteSet(0 .. MaxSame) /\ Cardinality(0 .. MaxSame) = MaxSame + 1
    <3>1. \A m \in Nat : IsFiniteSet(0 .. m) /\ Cardinality(0 .. m) = m + 1
      BY FS_Interval
    <3> QED BY <2>0, <3>1, Zenon
  <2>2. \A S : IsFiniteSet(S) => \A n \in S : IsFiniteSet(S \ {n}) /\ Cardinality(S \ {n}) = Cardinality(S) - 1
    BY FS_RemoveElement
  <2>3. IsFiniteSet(free) /\ Cardinality(free) = Cardinality(0 .. MaxSame) - 1
    BY <1>1, <2>1, <2>2, Zenon
  <2> HIDE DEF free
  <2> QED BY <2>0, <2>1, <2>3
<1> HIDE DEF f, free
<1>7. Cardinality(Newer(x)) <= MaxSame
  BY <1>5, <1>6, FS_Injection
<1>8. Cardinality(Newer(x)) \in Nat
  BY NewerFinite
<1> QED BY <1>7, <1>8, OneDigitAssumption DEF Outdated, RotationIsDeep
-----------------------------------------------------------------------------
\* Commands that never overlapped: who acts is the only one that is not idle.

Commands(p) == CmdInit(p) \/ CmdAdd(p) \/ CmdBackup(p) \/ CmdIndex(p) \/ CmdRestore(p)

LEMMA Starting ==
  ASSUME NEW p \in Procs, Commands(p)
  PROVE  /\ pc[p] = "idle" /\ Started(p) /\ UNCHANGED <<old, restoring, snaps, now>>
         /\ vault' = vault \/ (vault = NoDir /\ vault' = EmptyVault)
<1>1. CASE CmdInit(p)
  BY <1>1 DEF CmdInit, Started
<1>2. CASE CmdAdd(p)
  BY <1>2 DEF CmdAdd, Started
<1>3. CASE CmdBackup(p) \/ CmdIndex(p) \/ CmdRestore(p)
  BY <1>3 DEF CmdBackup, CmdIndex, CmdRestore, Started
<1> QED BY <1>1, <1>2, <1>3 DEF Commands

LEMMA Running ==
  ASSUME VaultTyped, NEW p \in Procs, Plain(p) \/ SnapshotStep(p), ~Commands(p)
  PROVE  pc[p] # "idle" /\ UNCHANGED <<held, overlapped>>
<1>1. CASE CheckAge(p) \/ NothingToCopy(p) \/ Rotated(p) \/ WriteNote(p) \/ ReadNotes(p) \/ WriteIndex(p)
  BY <1>1 DEF CheckAge, NothingToCopy, Rotated, WriteNote, ReadNotes, WriteIndex, history
<1>2. CASE \/ StartStage(p) \/ StageNote(p) \/ EndStage(p) \/ ClearOld(p) \/ Retire(p) \/ Install(p)
           \/ Tidy(p) \/ Die(p) \/ DieClearing(p)
  BY <1>2 DEF StartStage, StageNote, EndStage, ClearOld, Retire, Install, Tidy, Die, DieClearing, Dies, history
<1>3. CASE SnapshotStep(p)
  BY <1>3 DEF SnapshotStep, StartCopy, CopyNote, EndCopy, Promote, Rotate, DieRotating, Dies, history
<1> QED BY <1>1, <1>2, <1>3 DEF Plain, Commands

LEMMA SoleActor ==
  ASSUME VaultTyped, ~overlapped => Alone, ~overlapped', NEW p \in Procs, Plain(p) \/ SnapshotStep(p)
  PROVE  /\ ~overlapped /\ Alone'
         /\ \A q \in Procs \ {p} : /\ pc[q] = "idle" /\ pc'[q] = "idle" /\ loc'[q] = loc[q]
                                   /\ loc[q].name = NoName
<1>1. \A q \in Procs \ {p} : pc'[q] = pc[q] /\ loc'[q] = loc[q]
  BY PlainMoves, StartCopyStep, CopyNoteStep, EndCopyStep, PromoteStep, RotateStep, DieRotatingStep
     DEF SnapshotStep, Moves
<1>2. ~overlapped /\ \A q \in Procs \ {p} : pc[q] = "idle"
  <2>1. CASE Commands(p)
    BY <2>1, Starting DEF Started
  <2>2. CASE ~Commands(p)
    BY <2>2, Running DEF Alone
  <2> QED BY <2>1, <2>2
<1>3. \A q \in Procs \ {p} : loc[q].name = NoName
  BY <1>2 DEF VaultTyped, ProcsTyped, Placed
<1>4. Alone'
  BY <1>1, <1>2 DEF Alone
<1> QED BY <1>1, <1>2, <1>3, <1>4

\* What the steps that write the vault make of it.
LEMMA VaultAfter ==
  ASSUME VaultTyped, NEW p \in Procs, Plain(p)
  PROVE  \/ UNCHANGED vault
         \/ vault = NoDir /\ vault' = EmptyVault /\ (CmdInit(p) \/ CmdAdd(p))
         \/ vault' # NoDir /\ vault'.dirty = TRUE /\ WriteNote(p) /\ vault'.mtime = now
            /\ vault'.notes = (IF vault = NoDir THEN {} ELSE vault.notes) \cup {loc[p].note}
         \/ vault' # NoDir /\ WriteIndex(p) /\ vault'.index = loc[p].seen /\ vault'.mtime = now
            /\ vault'.notes = (IF vault = NoDir THEN {} ELSE vault.notes)
         \/ vault' = NoDir /\ Retire(p)
         \/ vault' = restoring /\ Install(p)
<1> DEFINE dir == IF vault = NoDir THEN EmptyVault ELSE vault
<1>1. dir \in Dir /\ dir.notes = (IF vault = NoDir THEN {} ELSE vault.notes)
  BY FilesStep DEF VaultTyped, FilesTyped, EmptyVault
<1>2. CASE WriteNote(p)
  <2> DEFINE new == [dir EXCEPT !.notes = @ \cup {loc[p].note}, !.dirty = TRUE]
  <2>1. vault' = Touched(new)
    BY <1>2 DEF WriteNote
  <2>2. loc[p].note \in Notes /\ dir.notes \in SUBSET Notes
    BY <1>1, <1>2 DEF WriteNote, VaultTyped, ProcsTyped, Placed, Dir
  <2> HIDE DEF dir
  <2>3. new \in Dir /\ new.notes = dir.notes \cup {loc[p].note} /\ new.dirty = TRUE
    BY <1>1, <2>2 DEF Dir
  <2> HIDE DEF new
  <2> QED BY <1>1, <1>2, <2>1, <2>3, FilesStep DEF VaultTyped
<1>3. CASE WriteIndex(p)
  <2> DEFINE new == [dir EXCEPT !.index = loc[p].seen, !.dirty = FALSE]
  <2>1. vault' = Touched(new)
    BY <1>3 DEF WriteIndex
  <2>2. loc[p].seen \in SUBSET Notes
    BY DEF VaultTyped, ProcsTyped, Work
  <2> HIDE DEF dir
  <2>3. new \in Dir /\ new.notes = dir.notes /\ new.index = loc[p].seen
    BY <1>1, <2>2 DEF Dir
  <2> HIDE DEF new
  <2> QED BY <1>1, <1>3, <2>1, <2>3, FilesStep DEF VaultTyped
<1>4. CASE UNCHANGED vault
  BY <1>4
<1>5. CASE CmdInit(p) \/ CmdAdd(p)
  BY <1>5 DEF CmdInit, CmdAdd
<1>6. CASE Retire(p) \/ Install(p)
  BY <1>6 DEF Retire, Install
<1> QED BY <1>2, <1>3, <1>4, <1>5, <1>6
        DEF Plain, CmdBackup, CmdIndex, CmdRestore, CheckAge, NothingToCopy, Rotated, ReadNotes, StartStage,
            StageNote, EndStage, ClearOld, Tidy, Die, DieClearing

LEMMA CurrentStart ==
  ASSUME FilesTyped
  PROVE  Current(NoDir) /\ Current(EmptyVault) /\ \A notes : Current(Half(notes).dir)
  BY DEF Current, EmptyVault, Half

LEMMA CurrentVault ==
  ASSUME VaultTyped, CopyIsFaithful, AllCurrent, NEW p \in Procs, Plain(p)
  PROVE  AllCurrent'
<1>1. snaps' = snaps /\ Dirs' = Dirs
  BY PlainFiles, DirsAfter
<1>2. \A dir : Current(dir)' <=> Current(dir)
  BY DEF Current
<1>3. Current(vault')
  <2>1. CASE WriteIndex(p)
    <3>1. pc[p] = "indexing"
      BY <2>1 DEF WriteIndex
    <3>2. vault # NoDir /\ loc[p].seen = vault.notes
      BY <3>1 DEF CopyIsFaithful
    <3> QED BY <2>1, <3>2, VaultAfter DEF WriteIndex, WriteNote, CmdInit, CmdAdd, Retire, Install, Started, Current, AllCurrent
  <2>2. CASE ~WriteIndex(p)
    <3>1. Current(vault) /\ Current(restoring) /\ Current(NoDir) /\ Current(EmptyVault)
      BY CurrentStart DEF VaultTyped, AllCurrent
    <3>2. vault' \in {vault, EmptyVault, NoDir, restoring} \/ vault'.dirty = TRUE
      BY <2>2, VaultAfter
    <3>3. vault'.dirty = TRUE => Current(vault')
      BY DEF Current
    <3> QED BY <3>1, <3>2, <3>3
  <2> QED BY <2>1, <2>2
<1>4. Current(old')
  <2>1. old' \in {old, vault, NoDir} \/ old'.dirty = TRUE
    BY OldAfter
  <2>2. CASE old' \in {old, vault, NoDir}
    BY <2>2, CurrentStart DEF VaultTyped, AllCurrent
  <2>3. CASE old'.dirty = TRUE
    BY <2>3 DEF Current
  <2> QED BY <2>1, <2>2, <2>3
<1>5. Current(restoring')
  <2>1. CASE restoring' \in {restoring, NoDir}
    BY <2>1, CurrentStart DEF VaultTyped, AllCurrent
  <2>2. CASE restoring'.dirty = TRUE
    BY <2>2 DEF Current
  <2>3. CASE /\ EndStage(p) /\ loc[p].src \in Dirs /\ restoring'.notes = restoring.notes
             /\ restoring'.index = snaps[loc[p].src].dir.index
             /\ restoring'.dirty = snaps[loc[p].src].dir.dirty
    <3>1. pc[p] = "staged" /\ loc[p].left = {}
      BY <2>3 DEF EndStage
    <3>2. restoring.notes = snaps[loc[p].src].dir.notes
      BY <3>1 DEF CopyIsFaithful
    <3>3. Current(snaps[loc[p].src].dir) /\ snaps[loc[p].src].dir # NoDir
      <4>1. snaps[loc[p].src].dir \in Dir
        BY <2>3 DEF Dirs, VaultTyped, FilesTyped, Snap
      <4> QED BY <2>3, <4>1, FilesStep DEF AllCurrent, VaultTyped
    <3> QED BY <2>3, <3>2, <3>3 DEF Current
  <2> QED BY <2>1, <2>2, <2>3, RestoringAfter
<1> QED BY <1>1, <1>3, <1>4, <1>5 DEF AllCurrent, Current

LEMMA CurrentSnaps ==
  ASSUME VaultTyped, CopyIsFaithful, AllCurrent, NEW p \in Procs, SnapshotStep(p)
  PROVE  AllCurrent'
<1>0. snaps \in [Names -> Snap \cup {NoDir}] /\ Dirs \subseteq Names
  BY DEF VaultTyped, FilesTyped, Dirs
<1>1. UNCHANGED <<vault, old, restoring>>
  BY StartCopyStep, CopyNoteStep, EndCopyStep, PromoteStep, RotateStep, DieRotatingStep DEF SnapshotStep
<1>2. ASSUME NEW x \in Names, NEW snap \in Snap, Current(snap.dir), snaps' = [snaps EXCEPT ![x] = snap]
      PROVE  \A y \in Dirs' : Current(snaps'[y].dir)
  <2>1. Dirs' = Dirs \cup {x} /\ snaps'[x] = snap /\ \A y \in Names \ {x} : snaps'[y] = snaps[y]
    BY <1>2, DirsStarted
  <2>2. \A y \in Dirs : Current(snaps[y].dir)
    BY DEF AllCurrent
  <2>3. ASSUME NEW y \in Dirs' PROVE Current(snaps'[y].dir)
    <3>1. CASE y = x
      BY <1>2, <2>1, <3>1
    <3>2. CASE y # x
      <4>1. snaps'[y] = snaps[y] /\ y \in Dirs
        BY <1>0, <2>1, <3>2
      <4> QED BY <2>2, <4>1
    <3> QED BY <3>1, <3>2
  <2> QED BY <2>3
<1>3. \A y \in Dirs' : Current(snaps'[y].dir)
  <2>1. CASE StartCopy(p)
    <3>1. PICK x \in Names : snaps' = [snaps EXCEPT ![x] = Half({})] /\ Half({}) \in Snap
      BY <2>1, StartCopyStep
    <3> QED BY <1>2, <3>1, CurrentStart DEF VaultTyped
  <2>2. CASE CopyNote(p)
    <3>1. PICK n : /\ snaps' = [snaps EXCEPT ![loc[p].name] = Half(snaps[loc[p].name].dir.notes \cup {n})]
                   /\ Half(snaps[loc[p].name].dir.notes \cup {n}) \in Snap /\ loc[p].name \in Names
      BY <2>2, CopyNoteStep
    <3> QED BY <1>2, <3>1, CurrentStart DEF VaultTyped
  <2>3. CASE EndCopy(p)
    <3> DEFINE x    == loc[p].name
    <3> DEFINE done == [dir |-> [vault EXCEPT !.notes = snaps[x].dir.notes],
                        whole |-> loc[p].seen \subseteq snaps[x].dir.notes]
    <3>1. /\ pc[p] = "copied" /\ x \in Names /\ loc[p].left = {} /\ vault \in Dir
          /\ snaps' = [snaps EXCEPT ![x] = done] /\ done \in Snap
      BY <2>3, EndCopyStep
    <3>2. snaps[x].dir.notes = vault.notes
      BY <3>1 DEF CopyIsFaithful
    <3>3. /\ done.dir.notes = vault.notes /\ done.dir.index = vault.index /\ done.dir.dirty = vault.dirty
      BY <3>1, <3>2 DEF Dir
    <3> HIDE DEF done
    <3>4. Current(done.dir)
      BY <3>1, <3>3, FilesStep DEF AllCurrent, Current, VaultTyped
    <3> QED BY <1>2, <3>1, <3>4
  <2>4. CASE Promote(p)
    <3>1. PICK x, d : x = loc[p].name /\ d = Dest(x)
      OBVIOUS
    <3>2. /\ x \in Names /\ d \in Names /\ d # x /\ snaps' = [snaps EXCEPT ![d] = snaps[x], ![x] = NoDir]
          /\ x \in Dirs /\ Dirs' = (Dirs \ {x}) \cup {d}
      BY <2>4, <3>1, PromoteStep, DirsAfter
    <3> QED BY <1>0, <3>2 DEF AllCurrent
  <2>5. CASE Rotate(p)
    <3>1. PICK x \in Names : snaps' = [snaps EXCEPT ![x] = NoDir]
      BY <2>5, RotateStep
    <3> QED BY <1>0, <3>1, DirsRemoved DEF AllCurrent
  <2>6. CASE DieRotating(p)
    <3>1. PICK x \in Names, notes \in SUBSET Notes : snaps' = [snaps EXCEPT ![x] = Half(notes)] /\ Half(notes) \in Snap
      BY <2>6, DieRotatingStep
    <3> QED BY <1>2, <3>1, CurrentStart DEF VaultTyped
  <2> QED BY <2>1, <2>2, <2>3, <2>4, <2>5, <2>6 DEF SnapshotStep
<1> QED BY <1>1, <1>3 DEF AllCurrent, Current

\* Where the steps that write no snapshot come from and lead to.
LEMMA PlainLabels ==
  ASSUME VaultTyped, NEW p \in Procs, Plain(p)
  PROVE  \/ CmdInit(p) /\ pc[p] = "idle" /\ pc'[p] = "idle"
         \/ CmdAdd(p) /\ pc[p] = "idle" /\ pc'[p] = "checking"
         \/ (CmdBackup(p) \/ CmdRestore(p)) /\ pc[p] = "idle" /\ pc'[p] = "copying"
         \/ CmdIndex(p) /\ pc[p] = "idle" /\ pc'[p] = "reading"
         \/ CheckAge(p) /\ pc[p] = "checking" /\ pc'[p] = (IF Stale THEN "copying" ELSE "writing")
         \/ NothingToCopy(p) /\ pc[p] = "copying" /\ pc'[p] = loc[p].ret
         \/ Rotated(p) /\ pc[p] = "rotating" /\ pc'[p] = loc[p].ret
         \/ WriteNote(p) /\ pc[p] = "writing" /\ pc'[p] = "reading"
         \/ ReadNotes(p) /\ pc[p] = "reading" /\ pc'[p] = "indexing" /\ vault # NoDir /\ loc'[p].seen = vault.notes
         \/ (ReadNotes(p) \/ WriteIndex(p) \/ Tidy(p) \/ Die(p) \/ DieClearing(p)) /\ pc'[p] = "idle"
         \/ StartStage(p) /\ pc[p] = "staging" /\ pc'[p] = "staged"
         \/ StageNote(p) /\ pc[p] = "staged" /\ pc'[p] = "staged"
         \/ EndStage(p) /\ pc[p] = "staged" /\ pc'[p] = "clearing"
         \/ ClearOld(p) /\ pc[p] = "clearing" /\ pc'[p] \in {"retiring", "installing"}
         \/ Retire(p) /\ pc[p] = "retiring" /\ pc'[p] = "installing"
         \/ Install(p) /\ pc[p] = "installing" /\ pc'[p] = "tidying"
<1>0. pc \in [Procs -> Labels] /\ loc \in [Procs -> Work]
  BY DEF VaultTyped, ProcsTyped
<1>1. CASE CmdInit(p) \/ CmdAdd(p) \/ CmdBackup(p) \/ CmdRestore(p) \/ CmdIndex(p)
  BY <1>0, <1>1 DEF CmdInit, CmdAdd, CmdBackup, CmdRestore, CmdIndex, Started, Goto
<1>2. CASE CheckAge(p)
  BY <1>0, <1>2 DEF CheckAge, Goto
<1>3. CASE NothingToCopy(p) \/ Rotated(p)
  BY <1>0, <1>3 DEF NothingToCopy, Rotated, Return, Goto
<1>4. CASE ReadNotes(p)
  <2>1. CASE Done(p)
    BY <1>0, <1>4, <2>1 DEF Done, Goto
  <2>2. CASE vault # NoDir /\ Local(p, [loc[p] EXCEPT !.seen = vault.notes]) /\ Goto(p, "indexing")
    <3>1. pc'[p] = "indexing" /\ loc'[p] = [loc[p] EXCEPT !.seen = vault.notes] /\ loc[p] \in Work
      BY <1>0, <2>2 DEF Goto, Local
    <3>2. loc'[p].seen = vault.notes
      BY <3>1 DEF Work
    <3>3. pc[p] = "reading"
      BY <1>4 DEF ReadNotes
    <3> QED BY <1>4, <2>2, <3>1, <3>2, <3>3
  <2> QED BY <1>4, <2>1, <2>2 DEF ReadNotes
<1>5. CASE WriteIndex(p) \/ Tidy(p) \/ Die(p) \/ DieClearing(p)
  BY <1>0, <1>5 DEF WriteIndex, Tidy, Die, DieClearing, Dies, Done, Goto
<1>6. CASE WriteNote(p) \/ StartStage(p) \/ StageNote(p) \/ EndStage(p) \/ ClearOld(p) \/ Retire(p) \/ Install(p)
  BY <1>0, <1>6 DEF WriteNote, StartStage, StageNote, EndStage, ClearOld, Retire, Install, Goto
<1> QED BY <1>1, <1>2, <1>3, <1>4, <1>5, <1>6 DEF Plain

\* What is being staged has the notes that were copied so far.
StagedParts(p) ==
    pc[p] = "staged" =>
        /\ restoring # NoDir /\ loc[p].src \in Dirs
        /\ loc[p].seen = snaps[loc[p].src].dir.notes /\ loc[p].left \subseteq loc[p].seen
        /\ restoring.notes = loc[p].seen \ loc[p].left

LEMMA StagedNext ==
  ASSUME VaultTyped, NEW p \in Procs, Plain(p), StagedParts(p)
  PROVE  StagedParts(p)'
<1>0. /\ loc \in [Procs -> Work] /\ loc[p].ret \in {"idle", "writing", "staging"} /\ NoDir \notin Dir
      /\ snaps' = snaps /\ Dirs' = Dirs
  BY PlainFiles, DirsAfter DEF VaultTyped, ProcsTyped, Work
<1>1. \A notes \in SUBSET Notes : /\ Half(notes).dir \in Dir
                                /\ Half(notes).dir.notes = notes
  BY FilesStep DEF Half, Snap, VaultTyped
<1>2. CASE StartStage(p)
  <2>1. loc[p].src \in Dirs /\ snaps[loc[p].src].dir.notes \in SUBSET Notes
    BY <1>2 DEF StartStage, Dirs, VaultTyped, ProcsTyped, Placed, FilesTyped, Snap, Dir
  <2> DEFINE notes == snaps[loc[p].src].dir.notes
  <2>2. restoring' = Half({}).dir /\ loc'[p] = [loc[p] EXCEPT !.seen = notes, !.left = notes]
    BY <1>0, <1>2 DEF StartStage, Local
  <2> HIDE DEF notes
  <2>3. loc'[p].seen = notes /\ loc'[p].left = notes /\ loc'[p].src = loc[p].src
    BY <1>0, <2>2 DEF Work
  <2>4. restoring' # NoDir /\ restoring'.notes = {}
    BY <1>0, <1>1, <2>2
  <2> QED BY <1>0, <2>1, <2>3, <2>4 DEF StagedParts, notes
<1>3. CASE StageNote(p)
  <2>1. PICK n \in loc[p].left :
          /\ restoring' = Half(restoring.notes \cup {n}).dir
          /\ Local(p, [loc[p] EXCEPT !.left = @ \ {n}])
    BY <1>3 DEF StageNote
  <2>2. loc'[p].seen = loc[p].seen /\ loc'[p].left = loc[p].left \ {n} /\ loc'[p].src = loc[p].src
    BY <1>0, <2>1 DEF Local, Work
  <2>3. pc[p] = "staged" /\ loc[p].left \in SUBSET Notes /\ restoring.notes \in SUBSET Notes
    BY <1>0, <1>3 DEF StageNote, VaultTyped, FilesTyped, Work, Dir
  <2>4. restoring' # NoDir /\ restoring'.notes = restoring.notes \cup {n}
    BY <1>0, <1>1, <2>1, <2>3
  <2> QED BY <1>0, <2>1, <2>2, <2>3, <2>4 DEF StagedParts
<1>4. CASE pc'[p] # "staged"
  BY <1>4 DEF StagedParts
<1> QED BY <1>0, <1>2, <1>3, <1>4, PlainLabels

LEMMA FaithfulNext ==
  ASSUME VaultTyped, ~overlapped => Alone /\ CopyIsFaithful, ~overlapped', NEW p \in Procs,
         Plain(p) \/ SnapshotStep(p)
  PROVE  CopyIsFaithful'
<1>1. /\ ~overlapped /\ CopyIsFaithful
      /\ \A q \in Procs \ {p} : pc'[q] = "idle"
  BY SoleActor
<1>7. StagedParts(p)'
  <2>1. CASE Plain(p)
    BY <1>1, <2>1, StagedNext DEF CopyIsFaithful, StagedParts
  <2>2. CASE SnapshotStep(p)
    <3>1. pc'[p] # "staged"
      BY <2>2, StartCopyStep, CopyNoteStep, EndCopyStep, PromoteStep, RotateStep, DieRotatingStep DEF SnapshotStep
    <3> QED BY <3>1 DEF StagedParts
  <2> QED BY <2>1, <2>2
<1> SUFFICES ASSUME TRUE
             PROVE  /\ pc'[p] = "copied" =>
                         /\ vault' # NoDir /\ loc'[p].seen = vault'.notes /\ loc'[p].left \subseteq loc'[p].seen
                         /\ loc'[p].name \in Dirs' /\ snaps'[loc'[p].name].dir.notes = loc'[p].seen \ loc'[p].left
                    /\ pc'[p] = "indexing" => vault' # NoDir /\ loc'[p].seen = vault'.notes
  BY <1>1, <1>7 DEF CopyIsFaithful, StagedParts
<1>0. loc[p] \in Work
  BY DEF VaultTyped, ProcsTyped
<1>2. CASE Plain(p)
  <2>1. pc'[p] # "copied"
    BY <1>2, <1>0, PlainLabels DEF Work
  <2>2. pc'[p] = "indexing" => ReadNotes(p) /\ vault # NoDir /\ loc'[p].seen = vault.notes
    BY <1>2, <1>0, PlainLabels DEF Work
  <2> QED BY <2>1, <2>2 DEF ReadNotes
<1>3. CASE StartCopy(p)
  <2>1. PICK x \in Names :
          /\ snaps' = [snaps EXCEPT ![x] = Half({})] /\ Half({}) \in Snap
          /\ loc'[p] = [loc[p] EXCEPT !.name = x, !.seen = vault.notes, !.left = vault.notes]
          /\ pc'[p] = "copied" /\ vault' = vault /\ vault # NoDir
    BY <1>3, StartCopyStep
  <2>2. Dirs' = Dirs \cup {x} /\ snaps'[x] = Half({})
    BY <2>1, DirsStarted
  <2>3. loc'[p].name = x /\ loc'[p].seen = vault.notes /\ loc'[p].left = vault.notes
    BY <1>0, <2>1 DEF Work
  <2>4. Half({}).dir.notes = {}
    BY DEF Half
  <2> QED BY <2>1, <2>2, <2>3, <2>4
<1>4. CASE CopyNote(p)
  <2>0. PICK x : x = loc[p].name
    OBVIOUS
  <2>1. PICK n \in loc[p].left \cap vault.notes :
          /\ snaps' = [snaps EXCEPT ![x] = Half(snaps[x].dir.notes \cup {n})]
          /\ Half(snaps[x].dir.notes \cup {n}) \in Snap /\ x \in Names
          /\ loc'[p] = [loc[p] EXCEPT !.left = @ \ {n}]
    BY <1>4, <2>0, CopyNoteStep
  <2>2. pc[p] = "copied" /\ vault' = vault /\ pc' = pc
    BY <1>4, CopyNoteStep
  <2>3. loc'[p].name = x /\ loc'[p].seen = loc[p].seen /\ loc'[p].left = loc[p].left \ {n}
    BY <1>0, <2>0, <2>1 DEF Work
  <2>4. Dirs' = Dirs \cup {x} /\ snaps'[x] = Half(snaps[x].dir.notes \cup {n})
    BY <2>1, DirsStarted
  <2>5. snaps'[x].dir.notes = snaps[x].dir.notes \cup {n}
    BY <2>4 DEF Half
  <2>6. /\ vault # NoDir /\ loc[p].seen = vault.notes /\ loc[p].left \subseteq loc[p].seen
        /\ snaps[x].dir.notes = loc[p].seen \ loc[p].left
    BY <1>1, <2>0, <2>2 DEF CopyIsFaithful
  <2> QED BY <2>1, <2>2, <2>3, <2>4, <2>5, <2>6
<1>5. CASE EndCopy(p) \/ Promote(p) \/ Rotate(p) \/ DieRotating(p)
  BY <1>5, EndCopyStep, PromoteStep, RotateStep, DieRotatingStep
<1> QED BY <1>2, <1>3, <1>4, <1>5 DEF SnapshotStep

\* Everything that is proved of commands that never overlapped rests on this.
LEMMA IndexInvNext ==
  ASSUME VaultTyped, IndexInv, [Next]_vars
  PROVE  IndexInv'
<1> SUFFICES ASSUME ~overlapped' PROVE Alone' /\ CopyIsFaithful' /\ AllCurrent'
  BY DEF IndexInv
<1>0. ~overlapped => Alone /\ CopyIsFaithful /\ AllCurrent
  BY DEF IndexInv
<1>1. CASE UNCHANGED vars
  BY <1>0, <1>1 DEF vars, history, Alone, CopyIsFaithful, AllCurrent, Current, Dirs
<1>2. CASE Tick
  BY <1>0, <1>2 DEF Tick, history, Alone, CopyIsFaithful, AllCurrent, Current, Dirs
<1>3. CASE LoseNote
  <2>1. /\ vault'.dirty = TRUE /\ UNCHANGED <<old, restoring, snaps, pc, loc, overlapped>>
        /\ \A p \in Procs : pc[p] = "idle"
    BY <1>3, LoseNoteStep
  <2>2. Alone' /\ CopyIsFaithful'
    BY <2>1 DEF Alone, CopyIsFaithful
  <2>3. AllCurrent'
    BY <1>0, <2>1 DEF AllCurrent, Current, Dirs
  <2> QED BY <2>2, <2>3
<1>4. ASSUME NEW p \in Procs, Plain(p) \/ SnapshotStep(p) PROVE Alone' /\ CopyIsFaithful' /\ AllCurrent'
  BY <1>0, <1>4, SoleActor, FaithfulNext, CurrentVault, CurrentSnaps
<1> QED BY <1>1, <1>2, <1>3, <1>4, StepKinds

\* The index of the vault and of every whole snapshot lists the notes there are,
\* unless a note was added or lost since it was written or a half directory was
\* restored: README's promise for an index that is rebuilt from the notes, for
\* commands that never overlapped, wherever they died.
THEOREM VaultIndexIsCurrent == Spec => []IndexIsCurrent
<1> DEFINE Inv == VaultTyped /\ IndexInv
<1>1. Init => Inv
  <2> SUFFICES ASSUME Init PROVE Inv
    OBVIOUS
  <2>1. Dirs = {} /\ Alone /\ CopyIsFaithful
    BY DEF Init, Dirs, Alone, CopyIsFaithful
  <2>2. AllCurrent
    BY <2>1 DEF Init, AllCurrent, Current
  <2> QED BY <2>1, <2>2, VaultTypedInit DEF IndexInv
<1>2. Inv /\ [Next]_vars => Inv'
  BY VaultTypedNext, IndexInvNext
<1>3. Inv => IndexIsCurrent
  BY DEF IndexInv, IndexIsCurrent, AllCurrent, Current
<1> HIDE DEF Inv
<1> QED BY <1>1, <1>2, <1>3, PTL DEF Spec
-----------------------------------------------------------------------------
\* A free name of this second, under which a .partial may be made: any other
\* .partial of this second would be that very one.
LEMMA OnlyPartial ==
  ASSUME VaultTyped, NamesKept, NEW x \in Names, x.stamp = now, x.partial, Dest(x) \notin Dirs,
         \A n \in 0 .. x.n - 1 : [stamp |-> now, n |-> n, partial |-> FALSE] \in Dirs,
         NEW y \in Dirs, y.partial, y.stamp = now
  PROVE  y = x
<1>1. y \in Names /\ y.n \in Nat /\ x.n \in Nat
  BY RankTyped DEF Dirs
<1>2. /\ Dest(x) = [stamp |-> now, n |-> x.n, partial |-> FALSE]
      /\ Dest(y) = [stamp |-> now, n |-> y.n, partial |-> FALSE]
  <2>1. /\ Dest(x) = [stamp |-> x.stamp, n |-> x.n, partial |-> FALSE]
        /\ Dest(y) = [stamp |-> y.stamp, n |-> y.n, partial |-> FALSE]
    BY <1>1, DestTyped
  <2> QED BY <2>1
<1>3. Dest(y) \notin Dirs /\ \A n \in 0 .. y.n - 1 : [stamp |-> now, n |-> n, partial |-> FALSE] \in Dirs
  BY DEF NamesKept
<1>4. ~(y.n < x.n)
  <2> SUFFICES ASSUME y.n < x.n PROVE FALSE
    OBVIOUS
  <2>1. y.n \in 0 .. x.n - 1
    BY <1>1
  <2> QED BY <1>2, <1>3, <2>1
<1>5. ~(x.n < y.n)
  <2> SUFFICES ASSUME x.n < y.n PROVE FALSE
    OBVIOUS
  <2>1. x.n \in 0 .. y.n - 1
    BY <1>1
  <2> QED BY <1>2, <1>3, <2>1
<1>6. y.n = x.n
  BY <1>1, <1>4, <1>5
<1>7. y.partial = x.partial
  BY <1>1, RankTyped
<1> QED BY <1>1, <1>6, <1>7, SameName

LEMMA GoodPlain ==
  ASSUME VaultTyped, NamesKept, GoodKept, NEW p \in Procs, Plain(p)
  PROVE  NamesKept' /\ GoodKept' /\ GoodParts(p)'
<1>1. UNCHANGED <<snaps, now, latest>> /\ Dirs' = Dirs /\ loc[p] \in Work
  BY PlainFiles, DirsAfter DEF VaultTyped, ProcsTyped
<1>2. NamesKept' /\ GoodKept'
  BY <1>1 DEF NamesKept, GoodKept, Last
<1>3. pc'[p] \notin {"copied", "promoting", "rotating"}
  BY <1>1, PlainLabels DEF Work
<1> QED BY <1>2, <1>3 DEF GoodParts, Copier, Making

\* While a snapshot is rotated in, the newest whole one is the newest directory.
LEMMA LastIsNewest ==
  ASSUME VaultTyped, GoodKept, NEW p \in Procs, GoodParts(p), pc[p] = "rotating"
  PROVE  \E z \in Dirs : Last(z) /\ z.stamp >= latest /\ Newer(z) = {}
<1>0. loc[p].name \in Names /\ Dirs \subseteq Names
  BY DEF VaultTyped, ProcsTyped, Placed, Dirs
<1>1. latest = loc[p].name.stamp /\ latest \in Nat /\ latest # 0
  BY <1>0 DEF GoodParts, Names
<1>2. PICK z \in Dirs : Last(z) /\ z.stamp >= latest
  BY <1>1 DEF GoodKept
<1>3. ASSUME NEW y \in Dirs PROVE ~Older(z, y)
  <2>0. y \in Names /\ z \in Names /\ y.stamp \in Nat /\ z.stamp \in Nat
    BY <1>0, RankTyped
  <2>1. CASE y = z
    BY <2>0, <2>1, OlderOrder
  <2>2. CASE y # z /\ y.partial
    <3>1. y # loc[p].name
      BY DEF GoodParts
    <3>2. y.stamp < loc[p].name.stamp
      BY <2>2, <3>1 DEF GoodParts, Copier
    <3>3. y.stamp < z.stamp
      BY <1>1, <1>2, <2>0, <3>2
    <3> QED BY <2>0, <3>3 DEF Older
  <2>3. CASE y # z /\ ~y.partial
    <3>1. Older(y, z)
      BY <1>2, <2>3 DEF Last
    <3> QED BY <2>0, <3>1, OlderOrder
  <2> QED BY <2>1, <2>2, <2>3
<1> QED BY <1>2, <1>3 DEF Newer

LEMMA GoodSnaps ==
  ASSUME VaultTyped, CopyIsFaithful, NamesKept, GoodKept, NEW p \in Procs, GoodParts(p), SnapshotStep(p)
  PROVE  NamesKept' /\ GoodKept' /\ GoodParts(p)'
<1>0. /\ loc[p] \in Work /\ Dirs \subseteq Names /\ snaps \in [Names -> Snap \cup {NoDir}] /\ now \in Nat
      /\ now' = now /\ \A y \in Names : y.stamp \in Nat /\ y.n \in Nat /\ y.partial \in BOOLEAN
      /\ latest \in Nat
  <2>1. now' = now
    BY StartCopyStep, CopyNoteStep, EndCopyStep, PromoteStep, RotateStep, DieRotatingStep
       DEF SnapshotStep
  <2>2. \A y \in Names : y.stamp \in Nat /\ y.n \in Nat /\ y.partial \in BOOLEAN
    BY RankTyped
  <2> QED BY <2>1, <2>2 DEF VaultTyped, ProcsTyped, FilesTyped, HistoryTyped, Dirs
\* A copy changes nothing but its own .partial.
<1>1. ASSUME NEW x \in Names, x.partial, \A y \in Dirs \ {x} : snaps'[y] = snaps[y] /\ y \in Dirs',
             \A y \in Dirs' \ {x} : y \in Dirs, latest' = latest
      PROVE  GoodKept'
  <2>1. CASE latest = 0 /\ \A y \in Dirs : y.partial
    BY <1>0, <1>1, <2>1 DEF GoodKept
  <2>2. ASSUME NEW z \in Dirs, Last(z), z.stamp >= latest PROVE GoodKept'
    <3>1. z # x
      BY <1>1, <2>2 DEF Last
    <3>2. z \in Dirs' /\ snaps'[z].whole
      BY <1>1, <2>2, <3>1 DEF Last
    <3>3. Last(z)'
      BY <1>1, <2>2, <3>2 DEF Last
    <3> QED BY <1>1, <2>2, <3>2, <3>3 DEF GoodKept
  <2> QED BY <2>1, <2>2 DEF GoodKept
<1>2. CASE StartCopy(p)
  <2>1. PICK x \in Names :
          /\ x.stamp = now /\ x.partial /\ Dest(x) \in Names /\ snaps[Dest(x)] = NoDir
          /\ \A n \in 0 .. x.n - 1 : snaps[[stamp |-> now, n |-> n, partial |-> FALSE]] # NoDir
          /\ snaps' = [snaps EXCEPT ![x] = Half({})] /\ Half({}) \in Snap
          /\ loc'[p] = [loc[p] EXCEPT !.name = x, !.seen = vault.notes, !.left = vault.notes]
          /\ pc'[p] = "copied" /\ latest' = latest
    BY <1>2, StartCopyStep
  <2>2. /\ Dirs' = Dirs \cup {x} /\ Dest(x) \notin Dirs /\ loc'[p].name = x
        /\ \A y \in Names \ {x} : snaps'[y] = snaps[y]
    <3>1. Dirs' = Dirs \cup {x} /\ \A y \in Names \ {x} : snaps'[y] = snaps[y]
      BY <2>1, DirsStarted
    <3>2. loc'[p].name = x
      BY <1>0, <2>1 DEF Work
    <3> QED BY <2>1, <3>1, <3>2 DEF Dirs
  <2>3. \A n \in 0 .. x.n - 1 : [stamp |-> now, n |-> n, partial |-> FALSE] \in Dirs
    <3> SUFFICES ASSUME NEW n \in 0 .. x.n - 1 PROVE [stamp |-> now, n |-> n, partial |-> FALSE] \in Names
      BY <2>1 DEF Dirs
    <3>1. n \in 0 .. MaxSame /\ now \in 1 .. MaxNow
      BY OneDigitAssumption, RankTyped DEF VaultTyped, FilesTyped
    <3> QED BY <3>1 DEF Names
  <2>4. \A y \in Dirs : y.partial /\ y.stamp = now => y = x
    BY <2>1, <2>2, <2>3, OnlyPartial
  <2>5. NamesKept'
    <3>1. \A y \in Dirs' : y.stamp <= now'
      BY <1>0, <2>1, <2>2 DEF NamesKept
    <3>2. Dest(x) \notin Dirs'
      BY <1>0, <2>1, <2>2, DestTyped
    <3>3. \A y \in Dirs' : y.partial /\ y.stamp = now' => y = x
      BY <1>0, <2>2, <2>4
    <3> QED BY <1>0, <2>2, <2>3, <3>1, <3>2, <3>3 DEF NamesKept
  <2>6. GoodKept'
    BY <1>0, <1>1, <2>1, <2>2
  <2>7. \A y \in Dirs' \ {x} : y.stamp < x.stamp \/ (y.stamp = x.stamp /\ ~y.partial)
    BY <1>0, <2>1, <2>2, <2>4 DEF NamesKept
  <2> QED BY <2>1, <2>2, <2>5, <2>6, <2>7 DEF GoodParts, Copier, Making
<1>3. CASE CopyNote(p) \/ EndCopy(p)
  <2>0. PICK x : x = loc[p].name
    OBVIOUS
  <2>1. PICK snap \in Snap : snaps' = [snaps EXCEPT ![x] = snap] /\ x \in Names /\ x.partial
    BY <1>3, <2>0, CopyNoteStep, EndCopyStep
  <2>2. Dirs' = Dirs /\ \A y \in Names \ {x} : snaps'[y] = snaps[y]
    BY <1>3, <2>1, DirsStarted, DirsAfter
  <2>3. latest' = latest /\ pc[p] = "copied" /\ pc'[p] \in {"copied", "promoting"}
    BY <1>3, CopyNoteStep, EndCopyStep
  <2>4. loc'[p].name = x
    <3>1. CASE CopyNote(p)
      <4>1. \E n : loc'[p] = [loc[p] EXCEPT !.left = @ \ {n}]
        BY <3>1, CopyNoteStep
      <4> QED BY <1>0, <2>0, <4>1 DEF Work
    <3>2. CASE EndCopy(p)
      BY <2>0, <3>2, EndCopyStep
    <3> QED BY <1>3, <3>1, <3>2
  <2>5. NamesKept' /\ GoodKept'
    <3>1. GoodKept'
      BY <1>0, <1>1, <2>1, <2>2, <2>3
    <3>2. NamesKept'
      BY <1>0, <2>2 DEF NamesKept
    <3> QED BY <3>1, <3>2
  <2>6. pc'[p] = "promoting" => x \in Dirs' /\ snaps'[x].whole
    <3> SUFFICES ASSUME EndCopy(p) PROVE x \in Dirs' /\ snaps'[x].whole
      BY <1>3, <2>3, CopyNoteStep
    <3> DEFINE done == [dir |-> [vault EXCEPT !.notes = snaps[x].dir.notes],
                        whole |-> loc[p].seen \subseteq snaps[x].dir.notes]
    <3>1. snaps' = [snaps EXCEPT ![x] = done] /\ loc[p].left = {} /\ done \in Snap
      BY <2>0, EndCopyStep
    <3>2. x \in Dirs /\ snaps[x].dir.notes = loc[p].seen
      BY <2>0, <2>3, <3>1 DEF CopyIsFaithful
    <3>3. done.whole = TRUE
      BY <3>2
    <3> HIDE DEF done
    <3>4. snaps'[x] = done
      BY <2>1, <3>1, DirsStarted
    <3> QED BY <2>2, <3>2, <3>3, <3>4
  <2>7. \A y \in Dirs' \ {x} : y.stamp < x.stamp \/ (y.stamp = x.stamp /\ ~y.partial)
    BY <2>0, <2>2, <2>3 DEF GoodParts, Copier, Making
  <2> QED BY <2>3, <2>4, <2>5, <2>6, <2>7 DEF GoodParts, Copier, Making
<1>4. CASE Promote(p)
  <2>1. PICK x, d : x = loc[p].name /\ d = Dest(x)
    OBVIOUS
  <2>2. /\ x \in Names /\ x.partial /\ d \in Names /\ d # x
        /\ snaps' = [snaps EXCEPT ![d] = snaps[x], ![x] = NoDir]
        /\ x \in Dirs /\ d \notin Dirs /\ Dirs' = (Dirs \ {x}) \cup {d}
        /\ pc[p] = "promoting" /\ pc'[p] = "rotating" /\ loc' = loc /\ latest' = x.stamp
    BY <1>4, <2>1, PromoteStep, DirsAfter
  <2>3. d.stamp = x.stamp /\ ~d.partial /\ x.stamp <= now
    BY <2>1, <2>2, DestTyped DEF NamesKept
  <2>4. snaps'[d] = snaps[x] /\ \A y \in Dirs \ {x} : snaps'[y] = snaps[y]
    BY <1>0, <2>2
  <2>5. snaps'[d].whole
    BY <2>1, <2>2, <2>4 DEF GoodParts
  <2>6. \A y \in Dirs \ {x} : y.stamp < x.stamp \/ (y.stamp = x.stamp /\ ~y.partial)
    BY <2>1, <2>2 DEF GoodParts, Copier, Making
  <2>7. NamesKept'
    <3>1. \A y \in Dirs' : y.stamp <= now'
      BY <1>0, <2>2, <2>3 DEF NamesKept
    <3>2. \A y \in Dirs' : y.partial => y.stamp # now'
      BY <1>0, <2>2, <2>3, <2>6
    <3> QED BY <3>1, <3>2 DEF NamesKept
  <2>8. GoodKept'
    <3>1. ASSUME \A y \in Dirs \ {x} : y.partial \/ Older(y, d) PROVE GoodKept'
      <4>1. Last(d)'
        BY <2>2, <2>3, <2>5, <3>1 DEF Last
      <4>2. d.stamp >= latest'
        BY <1>0, <2>2, <2>3
      <4> QED BY <2>2, <4>1, <4>2 DEF GoodKept
    <3>2. ASSUME NEW z \in Dirs, Last(z), ~Older(z, d) PROVE GoodKept'
      <4>1. z # x /\ z # d /\ z \in Names
        BY <1>0, <2>2, <3>2 DEF Last
      <4>2. Older(d, z) /\ z.stamp >= x.stamp
        <5>1. z.stamp = d.stamp /\ ~z.partial
          BY <1>0, <2>2, <2>3, <2>6, <3>2, <4>1 DEF Older
        <5>2. z.n # d.n
          BY <1>0, <2>2, <2>3, <4>1, <5>1, SameName
        <5>3. Rank(z) = 2 * z.n /\ Rank(d) = 2 * d.n /\ z.n \in Nat /\ d.n \in Nat
          BY <2>2, <2>3, <4>1, <5>1, RankTyped
        <5>4. Rank(d) < Rank(z)
          BY <3>2, <5>1, <5>2, <5>3 DEF Older
        <5>5. z.stamp \in Nat
          BY <1>0, <4>1
        <5> QED BY <2>3, <5>1, <5>4, <5>5 DEF Older
      <4>3. Last(z)'
        BY <2>2, <2>4, <3>2, <4>1, <4>2 DEF Last
      <4> QED BY <2>2, <3>2, <4>1, <4>2, <4>3 DEF GoodKept
    <3>3. ASSUME NEW z \in Dirs, Last(z), Older(z, d) PROVE \A y \in Dirs \ {x} : y.partial \/ Older(y, d)
      BY <1>0, <2>2, <3>3, OlderOrder DEF Last
    <3> QED BY <3>1, <3>2, <3>3 DEF GoodKept
  <2>9. x \notin Dirs' /\ \A y \in Dirs' : y.stamp < x.stamp \/ (y.stamp = x.stamp /\ ~y.partial)
    BY <2>2, <2>3, <2>6
  <2> QED BY <2>1, <2>2, <2>7, <2>8, <2>9 DEF GoodParts, Copier, Making
<1>5. CASE Rotate(p) \/ DieRotating(p)
  <2>1. pc[p] = "rotating" /\ latest' = latest
    BY <1>5, RotateStep, DieRotatingStep
  <2>2. PICK z \in Dirs : Last(z) /\ z.stamp >= latest /\ Newer(z) = {}
    BY <2>1, LastIsNewest
  <2>3. Dirs' \subseteq Dirs /\ z \in Dirs' /\ snaps'[z] = snaps[z]
    <3>1. CASE Rotate(p)
      <4>1. PICK d \in Outdated(loc[p].keep) : d \in Names /\ snaps' = [snaps EXCEPT ![d] = NoDir]
        BY <3>1, RotateStep
      <4>2. Dirs' = Dirs \ {d} /\ \A y \in Names \ {d} : snaps'[y] = snaps[y]
        BY <4>1, DirsRemoved
      <4>3. loc[p].keep \in Nat
        BY <1>0 DEF Work
      <4> QED BY <1>0, <2>2, <4>1, <4>2, <4>3, NewestStays
    <3>2. CASE DieRotating(p)
      <4>1. PICK d \in Outdated(loc[p].keep), notes \in SUBSET Notes :
              d \in Names /\ snaps' = [snaps EXCEPT ![d] = Half(notes)]
        BY <3>2, DieRotatingStep
      <4>2. Dirs' = Dirs
        BY <3>2, DirsAfter
      <4>3. loc[p].keep \in Nat
        BY <1>0 DEF Work
      <4> QED BY <1>0, <2>2, <4>1, <4>2, <4>3, NewestStays
    <3> QED BY <1>5, <3>1, <3>2
  <2>4. GoodKept'
    <3>1. Last(z)'
      BY <2>2, <2>3 DEF Last
    <3> QED BY <2>1, <2>2, <2>3, <3>1 DEF GoodKept
  <2>5. NamesKept'
    <3>1. \A y \in Dirs : y.partial => y.stamp # now
      <4> SUFFICES ASSUME NEW y \in Dirs, y.partial, y.stamp = now PROVE FALSE
        OBVIOUS
      <4>1. y # loc[p].name /\ latest = loc[p].name.stamp
        BY <2>1 DEF GoodParts
      <4>2. y.stamp < latest
        BY <2>1, <4>1 DEF GoodParts, Copier
      <4>3. z.stamp <= now /\ z.stamp \in Nat
        BY <1>0 DEF NamesKept
      <4> QED BY <1>0, <2>2, <4>2, <4>3
    <3> QED BY <1>0, <2>3, <3>1 DEF NamesKept
  <2>6. GoodParts(p)'
    <3>1. CASE Rotate(p)
      <4>1. pc' = pc /\ loc' = loc
        BY <3>1, RotateStep
      <4> QED BY <2>1, <2>3, <4>1 DEF GoodParts, Copier, Making
    <3>2. CASE DieRotating(p)
      BY <3>2, DieRotatingStep DEF GoodParts, Copier, Making
    <3> QED BY <1>5, <3>1, <3>2
  <2> QED BY <2>4, <2>5, <2>6
<1> QED BY <1>2, <1>3, <1>4, <1>5 DEF SnapshotStep

LEMMA GoodInvNext ==
  ASSUME VaultTyped, IndexInv, GoodInv, [Next]_vars
  PROVE  GoodInv'
<1> SUFFICES ASSUME ~overlapped' PROVE NamesKept' /\ GoodKept' /\ \A p \in Procs : GoodParts(p)'
  BY DEF GoodInv
<1>0. ~overlapped => /\ NamesKept /\ GoodKept /\ \A p \in Procs : GoodParts(p)
                     /\ Alone /\ CopyIsFaithful
  BY DEF GoodInv, IndexInv
<1>1. ASSUME UNCHANGED <<snaps, pc, loc, latest, overlapped>>, now' = now
      PROVE  NamesKept' /\ GoodKept' /\ \A p \in Procs : GoodParts(p)'
  BY <1>0, <1>1 DEF NamesKept, GoodKept, Last, GoodParts, Copier, Making, Dirs
<1>2. CASE UNCHANGED vars
  BY <1>1, <1>2 DEF vars, history
<1>3. CASE Tick
  <2>1. now' = now + 1 /\ UNCHANGED <<snaps, pc, loc, latest, overlapped>> /\ Dirs' = Dirs
    BY <1>3 DEF Tick, history, Dirs
  <2>2. now \in Nat /\ \A x \in Dirs : x.stamp \in Nat
    BY RankTyped DEF VaultTyped, FilesTyped, Dirs
  <2>3. NamesKept'
    BY <1>0, <2>1, <2>2 DEF NamesKept
  <2> QED BY <1>0, <2>1, <2>3 DEF GoodKept, Last, GoodParts, Copier, Making
<1>4. CASE LoseNote
  BY <1>1, <1>4, LoseNoteStep
<1>5. ASSUME NEW p \in Procs, Plain(p) \/ SnapshotStep(p)
      PROVE  NamesKept' /\ GoodKept' /\ \A q \in Procs : GoodParts(q)'
  <2>1. ~overlapped /\ \A q \in Procs \ {p} : pc'[q] = "idle"
    BY <1>0, <1>5, SoleActor
  <2>2. NamesKept' /\ GoodKept' /\ GoodParts(p)'
    BY <1>0, <1>5, <2>1, GoodPlain, GoodSnaps
  <2>3. \A q \in Procs \ {p} : GoodParts(q)'
    BY <2>1 DEF GoodParts, Copier, Making
  <2> QED BY <2>2, <2>3
<1> QED BY <1>2, <1>3, <1>4, <1>5, StepKinds

LEMMA GoodInvInit == Init => IndexInv /\ GoodInv
<1> SUFFICES ASSUME Init PROVE IndexInv /\ GoodInv
  OBVIOUS
<1>1. Dirs = {} /\ \A p \in Procs : pc[p] = "idle"
  BY DEF Init, Dirs
<1>2. AllCurrent /\ Alone /\ CopyIsFaithful
  BY <1>1 DEF Init, AllCurrent, Current, Alone, CopyIsFaithful
<1>3. NamesKept /\ GoodKept /\ \A p \in Procs : GoodParts(p)
  BY <1>1 DEF Init, NamesKept, GoodKept, GoodParts, Copier, Making
<1> QED BY <1>2, <1>3 DEF IndexInv, GoodInv

\* Once a snapshot was taken, a whole one of its second or a later one is there
\* under its name, whatever --keep each rotation was given and wherever a command
\* died in a copy or a removal: the docstring's "can always be restored from the
\* last good copy", for commands that never overlapped.
THEOREM VaultGoodCopyRemains == Spec => []GoodCopyRemains
<1> DEFINE Inv == VaultTyped /\ IndexInv /\ GoodInv
<1>1. Init => Inv
  BY VaultTypedInit, GoodInvInit
<1>2. Inv /\ [Next]_vars => Inv'
  BY VaultTypedNext, IndexInvNext, GoodInvNext
<1>3. Inv => GoodCopyRemains
  BY DEF GoodInv, GoodKept, Last, GoodCopyRemains
<1> HIDE DEF Inv
<1> QED BY <1>1, <1>2, <1>3, PTL DEF Spec
-----------------------------------------------------------------------------
LEMMA HeldCommands ==
  ASSUME VaultTyped, HeldSomewhere, NEW p \in Procs, Commands(p)
  PROVE  HeldSomewhere' /\ HeldParts(p)'
<1>1. /\ Started(p) /\ UNCHANGED <<old, restoring, snaps, now>>
      /\ vault' = vault \/ (vault = NoDir /\ vault' = EmptyVault)
  BY Starting
<1>2. Dirs' = Dirs /\ held' = IF vault = NoDir THEN held ELSE vault.notes
  BY <1>1 DEF Dirs, Started
<1>3. EmptyVault # NoDir /\ EmptyVault.notes = {}
  BY FilesStep DEF VaultTyped, EmptyVault
<1>4. HeldSomewhere'
  <2>1. CASE vault = NoDir
    <3>1. held' = held /\ (held = {} \/ \E x \in Dirs : SnapHolds(x))
      BY <1>2, <2>1 DEF HeldSomewhere, Held
    <3> QED BY <1>1, <1>2, <3>1 DEF HeldSomewhere, SnapHolds
  <2>2. CASE vault # NoDir
    BY <1>1, <1>2, <2>2 DEF HeldSomewhere, Held
  <2> QED BY <2>1, <2>2
<1>5. pc'[p] \in {"idle", "checking", "copying", "reading"}
  <2>1. pc[p] = "idle" /\ Plain(p)
    BY <1>1 DEF Started, Plain, Commands
  <2> QED BY <2>1, PlainLabels
<1>6. vault' = NoDir \/ vault'.notes = {} \/ held' \subseteq vault'.notes
  BY <1>1, <1>2, <1>3
<1> QED BY <1>4, <1>5, <1>6 DEF HeldParts, Copier, Making

LEMMA HeldPlain ==
  ASSUME VaultTyped, HeldSomewhere, NEW p \in Procs, HeldParts(p), Plain(p), ~Commands(p)
  PROVE  HeldSomewhere' /\ HeldParts(p)'
<1>1. /\ pc[p] # "idle" /\ UNCHANGED <<held, snaps>>
      /\ loc[p] \in Work /\ loc[p].ret \in {"idle", "writing", "staging"}
  BY Running, PlainFiles DEF VaultTyped, ProcsTyped, Work
<1>2. (\E x \in Dirs : SnapHolds(x))' <=> (\E x \in Dirs : SnapHolds(x))
  BY <1>1 DEF SnapHolds, Dirs
<1>3. CASE UNCHANGED vault
  <2>1. HeldSomewhere'
    BY <1>1, <1>2, <1>3 DEF HeldSomewhere, Held
  <2>2. pc'[p] = "staging" => held = {} \/ \E x \in Dirs : SnapHolds(x)
    <3> SUFFICES ASSUME pc'[p] = "staging" PROVE held = {} \/ \E x \in Dirs : SnapHolds(x)
      OBVIOUS
    <3>1. loc[p].ret = "staging" /\ (NothingToCopy(p) \/ (Rotated(p) /\ pc[p] = "rotating"))
      BY <1>1, PlainLabels DEF CmdInit, CmdAdd, CmdBackup, CmdRestore, CmdIndex
    <3>2. CASE NothingToCopy(p)
      BY <3>2 DEF NothingToCopy, Held, HeldSomewhere
    <3>3. CASE pc[p] = "rotating"
      BY <3>1, <3>3 DEF HeldParts, SnapHolds
    <3> QED BY <3>1, <3>2, <3>3
  <2>3. pc'[p] \notin {"checking", "copied", "promoting", "rotating"}
    BY <1>1, PlainLabels
  <2>4. pc'[p] = "copying" => pc[p] = "checking"
    BY <1>1, PlainLabels
  <2>5. pc'[p] \in {"staged", "clearing", "retiring", "installing", "tidying"} =>
          pc[p] \in {"staging", "staged", "clearing", "retiring", "installing"}
    BY <1>1, PlainLabels
  <2>6. pc'[p] = "copying" => vault = NoDir \/ vault.notes = {} \/ held \subseteq vault.notes
    BY <2>4 DEF HeldParts
  <2>7. pc'[p] \in {"staging", "staged", "clearing", "retiring", "installing", "tidying"} =>
          held = {} \/ \E x \in Dirs : SnapHolds(x)
    BY <2>2, <2>5 DEF HeldParts
  <2> QED BY <1>1, <1>2, <1>3, <2>1, <2>3, <2>6, <2>7 DEF HeldParts, Copier, Making
<1>4. CASE WriteNote(p) \/ WriteIndex(p)
  <2>1. pc'[p] \in {"reading", "idle"}
    BY <1>1, <1>4, PlainLabels DEF WriteNote, WriteIndex
  <2>2. HeldParts(p)'
    BY <2>1 DEF HeldParts, Copier, Making
  <2>3. Held(vault) => vault # NoDir /\ held \subseteq vault.notes
    BY DEF Held
  <2>4. vault # NoDir => vault' # NoDir /\ vault.notes \subseteq vault'.notes
    <3>1. vault # NoDir => ~CmdInit(p) /\ ~(vault' = NoDir /\ Retire(p)) /\ ~Install(p)
      BY <1>4 DEF WriteNote, WriteIndex, CmdInit, Retire, Install
    <3> QED BY <1>4, <3>1, VaultAfter
  <2>5. Held(vault) => (held' # {} => vault' # NoDir /\ held' \subseteq vault'.notes)
    BY <1>1, <2>3, <2>4
  <2> QED BY <1>1, <1>2, <2>2, <2>5 DEF HeldSomewhere, Held
<1>5. CASE Retire(p) \/ Install(p)
  <2>1. pc[p] \in {"retiring", "installing"} /\ pc'[p] \in {"installing", "tidying"}
    BY <1>5 DEF Retire, Install, Goto, VaultTyped, ProcsTyped
  <2>2. held = {} \/ \E x \in Dirs : SnapHolds(x)
    BY <2>1 DEF HeldParts
  <2> QED BY <1>1, <1>2, <2>1, <2>2 DEF HeldParts, HeldSomewhere, Copier, Making
<1> QED BY <1>3, <1>4, <1>5, VaultAfter DEF Commands

LEMMA HeldSnaps ==
  ASSUME RotationIsDeep, VaultTyped, HeldSomewhere, CopyIsFaithful, NEW p \in Procs, HeldParts(p), GoodParts(p),
         SnapshotStep(p)
  PROVE  HeldSomewhere' /\ HeldParts(p)'
<1>0. /\ Dirs \subseteq Names /\ snaps \in [Names -> Snap \cup {NoDir}] /\ loc[p] \in Work
      /\ UNCHANGED <<held, vault>>
  BY Running, StartCopyStep, CopyNoteStep, EndCopyStep, PromoteStep, RotateStep, DieRotatingStep
     DEF SnapshotStep, VaultTyped, FilesTyped, ProcsTyped, Dirs, Commands, Starting
<1>1. Held(vault)' <=> Held(vault)
  BY <1>0 DEF Held
<1>2. CASE StartCopy(p) \/ CopyNote(p)
  <2>1. Held(vault)
    <3>1. CASE StartCopy(p)
      <4>1. pc[p] = "copying" /\ vault # NoDir /\ vault.notes # {}
        BY <3>1, StartCopyStep
      <4> QED BY <4>1 DEF HeldParts, Held
    <3>2. CASE CopyNote(p)
      BY <3>2 DEF HeldParts, CopyNote, Copier, Making
    <3> QED BY <1>2, <3>1, <3>2
  <2>2. pc'[p] = "copied"
    BY <1>2, StartCopyStep, CopyNoteStep
  <2> QED BY <1>1, <2>1, <2>2 DEF HeldParts, HeldSomewhere
<1>3. CASE EndCopy(p)
  <2>0. PICK x : x = loc[p].name
    OBVIOUS
  <2> DEFINE done == [dir |-> [vault EXCEPT !.notes = snaps[x].dir.notes],
                      whole |-> loc[p].seen \subseteq snaps[x].dir.notes]
  <2>1. /\ pc[p] = "copied" /\ x \in Names /\ loc[p].left = {} /\ vault \in Dir
        /\ snaps' = [snaps EXCEPT ![x] = done] /\ done \in Snap /\ pc'[p] = "promoting" /\ loc' = loc
    BY <1>3, <2>0, EndCopyStep
  <2>2. snaps[x].dir.notes = vault.notes /\ loc[p].seen = vault.notes
    BY <2>0, <2>1 DEF CopyIsFaithful
  <2>3. Held(vault) /\ held \subseteq vault.notes
    BY <2>1 DEF HeldParts, Held, Copier, Making
  <2>4. done.dir.notes = vault.notes /\ done.whole = TRUE
    BY <2>1, <2>2 DEF Dir
  <2> HIDE DEF done
  <2>5. Dirs' = Dirs \cup {x} /\ snaps'[x] = done
    BY <2>1, DirsStarted
  <2>6. SnapHolds(x)'
    BY <1>0, <2>3, <2>4, <2>5 DEF SnapHolds
  <2>7. HeldSomewhere'
    BY <1>1, <2>3 DEF HeldSomewhere
  <2>8. SnapHolds(loc[p].name)'
    BY <2>0, <2>1, <2>6 DEF SnapHolds
  <2> QED BY <1>1, <2>1, <2>3, <2>7, <2>8 DEF HeldParts, Copier, Making
<1>4. CASE Promote(p)
  <2>1. PICK x, d : x = loc[p].name /\ d = Dest(x)
    OBVIOUS
  <2>2. /\ x \in Names /\ d \in Names /\ d # x /\ snaps' = [snaps EXCEPT ![d] = snaps[x], ![x] = NoDir]
        /\ x \in Dirs /\ Dirs' = (Dirs \ {x}) \cup {d} /\ pc[p] = "promoting" /\ pc'[p] = "rotating"
        /\ loc' = loc
    BY <1>4, <2>1, PromoteStep, DirsAfter
  <2>3. SnapHolds(x) /\ Held(vault)
    BY <2>1, <2>2 DEF HeldParts, Copier, Making
  <2>4. snaps'[d] = snaps[x] /\ d \in Dirs'
    BY <1>0, <2>2
  <2>5. SnapHolds(d)'
    BY <1>0, <2>3, <2>4 DEF SnapHolds
  <2>6. SnapHolds(Dest(loc[p].name))'
    BY <2>1, <2>2, <2>5 DEF SnapHolds
  <2> QED BY <1>1, <2>2, <2>3, <2>6 DEF HeldParts, HeldSomewhere, Copier, Making
<1>5. CASE Rotate(p) \/ DieRotating(p)
  <2>1. pc[p] = "rotating" /\ Held(vault)
    BY <1>5, RotateStep, DieRotatingStep DEF HeldParts, Copier
  <2>2. HeldSomewhere'
    BY <1>1, <2>1 DEF HeldSomewhere
  <2>3. CASE DieRotating(p)
    BY <2>2, <2>3, DieRotatingStep DEF HeldParts, Copier, Making
  <2>4. CASE Rotate(p)
    <3>0. PICK d : d = Dest(loc[p].name)
      OBVIOUS
    <3>1. pc' = pc /\ loc' = loc
      BY <2>4, RotateStep
    <3>2. ASSUME loc[p].ret = "staging" PROVE SnapHolds(d)'
      <4>1. loc[p].keep = Keep /\ loc[p].name \in Names /\ SnapHolds(d)
        BY <2>1, <3>0, <3>2 DEF VaultTyped, ProcsTyped, Placed, HeldParts
      <4>2. ~d.partial /\ d.stamp = loc[p].name.stamp /\ d \in Dirs
        BY <3>0, <4>1, DestTyped DEF SnapHolds
      <4>3. \A y \in Dirs : y.stamp < d.stamp \/ (y.stamp = d.stamp /\ ~y.partial)
        BY <2>1, <4>2 DEF GoodParts, Copier
      <4>4. d \notin Outdated(loc[p].keep)
        BY <4>1, <4>2, <4>3, CurrentStays
      <4>5. PICK x \in Outdated(loc[p].keep) : x \in Names /\ snaps' = [snaps EXCEPT ![x] = NoDir]
        BY <2>4, RotateStep
      <4>6. Dirs' = Dirs \ {x} /\ \A y \in Names \ {x} : snaps'[y] = snaps[y]
        BY <4>5, DirsRemoved
      <4>7. d \in Dirs' /\ snaps'[d] = snaps[d]
        BY <1>0, <4>2, <4>4, <4>5, <4>6
      <4> QED BY <1>0, <4>1, <4>7 DEF SnapHolds
    <3>3. loc[p].ret = "staging" => SnapHolds(Dest(loc[p].name))'
      BY <3>0, <3>1, <3>2 DEF SnapHolds
    <3> QED BY <1>1, <2>1, <2>2, <3>1, <3>3 DEF HeldParts, Copier, Making
  <2> QED BY <1>5, <2>3, <2>4
<1> QED BY <1>2, <1>3, <1>4, <1>5 DEF SnapshotStep

LEMMA HeldInvNext ==
  ASSUME RotationIsDeep, VaultTyped, IndexInv, GoodInv, HeldInv, [Next]_vars
  PROVE  HeldInv'
<1> SUFFICES ASSUME ~overlapped' PROVE HeldSomewhere' /\ \A p \in Procs : HeldParts(p)'
  BY DEF HeldInv
<1>0. ~overlapped => /\ HeldSomewhere /\ Alone /\ CopyIsFaithful
                     /\ \A p \in Procs : HeldParts(p) /\ GoodParts(p)
  BY DEF HeldInv, IndexInv, GoodInv
<1>1. ASSUME UNCHANGED <<vault, snaps, pc, loc, held, overlapped>>
      PROVE  HeldSomewhere' /\ \A p \in Procs : HeldParts(p)'
  <2>1. Dirs' = Dirs /\ \A x : SnapHolds(x)' = SnapHolds(x)
    BY <1>1 DEF Dirs, SnapHolds
  <2>2. Held(vault)' <=> Held(vault)
    BY <1>1 DEF Held
  <2>3. HeldSomewhere'
    BY <1>0, <1>1, <2>1, <2>2 DEF HeldSomewhere
  <2>4. ASSUME NEW p \in Procs PROVE HeldParts(p)'
    <3>1. pc'[p] = pc[p] /\ loc'[p] = loc[p] /\ HeldParts(p)
      BY <1>0, <1>1
    <3>2. /\ SnapHolds(loc[p].name)' = SnapHolds(loc[p].name)
          /\ SnapHolds(Dest(loc[p].name))' = SnapHolds(Dest(loc[p].name))
      BY <1>1, <2>1 DEF SnapHolds
    <3> QED BY <1>1, <2>1, <2>2, <3>1, <3>2 DEF HeldParts, Copier, Making
  <2> QED BY <2>3, <2>4
<1>2. CASE UNCHANGED vars
  BY <1>1, <1>2 DEF vars, history
<1>3. CASE Tick
  BY <1>1, <1>3 DEF Tick, history
<1>4. CASE LoseNote
  <2>1. /\ \A p \in Procs : pc[p] = "idle" /\ UNCHANGED <<snaps, pc, loc, overlapped>>
        /\ vault # NoDir /\ vault' # NoDir
        /\ \E n : vault'.notes = vault.notes \ {n} /\ held' = held \ {n}
    BY <1>4, LoseNoteStep
  <2>2. \A p \in Procs : HeldParts(p)'
    BY <1>4, <2>1, LoseNoteStep DEF Copier, Making, HeldParts
  <2>3. HeldSomewhere'
    <3>1. CASE held = {} \/ Held(vault)
      BY <2>1, <3>1 DEF Held, HeldSomewhere
    <3>2. CASE \E x \in Dirs : SnapHolds(x)
      <4>1. UNCHANGED snaps /\ held' \subseteq held
        BY <1>4, <2>1, LoseNoteStep
      <4> QED BY <3>2, <4>1 DEF SnapHolds, Dirs, HeldSomewhere
    <3>3. overlapped' = overlapped
      BY <1>4, LoseNoteStep
    <3> QED BY <1>0, <3>1, <3>2, <3>3 DEF HeldSomewhere
  <2> QED BY <2>2, <2>3
<1>5. ASSUME NEW p \in Procs, Plain(p) \/ SnapshotStep(p)
      PROVE  HeldSomewhere' /\ \A q \in Procs : HeldParts(q)'
  <2>1. ~overlapped /\ \A q \in Procs \ {p} : pc'[q] = "idle"
    BY <1>0, <1>5, SoleActor
  <2>2. HeldSomewhere' /\ HeldParts(p)'
    <3>1. CASE Commands(p)
      BY <1>0, <2>1, <3>1, HeldCommands
    <3>2. CASE Plain(p) /\ ~Commands(p)
      BY <1>0, <2>1, <3>2, HeldPlain
    <3>3. CASE SnapshotStep(p)
      BY <1>0, <2>1, <3>3, HeldSnaps
    <3> QED BY <1>5, <3>1, <3>2, <3>3
  <2>3. \A q \in Procs \ {p} : HeldParts(q)'
    BY <2>1 DEF HeldParts, Copier, Making
  <2> QED BY <2>2, <2>3
<1> QED BY <1>2, <1>3, <1>4, <1>5, StepKinds

\* What the vault held when the last command started is in the vault, in vault.old
\* or in a whole snapshot, wherever a command dies and whatever --keep the
\* backups before were given: README's "nothing is destroyed", for commands that
\* never overlapped and a default rotation that keeps what one second can name.
THEOREM VaultNothingDestroyed == ASSUME RotationIsDeep PROVE Spec => []NothingDestroyed
<1> DEFINE Inv == VaultTyped /\ IndexInv /\ GoodInv /\ HeldInv
<1>1. Init => Inv
  <2> SUFFICES ASSUME Init PROVE Inv
    OBVIOUS
  <2>1. HeldSomewhere /\ \A p \in Procs : HeldParts(p)
    BY DEF Init, HeldSomewhere, HeldParts, Copier, Making
  <2> QED BY <2>1, VaultTypedInit, GoodInvInit DEF HeldInv
<1>2. Inv /\ [Next]_vars => Inv'
  BY VaultTypedNext, IndexInvNext, GoodInvNext, HeldInvNext
<1>3. Inv => NothingDestroyed
  BY DEF HeldInv, HeldSomewhere, SnapHolds, NothingDestroyed
<1> HIDE DEF Inv
<1> QED BY <1>1, <1>2, <1>3, PTL DEF Spec
-----------------------------------------------------------------------------
\* Times, and what an add finds before it writes.
LEMMA CheckedStep ==
  ASSUME VaultTyped, NEW p \in Procs, Plain(p) \/ SnapshotStep(p)
  PROVE  \A q \in Procs : loc'[q].checked \in {loc[q].checked, 0, now}
<1>0. loc \in [Procs -> Work] /\ NoWork \in Work /\ NoWork.checked = 0
  BY NoWorkTyped DEF VaultTyped, ProcsTyped, NoWork
<1>1. \A q \in Procs \ {p} : loc'[q] = loc[q]
  BY PlainMoves, StartCopyStep, CopyNoteStep, EndCopyStep, PromoteStep, RotateStep, DieRotatingStep
     DEF SnapshotStep, Moves
<1>2. loc'[p].checked \in {loc[p].checked, 0, now}
  <2>1. CASE UNCHANGED loc
    BY <2>1
  <2>2. CASE CmdAdd(p)
    <3>1. PICK n : loc' = [loc EXCEPT ![p] = [NoWork EXCEPT !.note = n, !.ret = "writing"]]
      BY <2>2 DEF CmdAdd, Local
    <3> QED BY <1>0, <3>1 DEF Work
  <2>3. CASE CmdBackup(p)
    <3>1. PICK keep : loc' = [loc EXCEPT ![p] = [NoWork EXCEPT !.keep = keep]]
      BY <2>3 DEF CmdBackup, Local
    <3> QED BY <1>0, <3>1 DEF Work
  <2>4. CASE CmdRestore(p)
    <3>1. PICK x : loc' = [loc EXCEPT ![p] = [NoWork EXCEPT !.src = x, !.ret = "staging"]]
      BY <2>4 DEF CmdRestore, Local
    <3> QED BY <1>0, <3>1 DEF Work
  <2>5. CASE CheckAge(p)
    <3>1. loc' = [loc EXCEPT ![p] = [loc[p] EXCEPT !.checked = now]]
      BY <2>5 DEF CheckAge, Local
    <3> QED BY <1>0, <3>1 DEF Work
  <2>6. CASE Return(p)
    <3>1. loc' = [loc EXCEPT ![p] = [loc[p] EXCEPT !.name = NoName, !.seen = {}]]
      BY <2>6 DEF Return, Local
    <3> QED BY <1>0, <3>1 DEF Work
  <2>7. CASE ReadNotes(p)
    <3>1. CASE Done(p)
      BY <1>0, <3>1 DEF Done, Local
    <3>2. CASE Local(p, [loc[p] EXCEPT !.seen = vault.notes])
      BY <1>0, <3>2 DEF Local, Work
    <3> QED BY <2>7, <3>1, <3>2 DEF ReadNotes
  <2>8. CASE loc'[p] = NoWork
    BY <1>0, <2>8
  <2>9. CASE StartCopy(p)
    <3>1. PICK x \in Names :
            /\ snaps' = [snaps EXCEPT ![x] = Half({})] /\ Half({}) \in Snap
            /\ loc'[p] = [loc[p] EXCEPT !.name = x, !.seen = vault.notes, !.left = vault.notes]
            /\ pc'[p] = "copied" /\ vault' = vault /\ vault # NoDir
      BY <2>9, StartCopyStep
    <3> QED BY <1>0, <3>1 DEF Work
  <2>10. CASE CopyNote(p)
    <3>1. PICK n : loc'[p] = [loc[p] EXCEPT !.left = @ \ {n}]
      BY <2>10, CopyNoteStep
    <3> QED BY <1>0, <3>1 DEF Work
  <2>11. CASE EndCopy(p) \/ Promote(p) \/ Rotate(p) \/ DieRotating(p)
    BY <2>1, <2>8, <2>11, EndCopyStep, PromoteStep, RotateStep, DieRotatingStep
  <2>15. CASE StartStage(p)
    <3>1. PICK notes : loc' = [loc EXCEPT ![p] = [loc[p] EXCEPT !.seen = notes, !.left = notes]]
      BY <2>15 DEF StartStage, Local
    <3> QED BY <1>0, <3>1 DEF Work
  <2>16. CASE StageNote(p)
    <3>1. PICK n : loc' = [loc EXCEPT ![p] = [loc[p] EXCEPT !.left = @ \ {n}]]
      BY <2>16 DEF StageNote, Local
    <3> QED BY <1>0, <3>1 DEF Work
  <2>12. CASE WriteIndex(p) \/ Tidy(p) \/ Die(p) \/ DieClearing(p) \/ EndStage(p)
    <3>1. Local(p, NoWork)
      BY <2>12 DEF WriteIndex, Tidy, Die, DieClearing, Dies, Done, EndStage
    <3> QED BY <1>0, <2>8, <3>1 DEF Local
  <2>13. CASE NothingToCopy(p) \/ Rotated(p)
    BY <2>6, <2>13 DEF NothingToCopy, Rotated
  <2>14. CASE CmdInit(p) \/ CmdIndex(p) \/ WriteNote(p) \/ ClearOld(p) \/ Retire(p) \/ Install(p)
    BY <2>1, <2>14 DEF CmdInit, CmdIndex, WriteNote, ClearOld, Retire, Install
  <2> QED BY <2>2, <2>3, <2>4, <2>5, <2>7, <2>9, <2>10, <2>11, <2>12, <2>13, <2>14,
            <2>15, <2>16 DEF Plain, SnapshotStep
<1> QED BY <1>1, <1>2

LEMMA TimesNext ==
  ASSUME VaultTyped, TimesKept, [Next]_vars
  PROVE  TimesKept'
<1>0. /\ now \in Nat /\ snaps \in [Names -> Snap \cup {NoDir}] /\ Dirs \subseteq Names
      /\ \A p \in Procs : loc[p].checked \in Nat
  BY DEF VaultTyped, FilesTyped, ProcsTyped, Work, Dirs
<1>1. CASE UNCHANGED vars
  BY <1>1 DEF vars, TimesKept, Dirs
<1>2. CASE Tick
  <2>1. now' = now + 1 /\ UNCHANGED <<vault, restoring, snaps, loc>>
    BY <1>2 DEF Tick
  <2>2. /\ vault # NoDir => vault.mtime \in Nat
        /\ restoring # NoDir => restoring.mtime \in Nat
        /\ \A x \in Dirs : snaps[x].dir.mtime \in Nat
    BY DEF VaultTyped, FilesTyped, Dirs, Dir, Snap
  <2> QED BY <1>0, <2>1, <2>2 DEF TimesKept, Dirs
<1>3. CASE LoseNote
  <2>1. vault'.mtime = now /\ UNCHANGED <<restoring, snaps, now, loc>>
    BY <1>3, LoseNoteStep
  <2> QED BY <1>0, <2>1 DEF TimesKept, Dirs
<1>4. ASSUME NEW p \in Procs, Plain(p) PROVE TimesKept'
  <2>1. UNCHANGED <<snaps, now>> /\ Dirs' = Dirs
    BY <1>4, PlainFiles, DirsAfter
  <2>2. vault' # NoDir => vault'.mtime <= now
    <3>1. EmptyVault.mtime = now
      BY DEF EmptyVault
    <3>2. vault' \in {vault, EmptyVault, NoDir, restoring} \/ vault'.mtime = now
      BY <1>4, VaultAfter
    <3>3. now <= now
      BY <1>0
    <3> QED BY <3>1, <3>2, <3>3 DEF TimesKept
  <2>3. restoring' # NoDir => restoring'.mtime <= now
    <3>1. restoring' \in {restoring, NoDir} => (restoring' # NoDir => restoring'.mtime <= now)
      BY DEF TimesKept
    <3>2. \A x \in Dirs : snaps[x].dir.mtime <= now
      BY DEF TimesKept
    <3>3. CASE restoring' \in {restoring, NoDir}
      BY <3>1, <3>3
    <3>4. CASE restoring'.mtime = now
      BY <1>0, <3>4
    <3>5. CASE loc[p].src \in Dirs /\ restoring'.mtime = snaps[loc[p].src].dir.mtime
      BY <3>2, <3>5
    <3> QED BY <1>4, <3>3, <3>4, <3>5, RestoringAfter
  <2> QED BY <1>0, <1>4, <2>1, <2>2, <2>3, CheckedStep DEF TimesKept
<1>5. ASSUME NEW p \in Procs, SnapshotStep(p) PROVE TimesKept'
  <2>1. UNCHANGED <<vault, restoring, now>>
    BY <1>5, StartCopyStep, CopyNoteStep, EndCopyStep, PromoteStep, RotateStep, DieRotatingStep DEF SnapshotStep
  <2>2. ASSUME NEW x \in Names, NEW snap \in Snap, snap.dir.mtime <= now, snaps' = [snaps EXCEPT ![x] = snap]
        PROVE  \A y \in Dirs' : snaps'[y].dir.mtime <= now
    <3>1. Dirs' = Dirs \cup {x} /\ snaps'[x] = snap /\ \A y \in Names \ {x} : snaps'[y] = snaps[y]
      BY <2>2, DirsStarted
    <3> QED BY <1>0, <2>2, <3>1 DEF TimesKept
  <2>3. \A notes : Half(notes).dir.mtime <= now
    BY <1>0 DEF Half
  <2>4. \A y \in Dirs' : snaps'[y].dir.mtime <= now
    <3>1. CASE StartCopy(p)
      <4>1. PICK x \in Names : snaps' = [snaps EXCEPT ![x] = Half({})] /\ Half({}) \in Snap
        BY <3>1, StartCopyStep
      <4> QED BY <2>2, <2>3, <4>1
    <3>2. CASE CopyNote(p)
      <4>1. PICK n : /\ snaps' = [snaps EXCEPT ![loc[p].name] = Half(snaps[loc[p].name].dir.notes \cup {n})]
                     /\ Half(snaps[loc[p].name].dir.notes \cup {n}) \in Snap /\ loc[p].name \in Names
        BY <3>2, CopyNoteStep
      <4> QED BY <2>2, <2>3, <4>1
    <3>3. CASE EndCopy(p)
      <4> DEFINE x    == loc[p].name
      <4> DEFINE done == [dir |-> [vault EXCEPT !.notes = snaps[x].dir.notes],
                          whole |-> loc[p].seen \subseteq snaps[x].dir.notes]
      <4>1. x \in Names /\ vault \in Dir /\ vault # NoDir /\ snaps' = [snaps EXCEPT ![x] = done] /\ done \in Snap
        BY <3>3, EndCopyStep
      <4>2. done.dir.mtime = vault.mtime
        BY <4>1 DEF Dir
      <4> HIDE DEF done
      <4>3. done.dir.mtime <= now
        BY <4>1, <4>2 DEF TimesKept
      <4> QED BY <2>2, <4>1, <4>3
    <3>4. CASE Promote(p)
      <4>1. PICK x, d : x = loc[p].name /\ d = Dest(x)
        OBVIOUS
      <4>2. /\ x \in Names /\ d \in Names /\ d # x /\ snaps' = [snaps EXCEPT ![d] = snaps[x], ![x] = NoDir]
            /\ x \in Dirs /\ Dirs' = (Dirs \ {x}) \cup {d}
        BY <3>4, <4>1, PromoteStep, DirsAfter
      <4> QED BY <1>0, <4>2 DEF TimesKept
    <3>5. CASE Rotate(p)
      <4>1. PICK x \in Names : snaps' = [snaps EXCEPT ![x] = NoDir]
        BY <3>5, RotateStep
      <4> QED BY <1>0, <4>1, DirsRemoved DEF TimesKept
    <3>6. CASE DieRotating(p)
      <4>1. PICK x \in Names, notes \in SUBSET Notes : snaps' = [snaps EXCEPT ![x] = Half(notes)] /\ Half(notes) \in Snap
        BY <3>6, DieRotatingStep
      <4> QED BY <2>2, <2>3, <4>1
    <3> QED BY <1>5, <3>1, <3>2, <3>3, <3>4, <3>5, <3>6 DEF SnapshotStep
  <2>5. \A q \in Procs : loc'[q].checked <= now
    BY <1>0, <1>5, CheckedStep DEF TimesKept
  <2> QED BY <2>1, <2>4, <2>5 DEF TimesKept
<1> QED BY <1>1, <1>2, <1>3, <1>4, <1>5, StepKinds

\* One process at work, and nobody else: what it finds in the snapshots.
AllWhole(p) == \A x \in Dirs : \/ pc[p] = "copied" /\ loc[p].name = x
                               \/ snaps[x].whole /\ snaps[x].dir.mtime <= x.stamp

FreshParts(p) ==
    /\ pc[p] = "copied" => vault.mtime <= loc[p].name.stamp
    /\ Making(p) => loc[p].name \in Dirs /\ loc[p].name.stamp >= loc[p].checked
    /\ pc[p] = "rotating" => \E x \in Dirs : Fresh(p, x)
    /\ pc[p] = "writing" /\ vault # NoDir /\ vault.notes # {} =>
         \E x \in Dirs : snaps[x].whole /\ x.stamp + MaxAge >= loc[p].checked

LEMMA FreshWhenSole ==
  ASSUME NEW p \in Procs, \A q \in Procs \ {p} : pc[q] = "idle", ~overlapped, deaths = 0, FreshIsWhole
  PROVE  AllWhole(p) /\ FreshParts(p)
  BY DEF FreshIsWhole, AllWhole, FreshParts, FreshBeforeWrite

LEMMA WholeStays ==
  ASSUME NEW p \in Procs, AllWhole(p), UNCHANGED snaps, pc[p] # "copied" \/ UNCHANGED <<pc, loc>>
  PROVE  AllWhole(p)'
  BY DEF AllWhole, Dirs

LEMMA FreshPlain ==
  ASSUME VaultTyped, TimesKept, NEW p \in Procs, Plain(p), deaths' = 0, AllWhole(p), FreshParts(p)
  PROVE  AllWhole(p)' /\ FreshParts(p)'
<1>0. /\ loc[p] \in Work /\ now \in Nat /\ UNCHANGED <<snaps, now>> /\ Dirs' = Dirs
      /\ deaths \in Nat
  BY PlainFiles, DirsAfter DEF VaultTyped, ProcsTyped, FilesTyped, HistoryTyped
<1>1. ~Die(p) /\ ~DieClearing(p)
  BY <1>0 DEF Die, DieClearing, Dies
<1>2. pc[p] \notin {"copied", "promoting"}
  BY <1>1 DEF Plain, CmdInit, CmdAdd, CmdBackup, CmdIndex, CmdRestore, Started, CheckAge, NothingToCopy,
              Rotated, WriteNote, ReadNotes, WriteIndex, StartStage, StageNote, EndStage, ClearOld, Retire, Install, Tidy
<1>3. AllWhole(p)'
  BY <1>0, <1>2, WholeStays
<1>4. pc'[p] \notin {"copied", "promoting", "rotating"}
  BY <1>0, PlainLabels DEF Work
<1>5. pc'[p] = "writing" /\ vault' # NoDir /\ vault'.notes # {} =>
        \E x \in Dirs' : snaps'[x].whole /\ x.stamp + MaxAge >= loc'[p].checked
  <2> SUFFICES ASSUME pc'[p] = "writing", vault' # NoDir, vault'.notes # {}
               PROVE  \E x \in Dirs : snaps[x].whole /\ x.stamp + MaxAge >= loc'[p].checked
    BY <1>0
  <2>1. \/ CheckAge(p) /\ pc'[p] = (IF Stale THEN "copying" ELSE "writing")
        \/ NothingToCopy(p)
        \/ Rotated(p) /\ pc[p] = "rotating"
    BY PlainLabels
  <2>2. CASE CheckAge(p) /\ pc'[p] = (IF Stale THEN "copying" ELSE "writing")
    <3>1. PICK x \in Dirs : ~(snaps[x].dir.mtime + MaxAge < now)
      BY <2>2 DEF Stale
    <3>2. loc'[p].checked = now
      BY <1>0, <2>2 DEF CheckAge, Local, VaultTyped, ProcsTyped, Work
    <3>3. snaps[x].whole /\ snaps[x].dir.mtime <= x.stamp
      BY <1>2 DEF AllWhole
    <3>4. snaps[x].dir.mtime \in Nat /\ x.stamp \in Nat /\ MaxAge \in Nat
      <4>1. snaps[x] \in Snap /\ x \in Names
        BY DEF VaultTyped, FilesTyped, Dirs
      <4> QED BY <4>1, RankTyped DEF Snap, Dir
    <3>5. x.stamp + MaxAge >= now
      BY <1>0, <3>1, <3>3, <3>4
    <3> QED BY <3>2, <3>3, <3>5
  <2>3. CASE NothingToCopy(p)
    BY <2>3 DEF NothingToCopy
  <2>4. CASE Rotated(p) /\ pc[p] = "rotating"
    <3>1. PICK x \in Dirs : Fresh(p, x)
      BY <2>4 DEF FreshParts
    <3>2. loc'[p].checked = loc[p].checked
      BY <1>0, <2>4, ReturnStep DEF Rotated, Work, VaultTyped
    <3>3. x.stamp \in Nat /\ MaxAge \in Nat /\ loc[p].checked \in Nat
      BY <1>0, RankTyped DEF Dirs, Work
    <3> QED BY <3>1, <3>2, <3>3 DEF Fresh
  <2> QED BY <2>1, <2>2, <2>3, <2>4
<1> QED BY <1>3, <1>4, <1>5 DEF FreshParts, Making

LEMMA FreshSnaps ==
  ASSUME VaultTyped, TimesKept, CopyIsFaithful, NEW p \in Procs, SnapshotStep(p), deaths' = 0,
         AllWhole(p), FreshParts(p)
  PROVE  AllWhole(p)' /\ FreshParts(p)'
<1>0. /\ loc[p] \in Work /\ now \in Nat /\ Dirs \subseteq Names /\ snaps \in [Names -> Snap \cup {NoDir}]
      /\ UNCHANGED <<vault, now>> /\ deaths \in Nat
  <2>1. UNCHANGED <<vault, now>>
    BY StartCopyStep, CopyNoteStep, EndCopyStep, PromoteStep, RotateStep, DieRotatingStep DEF SnapshotStep
  <2> QED BY <2>1 DEF VaultTyped, ProcsTyped, FilesTyped, HistoryTyped, Dirs
<1>1. CASE StartCopy(p)
  <2>1. PICK x \in Names :
          /\ pc[p] = "copying" /\ vault # NoDir /\ vault \in Dir
          /\ x.stamp = now /\ x.partial
          /\ snaps' = [snaps EXCEPT ![x] = Half({})] /\ Half({}) \in Snap
          /\ loc'[p] = [loc[p] EXCEPT !.name = x, !.seen = vault.notes, !.left = vault.notes]
          /\ pc'[p] = "copied"
    BY <1>1, StartCopyStep
  <2>2. Dirs' = Dirs \cup {x} /\ \A y \in Names \ {x} : snaps'[y] = snaps[y]
    BY <2>1, DirsStarted
  <2>3. loc'[p].name = x /\ loc'[p].checked = loc[p].checked
    BY <1>0, <2>1 DEF Work
  <2>4. vault.mtime <= now /\ loc[p].checked <= now /\ loc[p].checked \in Nat
    BY <1>0, <2>1 DEF TimesKept, Work
  <2>5. AllWhole(p)'
    BY <1>0, <2>1, <2>2, <2>3 DEF AllWhole
  <2>6. FreshParts(p)'
    BY <1>0, <2>1, <2>2, <2>3, <2>4 DEF FreshParts, Making
  <2> QED BY <2>5, <2>6
<1>2. CASE CopyNote(p)
  <2>0. PICK x : x = loc[p].name
    OBVIOUS
  <2>1. PICK n \in loc[p].left \cap vault.notes :
          /\ snaps' = [snaps EXCEPT ![x] = Half(snaps[x].dir.notes \cup {n})]
          /\ Half(snaps[x].dir.notes \cup {n}) \in Snap /\ x \in Names
          /\ loc'[p] = [loc[p] EXCEPT !.left = @ \ {n}]
    BY <1>2, <2>0, CopyNoteStep
  <2>2. pc[p] = "copied" /\ pc' = pc
    BY <1>2, CopyNoteStep
  <2>3. loc'[p].name = x /\ loc'[p].checked = loc[p].checked
    BY <1>0, <2>0, <2>1 DEF Work
  <2>4. Dirs' = Dirs \cup {x} /\ \A y \in Names \ {x} : snaps'[y] = snaps[y]
    BY <2>1, DirsStarted
  <2>5. AllWhole(p)'
    BY <1>0, <2>0, <2>2, <2>3, <2>4 DEF AllWhole
  <2>6. FreshParts(p)'
    BY <1>0, <2>0, <2>2, <2>3, <2>4 DEF FreshParts, Making
  <2> QED BY <2>5, <2>6
<1>3. CASE EndCopy(p)
  <2>0. PICK x : x = loc[p].name
    OBVIOUS
  <2> DEFINE done == [dir |-> [vault EXCEPT !.notes = snaps[x].dir.notes],
                      whole |-> loc[p].seen \subseteq snaps[x].dir.notes]
  <2>1. /\ pc[p] = "copied" /\ x \in Names /\ loc[p].left = {} /\ vault \in Dir
        /\ snaps' = [snaps EXCEPT ![x] = done] /\ done \in Snap /\ pc'[p] = "promoting" /\ loc' = loc
    BY <1>3, <2>0, EndCopyStep
  <2>2. snaps[x].dir.notes = vault.notes /\ loc[p].seen = vault.notes
    BY <2>0, <2>1 DEF CopyIsFaithful
  <2>3. done.dir.mtime = vault.mtime /\ done.whole = TRUE
    BY <2>1, <2>2 DEF Dir
  <2> HIDE DEF done
  <2>4. Dirs' = Dirs \cup {x} /\ snaps'[x] = done /\ \A y \in Names \ {x} : snaps'[y] = snaps[y]
    BY <2>1, DirsStarted
  <2>5. vault.mtime <= x.stamp
    BY <2>0, <2>1 DEF FreshParts
  <2>6. AllWhole(p)'
    <3>1. \A y \in Dirs' : y # x => snaps'[y] = snaps[y] /\ y \in Dirs /\ y # loc[p].name
      BY <1>0, <2>0, <2>4
    <3>2. snaps'[x].whole = TRUE /\ snaps'[x].dir.mtime <= x.stamp
      BY <2>3, <2>4, <2>5
    <3> QED BY <3>1, <3>2 DEF AllWhole
  <2>7. FreshParts(p)'
    BY <1>0, <2>0, <2>1, <2>4 DEF FreshParts, Making
  <2> QED BY <2>6, <2>7
<1>4. CASE Promote(p)
  <2>1. PICK x, d : x = loc[p].name /\ d = Dest(x)
    OBVIOUS
  <2>2. /\ x \in Names /\ d \in Names /\ d # x /\ snaps' = [snaps EXCEPT ![d] = snaps[x], ![x] = NoDir]
        /\ x \in Dirs /\ Dirs' = (Dirs \ {x}) \cup {d} /\ pc[p] = "promoting" /\ pc'[p] = "rotating"
        /\ loc' = loc
    BY <1>4, <2>1, PromoteStep, DirsAfter
  <2>3. d.stamp = x.stamp
    BY <2>1, <2>2, DestTyped
  <2>4. snaps'[d] = snaps[x] /\ d \in Dirs' /\ \A y \in Dirs' \ {d} : y \in Dirs /\ snaps'[y] = snaps[y]
    BY <1>0, <2>2
  <2>5. AllWhole(p)'
    BY <2>2, <2>3, <2>4 DEF AllWhole
  <2>6. snaps[x].whole /\ x.stamp >= loc[p].checked
    BY <2>1, <2>2 DEF AllWhole, FreshParts, Making
  <2>7. Fresh(p, d)'
    BY <2>2, <2>3, <2>4, <2>6 DEF Fresh
  <2>8. FreshParts(p)'
    BY <2>2, <2>4, <2>7 DEF FreshParts, Making
  <2> QED BY <2>5, <2>8
<1>5. CASE Rotate(p)
  <2>1. /\ pc[p] = "rotating" /\ pc' = pc /\ loc' = loc
        /\ \E d \in Outdated(loc[p].keep) : d \in Names /\ d \in Dirs /\ snaps' = [snaps EXCEPT ![d] = NoDir]
    BY <1>5, RotateStep
  <2>2. PICK d \in Outdated(loc[p].keep) : d \in Names /\ d \in Dirs /\ snaps' = [snaps EXCEPT ![d] = NoDir]
    BY <2>1
  <2>3. Dirs' = Dirs \ {d} /\ \A y \in Names \ {d} : snaps'[y] = snaps[y]
    BY <2>2, DirsRemoved
  <2>4. AllWhole(p)'
    BY <1>0, <2>1, <2>3 DEF AllWhole
  <2>5. PICK x \in Dirs : Fresh(p, x)
    BY <2>1 DEF FreshParts
  <2>6. PICK y \in Dirs' : y.stamp >= x.stamp /\ y \in Names
    <3>1. CASE x # d
      <4>1. x.stamp >= x.stamp /\ x \in Names
        BY <1>0, RankTyped
      <4> QED BY <2>3, <3>1, <4>1
    <3>2. CASE x = d
      <4>0. loc[p].keep \in Nat
        BY DEF VaultTyped, ProcsTyped, Work
      <4>1. Newer(d) # {}
        BY <2>2, <4>0, NewestStays
      <4>2. PICK y \in Dirs : Older(d, y)
        BY <4>1 DEF Newer
      <4>3. y # d /\ y \in Names
        BY <1>0, <2>2, <4>2, OlderOrder
      <4>4. y.stamp >= d.stamp
        BY <2>2, <4>2, <4>3, RankTyped DEF Older
      <4> QED BY <2>3, <3>2, <4>3, <4>4
    <3> QED BY <3>1, <3>2
  <2>7. snaps'[y].whole
    BY <2>1, <2>4 DEF AllWhole
  <2>8. y.stamp >= loc[p].checked
    <3>1. y.stamp \in Nat /\ x.stamp \in Nat /\ loc[p].checked \in Nat
      BY <1>0, <2>6, RankTyped DEF Work
    <3> QED BY <2>5, <2>6, <3>1 DEF Fresh
  <2>9. Fresh(p, y)'
    BY <2>1, <2>6, <2>7, <2>8 DEF Fresh
  <2> QED BY <2>1, <2>4, <2>6, <2>9 DEF FreshParts, Making
<1>6. CASE DieRotating(p)
  BY <1>0, <1>6 DEF DieRotating, Dies
<1> QED BY <1>1, <1>2, <1>3, <1>4, <1>5, <1>6 DEF SnapshotStep

\* The others, before and after a step of p.
LEMMA FreshNext ==
  ASSUME VaultTyped, IndexInv, FreshInv, [Next]_vars
  PROVE  FreshIsWhole'
<1> SUFFICES ASSUME ~overlapped', deaths' = 0 PROVE FreshIsWhole'
  BY DEF FreshIsWhole
<1>0. deaths \in Nat
  BY DEF VaultTyped, HistoryTyped
<1>1. ASSUME UNCHANGED <<vault, snaps, pc, loc, deaths, overlapped>> PROVE FreshIsWhole'
  <2>1. Dirs' = Dirs
    BY <1>1 DEF Dirs
  <2>2. \A p, x : Fresh(p, x)' = Fresh(p, x)
    BY <1>1, <2>1 DEF Fresh
  <2> QED BY <1>1, <2>1, <2>2 DEF FreshInv, FreshIsWhole, FreshBeforeWrite, Making
<1>2. CASE UNCHANGED vars
  BY <1>1, <1>2 DEF vars, history
<1>3. CASE Tick
  BY <1>1, <1>3 DEF Tick, history
<1>4. CASE LoseNote
  <2>1. (\A p \in Procs : pc[p] = "idle") /\ UNCHANGED <<snaps, pc, loc, deaths, overlapped>>
    BY <1>4, LoseNoteStep
  <2> QED BY <2>1 DEF FreshInv, FreshIsWhole, FreshBeforeWrite, Making, Dirs
<1>5. ASSUME NEW p \in Procs, Plain(p) \/ SnapshotStep(p) PROVE FreshIsWhole'
  <2>1. /\ ~overlapped /\ CopyIsFaithful
        /\ \A q \in Procs \ {p} : pc[q] = "idle" /\ pc'[q] = "idle"
    BY <1>5, SoleActor DEF IndexInv
  <2>2. deaths = 0
    <3>1. deaths' \in {deaths, deaths + 1}
      BY <1>5 DEF Plain, SnapshotStep, CmdInit, CmdAdd, CmdBackup, CmdIndex, CmdRestore, Started, CheckAge,
                  NothingToCopy, Rotated, WriteNote, ReadNotes, WriteIndex, StartStage, StageNote, EndStage, ClearOld, Retire, Install,
                  Tidy, Die, DieClearing, Dies, StartCopy, CopyNote, EndCopy, Promote, Rotate, DieRotating, history
    <3> QED BY <1>0, <3>1
  <2>3. AllWhole(p) /\ FreshParts(p)
    BY <2>1, <2>2, FreshWhenSole DEF FreshInv
  <2>4. AllWhole(p)' /\ FreshParts(p)'
    BY <1>5, <2>1, <2>3, FreshPlain, FreshSnaps DEF FreshInv
  <2>5. \A x \in Dirs' : \/ \E q \in Procs : pc'[q] = "copied" /\ loc'[q].name = x
                         \/ snaps'[x].whole /\ snaps'[x].dir.mtime <= x.stamp
    BY <2>4 DEF AllWhole
  <2>6. \A q \in Procs :
          /\ pc'[q] = "copied" => vault'.mtime <= loc'[q].name.stamp
          /\ Making(q)' => loc'[q].name \in Dirs' /\ loc'[q].name.stamp >= loc'[q].checked
          /\ pc'[q] = "rotating" => \E x \in Dirs' : Fresh(q, x)'
    BY <2>1, <2>4 DEF FreshParts, Making
  <2>7. FreshBeforeWrite'
    BY <2>1, <2>4 DEF FreshParts, FreshBeforeWrite
  <2> QED BY <2>5, <2>6, <2>7 DEF FreshIsWhole
<1> QED BY <1>2, <1>3, <1>4, <1>5, StepKinds

\* When an add writes its note, a whole snapshot of the last MaxAge seconds is
\* there: README's "a fresh snapshot exists before we mutate the vault", for
\* commands that never overlapped and none of which died.
THEOREM VaultFreshBeforeWrite == Spec => []FreshBeforeWrite
<1> DEFINE Inv == VaultTyped /\ IndexInv /\ FreshInv
<1>1. Init => Inv
  <2> SUFFICES ASSUME Init PROVE Inv
    OBVIOUS
  <2>1. Dirs = {} /\ \A p \in Procs : pc[p] = "idle" /\ loc[p] = NoWork
    BY DEF Init, Dirs
  <2>2. AllCurrent /\ Alone /\ CopyIsFaithful
    BY <2>1 DEF Init, AllCurrent, Current, Alone, CopyIsFaithful
  <2>3. TimesKept
    BY <2>1 DEF Init, TimesKept, NoWork
  <2>4. FreshIsWhole
    BY <2>1 DEF FreshIsWhole, FreshBeforeWrite, Making
  <2> QED BY <2>2, <2>3, <2>4, VaultTypedInit DEF IndexInv, FreshInv
<1>2. Inv /\ [Next]_vars => Inv'
  BY VaultTypedNext, IndexInvNext, TimesNext, FreshNext DEF FreshInv
<1>3. Inv => FreshBeforeWrite
  BY DEF FreshInv, FreshIsWhole, FreshBeforeWrite
<1> HIDE DEF Inv
<1> QED BY <1>1, <1>2, <1>3, PTL DEF Spec
=============================================================================
