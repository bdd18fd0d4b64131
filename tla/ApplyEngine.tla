----------------------------- MODULE ApplyEngine -----------------------------
(***************************************************************************)
(* `oca apply`: the commands that render stack.toml into the files it      *)
(* manages (opencode.json, vision/servers.yaml, skill files).              *)
(*                                                                         *)
(* An invocation runs its stages one after the other (cmd/oca/apply.go).   *)
(* A stage plans its target operations from what is on disk, takes the     *)
(* host-local apply lock, writes the targets one by one with               *)
(* render.WriteAtomic, undoes the earlier ones when one fails, releases    *)
(* the lock, refreshes the shell environment and, for plugins, runs the    *)
(* plugin's own sync script.                                               *)
(*                                                                         *)
(* Several invocations run at the same time, the user and other programs   *)
(* edit opencode.json without the lock, every file operation may fail, and *)
(* an invocation may be killed between any two file operations.            *)
(*                                                                         *)
(* A document is the set of entries it holds: the properties below only    *)
(* tell apart which entries a file has, not how they are printed.          *)
(***************************************************************************)
EXTENDS Naturals, Sequences, FiniteSets

CONSTANTS
    Procs,        \* invocations of the command
    Paths,        \* the managed files
    Doc,          \* opencode.json, the one that others write too
    Entries,      \* entries a document can hold
    Invocation,   \* the stages each invocation runs, in order
    MaxBackups,   \* ApplyOptions.MaxBackups
    NoProc,       \* "nobody holds the lock"
    MaxRuns,      \* bound: how often each invocation is started
    MaxFaults,    \* bound: file operations that fail
    MaxEdits      \* bound: edits by the user or by OpenCode

Document == SUBSET Entries

\* A path has no file, a file without a single byte, or a JSON document.
Absent == [kind |-> "absent", has |-> {}]
Truncated == [kind |-> "truncated", has |-> {}]
Json(d) == [kind |-> "json", has |-> d]
FileState == {Absent, Truncated} \cup {Json(d) : d \in Document}

\* What PlanX is given for one TargetOp.  `stale` are the worktree entries
\* whose path is gone; `whole` marks a file OCA owns and rewrites entirely.
Target == [path : Paths, declared : Document, stale : Document,
           whole : BOOLEAN, suppress : BOOLEAN]

\* `sync` is what the plugin's sync script adds after the stage.
Stage == [targets : Seq(Target), sync : Document]

ASSUME NoProcAssumption == NoProc \notin Procs

ASSUME BoundsAssumption ==
    /\ MaxBackups \in Nat \ {0}
    /\ MaxRuns \in Nat
    /\ MaxFaults \in Nat
    /\ MaxEdits \in Nat

\* Every plan of the command names each file at most once: PlanMCP has two
\* different files, PlanSkills one operation per skill file, the others one.
ASSUME InvocationAssumption ==
    /\ Doc \in Paths
    /\ Invocation \in [Procs -> Seq(Stage)]
    /\ \A p \in Procs :
         /\ Invocation[p] # << >>
         /\ \A s \in DOMAIN Invocation[p] :
              LET ts == Invocation[p][s].targets
              IN  \A i, j \in DOMAIN ts : ts[i].path = ts[j].path => i = j

StagesOf(p) == {Invocation[p][s] : s \in DOMAIN Invocation[p]}
TargetsOf(p) ==
    UNION {{st.targets[i] : i \in DOMAIN st.targets} : st \in StagesOf(p)}
StaleOf(p) == UNION {t.stale : t \in TargetsOf(p)}

\* The targets of an invocation come from one stack.toml: each has its own
\* section of a file, and none drops what another one declares there.
\* opencode.json is merged, never rewritten, and a sync script does not add
\* worktree entries.
ASSUME StackAssumption ==
    \A p \in Procs : \A t \in TargetsOf(p) :
      /\ \A u \in TargetsOf(p) : u.path = t.path =>
           /\ u.declared \cap t.stale \subseteq t.declared
           /\ t.whole => u.declared \subseteq t.declared
      /\ t.path = Doc =>
           /\ ~t.whole
           /\ \A st \in StagesOf(p) : st.sync \cap t.stale = {}

VARIABLES
    file,      \* [Paths -> FileState]
    backups,   \* the .bak.<UnixNano> files of each path
    orphan,    \* the paths that have a half-written .bak.*.tmp
    clock,     \* the next UnixNano
    holder,    \* who holds the flock on apply.lock
    pc,        \* where each invocation is
    runs,      \* how often it was started
    stage,     \* the stage it is in
    plan,      \* Plan.Targets of that stage
    idx,       \* the loop index of Apply and of rollback
    results,   \* ApplyResult.Targets
    seen,      \* the bytes WriteAtomic or rollback has read
    bak,       \* WriteAtomic's backupPath, 0 when empty
    rbErr,     \* rollback has collected an error
    faults, edits,
    atLock,    \* history: the files when the lock was last taken
    raced,     \* history: somebody else wrote while the lock was held
    base,      \* history: the files when each invocation started
    solo       \* history: nobody else has written a file since

diskVars == <<file, backups, orphan, clock>>
callVars == <<plan, idx, results, seen, bak, rbErr>>
lockHist == <<atLock, raced>>
runHist == <<base, solo>>
histVars == <<lockHist, runHist>>
vars == <<diskVars, holder, pc, runs, stage, callVars, faults, edits, histVars>>

Backup == [at : Nat \ {0}, doc : FileState]
Op == [path : Paths, after : FileState, noop : BOOLEAN, keep : Nat]
Result == [wrote : BOOLEAN, bak : Nat]

Ended == {"idle", "done", "failed", "crashed"}
Holding == {"write", "prune", "backupTemp", "backupRename", "rename",
            "rollback", "restore"}
Labels == Ended \cup Holding \cup {"plan", "lock", "env", "sync"}

TypeOK ==
    /\ file \in [Paths -> FileState]
    /\ backups \in [Paths -> SUBSET Backup]
    /\ orphan \in SUBSET Paths
    /\ clock \in Nat \ {0}
    /\ holder \in Procs \cup {NoProc}
    /\ pc \in [Procs -> Labels]
    /\ runs \in [Procs -> Nat]
    /\ stage \in [Procs -> Nat]
    /\ plan \in [Procs -> Seq(Op)]
    /\ idx \in [Procs -> Nat]
    /\ results \in [Procs -> Seq(Result)]
    /\ seen \in [Procs -> FileState]
    /\ bak \in [Procs -> Nat]
    /\ rbErr \in [Procs -> BOOLEAN]
    /\ faults \in Nat
    /\ edits \in Nat
    /\ atLock \in [Paths -> FileState]
    /\ raced \in BOOLEAN
    /\ base \in [Procs -> [Paths -> FileState]]
    /\ solo \in [Procs -> BOOLEAN]

-----------------------------------------------------------------------------
(* Planning *)

\* Seeded fault for SoloRunRenders: the section is replaced, not merged.
RenderReplace(t, f) == Json(t.declared)

\* The merge functions: declared entries are added to what the file holds,
\* stale worktree entries are dropped, everything else is kept.  A missing
\* or empty file is merged as an empty object.
Render(t, f) ==
    Json(IF t.whole THEN t.declared ELSE (f.has \ t.stale) \cup t.declared)

PlanOp(t) ==
    LET after == Render(t, file[t.path])
    IN  [path |-> t.path,
         after |-> after,
         noop |-> after = file[t.path],
         keep |-> IF t.suppress THEN 0 ELSE MaxBackups]

PlanOf(s) == [i \in DOMAIN s.targets |-> PlanOp(s.targets[i])]

CurrentStage(p) == Invocation[p][stage[p]]
CurrentOp(p) == plan[p][idx[p]]

\* pruneBackups keeps the `keep` newest backups.
Newest(S, keep) ==
    {b \in S : Cardinality({c \in S : c.at > b.at}) < keep}

-----------------------------------------------------------------------------
Init ==
    /\ \E d \in FileState \ {Truncated} :
         file = [f \in Paths |-> IF f = Doc THEN d ELSE Absent]
    /\ backups = [f \in Paths |-> {}]
    /\ orphan = {}
    /\ clock = 1
    /\ holder = NoProc
    /\ pc = [p \in Procs |-> "idle"]
    /\ runs = [p \in Procs |-> 0]
    /\ stage = [p \in Procs |-> 1]
    /\ plan = [p \in Procs |-> << >>]
    /\ idx = [p \in Procs |-> 0]
    /\ results = [p \in Procs |-> << >>]
    /\ seen = [p \in Procs |-> Absent]
    /\ bak = [p \in Procs |-> 0]
    /\ rbErr = [p \in Procs |-> FALSE]
    /\ faults = 0
    /\ edits = 0
    /\ atLock = [f \in Paths |-> Absent]
    /\ raced = FALSE
    /\ base = [p \in Procs |-> [f \in Paths |-> Absent]]
    /\ solo = [p \in Procs |-> FALSE]

Goto(p, l) == pc' = [pc EXCEPT ![p] = l]

Fault ==
    /\ faults < MaxFaults
    /\ faults' = faults + 1

\* Returning from render.Apply: the deferred ReleaseApplyLock runs and the
\* locals are gone.
Return(p, l) ==
    /\ Goto(p, l)
    /\ holder' = IF holder = p THEN NoProc ELSE holder
    /\ plan' = [plan EXCEPT ![p] = << >>]
    /\ idx' = [idx EXCEPT ![p] = 0]
    /\ results' = [results EXCEPT ![p] = << >>]
    /\ seen' = [seen EXCEPT ![p] = Absent]
    /\ bak' = [bak EXCEPT ![p] = 0]
    /\ rbErr' = [rbErr EXCEPT ![p] = FALSE]

-----------------------------------------------------------------------------
(* The command *)

\* The user runs `oca apply`, for the first time or again.
Start(p) ==
    /\ pc[p] \in Ended
    /\ runs[p] < MaxRuns
    /\ runs' = [runs EXCEPT ![p] = @ + 1]
    /\ stage' = [stage EXCEPT ![p] = 1]
    /\ Goto(p, "plan")
    /\ base' = [base EXCEPT ![p] = file]
    /\ solo' = [solo EXCEPT ![p] = TRUE]
    /\ UNCHANGED <<diskVars, holder, callVars, faults, edits, lockHist>>

\* PlanX reads the files.  The lock is not held yet.
PlanStage(p) ==
    /\ pc[p] = "plan"
    /\ plan' = [plan EXCEPT ![p] = PlanOf(CurrentStage(p))]
    /\ Goto(p, "lock")
    /\ UNCHANGED <<diskVars, holder, runs, stage, idx, results, seen, bak,
                   rbErr, faults, edits, histVars>>

\* Preparing a plugin, reading a file or parsing it fails.
PlanFails(p) ==
    /\ pc[p] = "plan"
    /\ Fault
    /\ Return(p, "failed")
    /\ UNCHANGED <<diskVars, runs, stage, edits, histVars>>

\* Seeded fault for LockExclusion and RollbackPossible: a lock that is
\* always granted, like the one of lock_stub.go.
FlockGranted == TRUE

\* flock(LOCK_EX | LOCK_NB) succeeds.
FlockFree == holder = NoProc

AcquireApplyLock(p) ==
    /\ pc[p] = "lock"
    /\ FlockFree
    /\ holder' = p
    /\ idx' = [idx EXCEPT ![p] = 1]
    /\ atLock' = file
    /\ raced' = FALSE
    /\ Goto(p, "write")
    /\ UNCHANGED <<diskVars, runs, stage, plan, results, seen, bak, rbErr,
                   faults, edits, runHist>>

\* The deadline passes while somebody else holds the lock.
LockTimeout(p) ==
    /\ pc[p] = "lock"
    /\ holder # NoProc
    /\ Return(p, "failed")
    /\ UNCHANGED <<diskVars, runs, stage, faults, edits, histVars>>

LockFails(p) ==
    /\ pc[p] = "lock"
    /\ Fault
    /\ Return(p, "failed")
    /\ UNCHANGED <<diskVars, runs, stage, edits, histVars>>

-----------------------------------------------------------------------------
(* Apply's loop over the targets, with WriteAtomic for each *)

Working(p) == pc[p] = "write" /\ idx[p] <= Len(plan[p])

\* WriteAtomic has returned: its locals are gone, its result is recorded.
Record(p, r) ==
    /\ results' = [results EXCEPT ![p] = Append(@, r)]
    /\ seen' = [seen EXCEPT ![p] = Absent]
    /\ bak' = [bak EXCEPT ![p] = 0]

NextTarget(p, r) ==
    /\ Record(p, r)
    /\ idx' = [idx EXCEPT ![p] = @ + 1]
    /\ Goto(p, "write")

\* p has changed a file: no other invocation is alone any more.
SpoilOthers(p) == solo' = [q \in Procs |-> solo[q] /\ q = p]

SkipNoop(p) ==
    /\ Working(p)
    /\ CurrentOp(p).noop
    /\ NextTarget(p, [wrote |-> FALSE, bak |-> 0])
    /\ UNCHANGED <<diskVars, holder, runs, stage, plan, rbErr, faults, edits,
                   histVars>>

\* WriteAtomic removes orphan backup temps, reads the file and compares.
\* Equal bytes: it returns without a backup, and Apply counts it as written.
WriteEqual(p) ==
    /\ Working(p)
    /\ ~CurrentOp(p).noop
    /\ file[CurrentOp(p).path] = CurrentOp(p).after
    /\ orphan' = orphan \ {CurrentOp(p).path}
    /\ NextTarget(p, [wrote |-> TRUE, bak |-> 0])
    /\ UNCHANGED <<file, backups, clock, holder, runs, stage, plan, rbErr,
                   faults, edits, histVars>>

ReadExisting(p) ==
    LET op == CurrentOp(p)
    IN  /\ Working(p)
        /\ ~op.noop
        /\ file[op.path] # op.after
        /\ orphan' = orphan \ {op.path}
        /\ seen' = [seen EXCEPT ![p] = file[op.path]]
        /\ Goto(p, IF file[op.path] # Absent /\ op.keep > 0
                   THEN "prune" ELSE "rename")
        /\ UNCHANGED <<file, backups, clock, holder, runs, stage, plan, idx,
                       results, bak, rbErr, faults, edits, histVars>>

\* Seeded fault for BackupRetention: no room is made for the new backup.
RoomForNone(op) == op.keep

\* How many old backups WriteAtomic asks pruneBackups to keep.
RoomForOne(op) == op.keep - 1

PruneBackups(p) ==
    LET op == CurrentOp(p)
    IN  /\ pc[p] = "prune"
        /\ backups' = [backups EXCEPT ![op.path] = Newest(@, RoomForOne(op))]
        /\ Goto(p, "backupTemp")
        /\ UNCHANGED <<file, orphan, clock, holder, runs, stage, callVars,
                       faults, edits, histVars>>

WriteBackupTemp(p) ==
    /\ pc[p] = "backupTemp"
    /\ orphan' = orphan \cup {CurrentOp(p).path}
    /\ Goto(p, "backupRename")
    /\ UNCHANGED <<file, backups, clock, holder, runs, stage, callVars,
                   faults, edits, histVars>>

\* Seeded fault for FailedStageRestored: the new content is backed up.
BackupNewContent(p) == CurrentOp(p).after

\* `existing`, as WriteAtomic has read it.
BackupContent(p) == seen[p]

RenameBackup(p) ==
    LET f == CurrentOp(p).path
    IN  /\ pc[p] = "backupRename"
        /\ orphan' = orphan \ {f}
        /\ backups' = [backups EXCEPT ![f] =
                         @ \cup {[at |-> clock, doc |-> BackupContent(p)]}]
        /\ bak' = [bak EXCEPT ![p] = clock]
        /\ clock' = clock + 1
        /\ Goto(p, "rename")
        /\ UNCHANGED <<file, holder, runs, stage, plan, idx, results, seen,
                       rbErr, faults, edits, histVars>>

\* The new content goes to a temp file of its own, which replaces the target.
RenameTarget(p) ==
    LET op == CurrentOp(p)
    IN  /\ pc[p] = "rename"
        /\ file' = [file EXCEPT ![op.path] = op.after]
        /\ NextTarget(p, [wrote |-> TRUE, bak |-> bak[p]])
        /\ SpoilOthers(p)
        /\ UNCHANGED <<backups, orphan, clock, holder, runs, stage, plan,
                       rbErr, faults, edits, lockHist, base>>

\* Every target is written: release the lock.
ApplyDone(p) ==
    /\ pc[p] = "write"
    /\ idx[p] > Len(plan[p])
    /\ Return(p, "env")
    /\ UNCHANGED <<diskVars, runs, stage, faults, edits, histVars>>

-----------------------------------------------------------------------------
(* A failing WriteAtomic, and rollback *)

\* Seeded fault for TypeOK: one target too few.
RollbackSkipsOne(i) == i - 2

\* rollback gets Targets[:i] and starts at the last of them: the failing
\* target's own result is appended but not rolled back.
RollbackFrom(i) == i - 1

WriteFails(p) ==
    LET op == CurrentOp(p)
        f == op.path
    IN  /\ Fault
        /\ \/ \* removing orphans, or reading the target
              /\ Working(p) /\ ~op.noop
              /\ orphan' \in {orphan, orphan \ {f}}
              /\ UNCHANGED backups
           \/ \* removing old backups; the others are still removed
              /\ pc[p] = "prune"
              /\ \E kept \in SUBSET backups[f] :
                   /\ Newest(backups[f], RoomForOne(op)) \subseteq kept
                   /\ backups' = [backups EXCEPT ![f] = kept]
              /\ UNCHANGED orphan
           \/ /\ pc[p] = "backupTemp"
              /\ orphan' \in {orphan, orphan \cup {f}}
              /\ UNCHANGED backups
           \/ /\ pc[p] \in {"backupRename", "rename"}
              /\ UNCHANGED <<backups, orphan>>
        /\ Record(p, [wrote |-> FALSE, bak |-> bak[p]])
        /\ idx' = [idx EXCEPT ![p] = RollbackFrom(@)]
        /\ Goto(p, "rollback")
        /\ UNCHANGED <<file, clock, holder, runs, stage, plan, rbErr, edits,
                       histVars>>

Undoing(p) == pc[p] = "rollback" /\ idx[p] > 0

BackupOf(p) == results[p][idx[p]].bak

\* Seeded fault for EveryRunEnds: the loop index stays.
UndoSkipStays(p) ==
    /\ Undoing(p)
    /\ ~results[p][idx[p]].wrote
    /\ UNCHANGED vars

UndoSkip(p) ==
    /\ Undoing(p)
    /\ ~results[p][idx[p]].wrote
    /\ idx' = [idx EXCEPT ![p] = @ - 1]
    /\ UNCHANGED <<diskVars, holder, pc, runs, stage, plan, results, seen,
                   bak, rbErr, faults, edits, histVars>>

\* os.ReadFile of the backup, then os.WriteFile truncates the target ...
\* (RollbackPossible shows that the backup is always there to be read.)
UndoTruncate(p) ==
    /\ Undoing(p)
    /\ results[p][idx[p]].wrote
    /\ \E b \in backups[CurrentOp(p).path] :
         /\ b.at = BackupOf(p)
         /\ seen' = [seen EXCEPT ![p] = b.doc]
    /\ file' = [file EXCEPT ![CurrentOp(p).path] = Truncated]
    /\ Goto(p, "restore")
    /\ SpoilOthers(p)
    /\ UNCHANGED <<backups, orphan, clock, holder, runs, stage, plan, idx,
                   results, bak, rbErr, faults, edits, lockHist, base>>

\* ... and fills it.
UndoRestore(p) ==
    /\ pc[p] = "restore"
    /\ file' = [file EXCEPT ![CurrentOp(p).path] = seen[p]]
    /\ seen' = [seen EXCEPT ![p] = Absent]
    /\ idx' = [idx EXCEPT ![p] = @ - 1]
    /\ Goto(p, "rollback")
    /\ SpoilOthers(p)
    /\ UNCHANGED <<backups, orphan, clock, holder, runs, stage, plan,
                   results, bak, rbErr, faults, edits, lockHist, base>>

\* Without a backup path the target counts as newly created.
UndoRemove(p) ==
    /\ Undoing(p)
    /\ results[p][idx[p]].wrote
    /\ BackupOf(p) = 0
    /\ file' = [file EXCEPT ![CurrentOp(p).path] = Absent]
    /\ idx' = [idx EXCEPT ![p] = @ - 1]
    /\ SpoilOthers(p)
    /\ UNCHANGED <<backups, orphan, clock, holder, pc, runs, stage, plan,
                   results, seen, bak, rbErr, faults, edits, lockHist, base>>

\* The error is kept and the rollback goes on.
UndoFails(p) ==
    /\ \/ Undoing(p) /\ results[p][idx[p]].wrote
       \/ pc[p] = "restore"
    /\ Fault
    /\ rbErr' = [rbErr EXCEPT ![p] = TRUE]
    /\ seen' = [seen EXCEPT ![p] = Absent]
    /\ idx' = [idx EXCEPT ![p] = @ - 1]
    /\ Goto(p, "rollback")
    /\ UNCHANGED <<diskVars, holder, runs, stage, plan, results, bak, edits,
                   histVars>>

ApplyFailed(p) ==
    /\ pc[p] = "rollback"
    /\ idx[p] = 0
    /\ Return(p, "failed")
    /\ UNCHANGED <<diskVars, runs, stage, faults, edits, histVars>>

-----------------------------------------------------------------------------
(* After render.Apply *)

AfterStage(p) ==
    IF stage[p] < Len(Invocation[p])
    THEN Goto(p, "plan") /\ stage' = [stage EXCEPT ![p] = @ + 1]
    ELSE Goto(p, "done") /\ UNCHANGED stage

\* WriteShellEnvAndStamp writes no file of this module.
RefreshShellEnv(p) ==
    /\ pc[p] = "env"
    /\ IF CurrentStage(p).sync = {}
       THEN AfterStage(p)
       ELSE Goto(p, "sync") /\ UNCHANGED stage
    /\ UNCHANGED <<diskVars, holder, runs, callVars, faults, edits, histVars>>

\* The sync script adds its entries to opencode.json, without the lock.
SyncPlugins(p) ==
    /\ pc[p] = "sync"
    /\ file' = [file EXCEPT ![Doc] = Json(@.has \cup CurrentStage(p).sync)]
    /\ raced' = (raced \/ holder # NoProc)
    /\ SpoilOthers(p)
    /\ AfterStage(p)
    /\ UNCHANGED <<backups, orphan, clock, holder, runs, callVars, faults,
                   edits, atLock, base>>

StageFails(p) ==
    /\ pc[p] \in {"env", "sync"}
    /\ Fault
    /\ Goto(p, "failed")
    /\ UNCHANGED <<diskVars, holder, runs, stage, callVars, edits, histVars>>

-----------------------------------------------------------------------------
(* The environment *)

\* The kernel drops the flock of a dead process; the disk stays as it is.
Crash(p) ==
    /\ pc[p] \notin Ended
    /\ Return(p, "crashed")
    /\ UNCHANGED <<diskVars, runs, stage, faults, edits, histVars>>

\* The user or OpenCode adds or removes an entry of opencode.json.
Edit ==
    /\ edits < MaxEdits
    /\ edits' = edits + 1
    /\ \E e \in Entries :
         \/ file' = [file EXCEPT ![Doc] = Json(@.has \cup {e})]
         \/ file' = [file EXCEPT ![Doc] = Json(@.has \ {e})]
    /\ file' # file
    /\ raced' = (raced \/ holder # NoProc)
    /\ solo' = [p \in Procs |-> FALSE]
    /\ UNCHANGED <<backups, orphan, clock, holder, pc, runs, stage, callVars,
                   faults, atLock, base>>

Progress(p) ==
    \/ PlanStage(p) \/ AcquireApplyLock(p) \/ LockTimeout(p)
    \/ SkipNoop(p) \/ WriteEqual(p) \/ ReadExisting(p) \/ PruneBackups(p)
    \/ WriteBackupTemp(p) \/ RenameBackup(p) \/ RenameTarget(p) \/ ApplyDone(p)
    \/ UndoSkip(p) \/ UndoTruncate(p) \/ UndoRestore(p) \/ UndoRemove(p)
    \/ ApplyFailed(p) \/ RefreshShellEnv(p) \/ SyncPlugins(p)

Failure(p) ==
    \/ PlanFails(p) \/ LockFails(p) \/ WriteFails(p) \/ UndoFails(p)
    \/ StageFails(p) \/ Crash(p)

Next ==
    \/ \E p \in Procs : Start(p) \/ Progress(p) \/ Failure(p)
    \/ Edit

Spec == Init /\ [][Next]_vars

\* A running process is scheduled; nobody has to start, edit or crash.
Fairness == \A p \in Procs : WF_vars(Progress(p))

FairSpec == Spec /\ Fairness

-----------------------------------------------------------------------------
(* Correctness *)

\* The apply lock serialises the writers: an invocation is between taking
\* the lock and returning from render.Apply exactly when it holds the lock,
\* so a crash or an error never leaves the lock behind and no two
\* invocations are inside WriteAtomic or rollback (apply.go, lock_unix.go).
LockExclusion == \A p \in Procs : pc[p] \in Holding <=> holder = p

\* The backup of a file that p has replaced in this stage.
HasBackup(p, i) ==
    \E b \in backups[plan[p][i].path] :
        /\ b.at = results[p][i].bak
        /\ raced \/ b.doc = atLock[plan[p][i].path]

\* As long as an invocation may still roll back, the backup of every target
\* it has replaced is on disk with the content from before the stage:
\* neither pruning nor a failing WriteAtomic takes it away (apply.go:44,
\* backup.go:44).
RollbackPossible ==
    \A p \in Procs : \A i \in DOMAIN results[p] :
        results[p][i].wrote /\ results[p][i].bak # 0 => HasBackup(p, i)

\* Rotation: a file never has more than MaxBackups backups (backup.go:44).
BackupRetention ==
    \A f \in Paths : Cardinality(backups[f]) <= MaxBackups

\* The target counts as written and has no backup although the file existed:
\* WriteAtomic found the new content in place, or backups are suppressed.
Unbacked(p, i) ==
    /\ i \in DOMAIN results[p]
    /\ results[p][i].wrote
    /\ results[p][i].bak = 0
    /\ atLock[plan[p][i].path] # Absent

\* A stage that fails is all or nothing: when rollback has ended without an
\* error, every target of the stage, the failing one included, is as it was
\* when the lock was taken, unless somebody wrote without the lock
\* (apply.go:13-16).  Unbacked targets are the exception that
\* RollbackRemovesOnlyCreated is about.
FailedStageRestored ==
    [][\A p \in Procs :
         /\ pc[p] = "rollback"
         /\ pc'[p] = "failed"
         /\ ~rbErr[p]
         /\ ~raced
         => \A i \in DOMAIN plan[p] :
              LET f == plan[p][i].path
              IN  file[f] = atLock[f] \/ Unbacked(p, i)]_vars

Rendered(p) ==
    /\ \A t \in TargetsOf(p) : t.declared \subseteq file[t.path].has
    /\ \A st \in StagesOf(p) : st.sync \subseteq file[Doc].has

\* An invocation that ends with success and that nobody has interfered with
\* since it started has rendered every stage of the stack, synced every
\* plugin, and kept every entry opencode.json had before, stale worktree
\* entries aside - whatever earlier runs left behind when they were killed
\* or failed (cmd/oca/apply.go:93, merge.go, array_merge.go).
SoloRunRenders ==
    \A p \in Procs :
        pc[p] = "done" /\ solo[p] =>
            /\ Rendered(p)
            /\ base[p][Doc].has \ StaleOf(p) \subseteq file[Doc].has

\* Every started invocation ends: nobody waits for the lock for ever, and
\* neither the write loop nor the rollback loop runs for ever.
EveryRunEnds ==
    \A p \in Procs : (pc[p] \notin Ended) ~> (pc[p] \in Ended)

\* Rollback removes only files that the stage has created: "targets that
\* were newly created (no backup) are removed" (apply.go:15).
RollbackRemovesOnlyCreated ==
    [][\A p \in Procs, f \in Paths :
         /\ pc[p] = "rollback"
         /\ holder = p
         /\ file[f] # Absent
         /\ file'[f] = Absent
         => atLock[f] = Absent]_vars

\* Concurrent runs are serialised by the lock (mcp-apply spec,
\* rq-mcp-concurrency01): when all of them have succeeded and nobody else
\* has written, what each of them declares is on disk.
SerializedRunsRender ==
    /\ \A p \in Procs : pc[p] = "done"
    /\ edits = 0
    => \A p \in Procs : Rendered(p)

=============================================================================
