# Verification of Opencode-Advance (`oca`)

`oca` is a Go command line tool that installs, configures and looks after an
OpenCode workspace: it renders one `stack.toml` into the configuration files of
other programs, prepares git checkouts of plugins, runs a local Temporal dev
server, launches and reaps tmux sessions, repairs and maintains. There is no
resident process of its own: every command is a short-lived process, and what
commands share is the file system, the process table, tmux and git. The hard
behaviour is therefore not inside a command but between commands that overlap,
fail half way, are killed, or find what earlier ones have left.

This directory holds TLA+ models of that behaviour, TLC runs that check them on
small instances, and theorems that the TLA+ proof system has checked for every
instance. Source paths below are relative to `src/`.

- [Inventory](#inventory)
- [Modules](#modules)
- [What the runs check](#what-the-runs-check)
- [What is proved](#what-is-proved)
- [Where code and documentation disagree](#where-code-and-documentation-disagree)
- [What is not modelled](#what-is-not-modelled)
- [Plan](#plan)

## Inventory

| Part | State it keeps | Operations | Talks to | What makes it correct |
|---|---|---|---|---|
| Apply engine (`internal/render/apply.go`, `atomic.go`, `backup.go`, `cmd/oca/apply.go`) | managed files, `.bak.<nanos>` rotation, `apply.lock` | plan, lock, atomic write, backup, rollback, sync script | other `oca apply`, OpenCode, the user, plugin scripts | one writer at a time; a failing stage is undone; a rollback finds its backups; nothing of the user's is lost; a rerun converges |
| Stack configuration (`internal/config`) | none: `stack.toml` is the user's | parse, expand, default, validate | apply, diff, update, pin, maintain, session | an accepted stack is consistent; a setting is not lost on the way; what OCA does not know is kept |
| Rendering (`internal/render`) | `opencode.json`, `servers.yaml`, skills, `temporal.env` | plan one target, compose all, diff | OpenCode, Vision, the user | diff tells what apply does; apply after apply changes nothing; what is not declared stays; endpoints are served |
| Migration (`internal/migrate`) | writes `stack.toml` | from open-chad, init | files of an earlier set-up | what it writes is accepted |
| Temporal supervisor (`internal/temporal`, `cmd/oca/temporal.go`) | `temporal.pid.json`, the server process | start, stop, restart, status | kernel, dev server, foreign servers | no server without a record; no record dropped while the server lives; foreign servers left alone |
| Session manager (`internal/session`, `cmd/oca/session.go`) | tmux sessions, kill sentinels, OpenCode's session list | launch, attach, kill, kill all, restart, reap, exit hints | tmux server, OpenCode | an attached session is not reaped; bulk kills hit sessions of OCA only, and all of them; a hint tells the truth |
| Plugins (`internal/plugin`, `cmd/oca/pin.go`, `update.go`) | checkout, build output, `ref` in stack.toml, pin lock | prepare, update, pin | git remotes, build tools | pins do not lose each other; apply does not update; a build output is not taken for another commit's |
| Maintenance (`internal/maintain`, `cmd/oca/maintain.go`) | plan, worktrees, branches, build markers | plan, clean up, merge, rebuild | git, occupancy, sessions | what was merged is not lost, and is rebuilt; no worktree in use is removed |
| Pane state and watchdog (`plugins/oca`, `cmd/oca/pane.go`, `watchdog.go`) | pane state file, bump count, timers | event handlers, watchdog tick, restart-tui, reset | OpenCode events, tmux panes | at most the configured number of bumps; a stuck pane is not forgotten |
| Shell environment (`internal/render/env_file.go`, `internal/install/shellprofile.go`) | `env.sh`, `env.stamp`, the stamp each shell has seen | write and stamp, hook at each prompt | every interactive shell | a shell that has seen the newest stamp has the newest variables |
| Session debt (`internal/advruntime/session_debt.go`) | OpenCode's SQLite database, backups | scan, backup, delete | OpenCode, which writes too | nothing is deleted that is not backed up, or not debt |
| Install, uninstall (`internal/install`) | marked blocks in shell rc files | install, uninstall | the user's editor, other shells | blocks come and go whole; the rest of the file stays |
| Dashboard (`internal/dashboard`) | snapshot, subscribers | pollers, SSE, shutdown | browsers | a subscriber ends up with the newest snapshot; shutdown ends |
| Occupancy (`internal/occupancy`) | none | classify processes by worktree | `/proc`, `ps` | a busy worktree is never reported free |
| Update probe, health checks, Advance scanners and scripts, subprocess runner, themes | none that a later step depends on | report, run, print | files, git, Temporal CLI | see [What is not modelled](#what-is-not-modelled) |

The parts interact through files: `apply`, `install`, `pin` and `maintain` read
`stack.toml`; `apply` prepares plugins and then renders them; `maintain` reads
occupancy and sessions and then changes checkouts; the supervisor's
`temporal.env` is rendered by `apply`. `PROJECT.json` lists the hazards of all
parts at the lines where they bite, with the properties that cover them or the
reason why none does.

## Modules

| Module | Models | Depends on |
|---|---|---|
| `ApplyEngine` | `oca apply` from planning to the sync script | |
| `StageTransaction` | what a stage of it promises: a transaction on files | |
| `ApplyTransaction` | the refinement mapping between the two | `ApplyEngine`, `StageTransaction` |
| `ApplyEngineProofs` | its theorems: types and lock, what a run alone renders; rollback and backup rotation; the refinement | `ApplyTransaction` |
| `MCApplyEngine` | stacks and invocations for TLC | `ApplyTransaction` |
| `Documents` | TOML and JSON documents | |
| `StackConfig` | loading `stack.toml`: parse, expand, defaults, validate | `Documents` |
| `RenderStack` | what a stack makes of each file, target by target | `StackConfig` |
| `Migrate` | `oca migrate` | `RenderStack` |
| `ConfigPipeline` | apply, diff and migrate on changing files | `Migrate` |
| `ConfigProofs` | theorems about accepted stacks, the plan, the user's keys and settings | `ConfigPipeline` |
| `SettledProofs` | lemmas: when a target has nothing to do, and that no target changes that for another | `ConfigProofs` |
| `ConvergenceProofs` | theorems about applies that are repeated or resumed, endpoints, the user's array entries and unknown keys | `SettledProofs` |
| `MCConfigPipeline` | pieces of `stack.toml` and users' documents | `ConfigPipeline` |
| `PluginLifecycle` | checkouts under apply, update, pin and maintain | |
| `PluginProofs` | its theorems | `PluginLifecycle` |
| `MCPluginLifecycle` | two plugins, three commits | `PluginLifecycle` |
| `Watchdog` | one pane: plugin, `restart-tui`, `watchdog reset` | |
| `WatchdogProofs` | its theorems | `Watchdog` |
| `MCWatchdog` | two sessions | `Watchdog` |
| `TemporalSupervisor` | `oca temporal start`, `stop`, `restart` | |
| `TemporalProofs` | its theorems | `TemporalSupervisor` |
| `MCTemporalSupervisor` | symmetry for TLC | `TemporalSupervisor` |
| `SessionLifecycle` | `oca session new`, `attach`, `kill`, `killall`, `restart`, `reap` | |
| `SessionProofs` | its theorems | `SessionLifecycle` |
| `MCSessionLifecycle` | names and symmetry for TLC | `SessionLifecycle` |

Apply is seen from two sides. `ApplyEngine` has the processes, the lock, the
steps of each write and the failures, and hardly looks into a file;
`ConfigPipeline` has the content of the files and one apply at a time.

### ApplyEngine

`Invocation[p]` is the list of stages that the invocation `p` runs
(`applyTargetsInOrder`): each has targets (`TargetOp`) and what its plugin's
sync script adds to `opencode.json`. `pc[p]` says where `p` is:

| `pc` | code | actions |
|---|---|---|
| `plan` | `PlanMCP`, `PlanPlugins`, ... | `PlanStage`, `PlanFails` |
| `lock` | `AcquireApplyLock` | `AcquireApplyLock`, `LockTimeout`, `LockFails` |
| `write` | the loop of `render.Apply`, and the reading half of `WriteAtomic` | `SkipNoop`, `WriteEqual`, `ReadExisting`, `ApplyDone` |
| `prune`, `backupTemp`, `backupRename`, `rename` | the rest of `WriteAtomic`, one file operation each | `PruneBackups`, `WriteBackupTemp`, `RenameBackup`, `RenameTarget`, `WriteFails` |
| `rollback`, `restore` | `rollback` | `UndoSkip`, `UndoTruncate`, `UndoRestore`, `UndoRemove`, `UndoFails`, `ApplyFailed` |
| `env`, `sync` | `emitPlanOrApplyWithOpts`, `applyPlugins` | `RefreshShellEnv`, `SyncPlugins`, `StageFails` |

`Crash(p)` kills an invocation at any label; the kernel drops its lock and the
disk stays as it is. `Edit` is OpenCode or the user writing `opencode.json`.
A document is the set of its entries: rendering adds what is declared, drops
stale worktree entries and keeps the rest, and the printing of JSON is left
out. Files that OCA owns entirely (`whole`) are replaced. A file that exists
with no bytes (`Truncated`) is a state of its own, because `os.WriteFile` in
rollback goes through it.

`atLock`, `raced`, `base` and `solo` are history variables: the files when the
lock was taken, whether somebody wrote without it since, the files when a run
started, and whether anybody else has written since. No action of the program
reads them.

### TemporalSupervisor

`meta` is the PID in `temporal.pid.json`; `proc` says what each PID is: free, a
server of OCA's that has not bound its address yet (`booting`) or that answers
(`serving`), a server of somebody else's at the same address (`foreign`), or
another program (`other`). A command goes through `EvaluateStatus` (`evaluate`,
`checkPid`, `probe`), decides (`decide`), and then starts (`launch`,
`waitReachable`, `record`) or stops (`checkAlive`, `term`, `waitStopped`,
`kill`, `forget`); `again` makes a restart go back to `evaluate` after the stop.
The waits are not timed: `NotReached` and `NotStopped` may happen at any
moment of the wait, which covers every deadline and every cancelled context.
Servers live on when commands end, and any process may exit at any moment.

`Overlap` is whether commands may run at the same time. The code takes no lock
and nothing in the repository promises that overlapping commands are safe, so
the passing run and the theorems about the record are for commands one after
the other (with kills in between). `forsaken` and `intruder` are history
variables for the two exceptions that properties name.

### SessionLifecycle

A session is an index of `born`, the sequence of the names of all sessions ever
created, so that a property can tell a session from a later one of the same
name; `live` are those tmux has now, `idle` those without recent activity.
`Target(n)` is what tmux makes of `-t n`: the session of that name, or the only
one whose name starts with it (`Longer`). Every call of a command to tmux is a
step of its own:

| `pc` | code | actions |
|---|---|---|
| `next`, `create` | `runSessionNew`, `Restart` | `NextSessionName`, `Create` |
| `list`, `killing` | `KillAll`, `ReapStale`, `newSessionReapCmd`, and the goroutine of `runSessionNew` | `List`, `KillNext`, `AllKilled`, `Returns` |
| `sentinel`, `kill`, `verify` | `newSessionKillCmd`, `Restart` | `WriteKillSentinel`, `SentinelFails`, `Kill`, `VerifyDead` |
| `resolve`, `connect`, `attached` | `newSessionAttachCmd`, `AttachAndWait` | `ResolvePath`, `Attach`, `ClientExits`, `Expire` |
| `checkSession`, `checkSentinel`, `cleanFound`, `cleanNone`, `query` | `emitResumeHintIfNeeded` | `SessionExists`, `CheckKillSentinel`, `CleanupKillSentinel`, `EmitHint`, `NoHint` |

`Stops(p)` ends a command anywhere: a tmux call fails, a context expires, or the
process is killed. The exceptions are two calls whose failure is read as an answer.
`has-session` that fails means "no session" (`SessionExists`), and `list-sessions` that
fails, times out or is cancelled without any output means that there are none
(`isNoSessionsOutput`): `Listings` lets each list of `new`, `killall`, `reap` and
`restart` be what tmux has, or empty. (`GetSessionPath` of `attach` ends the command
on an empty list, as `Stops` does.) After `new` has created its session, the background
reap starts; the command may return, and take it down, at any moment
(`Returns`). Preflight warnings, tmux's global environment and the boot splash
change nothing that these commands read.

`listed`, `unanswered`, `fresh` and `marked` are history variables: what a bulk
command should have listed, the commands to which tmux has failed to answer (a bulk
command its list, a client for another reason than the expired context), the kills whose sentinel is in place,
and the sessions they have killed. No guard reads them.

### StageTransaction and ApplyTransaction

`StageTransaction` is what a caller of `render.Apply` may rely on: one process
at a time changes files, each with a whole content (`Change`); a stage that
gives up puts back what it has changed (`Undo`), and ends with every file as
before or removed (`Abort`, `Restored`) unless undoing has failed (`stuck`) or
somebody has written the shared file without the lock (`disturbed`); a process
that dies leaves what is there. It has no plans, backups, temporary files or
loops. `ApplyTransaction` maps `ApplyEngine` to it: the files are the same, the
lock holder too, and the phase of a process follows from its label and from
whether its rollback has collected errors (`PhaseOf`).

### Documents, StackConfig, RenderStack

A document is a function from key paths to leaves: a string, number, boolean,
array or empty table. `f ++ g` is what TLC's `@@` is, `Union` is written without a
fold and `Selected` is `SelectSeq` without recursive operators, because the theorems
are about them. `KeyPaths` are the keys that
a document really has: sequences of names, none below another. Writing a document is writing these; the bytes, key order
and comments are left out, so "nothing to write" is equality of documents
(the code compares bytes, which the merges keep canonical).

`StackConfig` follows `config.Load`: `Parsed` (what each key of each section
must be, what happens to a value of another type, and to a key that is not
known: it is passed on as `Extra`, dropped, or an error), `Resolved` (variables,
`{tokens}` of plugins, defaults), and one `...Valid` operator per validation
function. What strings look like is a matter of constants: which have a
variable, a token, a `/mcp` suffix or a duration in them. `Load` returns
`NotLoaded` where the code returns an error.

`RenderStack` has the targets of `plan.go`: the MCP entries (`MergeMCP`), the
arrays of plugins, instructions and ignored paths (`MergeArrayAt`), the sections
that are merged key by key (`Translated`, `MergeKeys`, with the two maps that are
no `map[string]any`: `OpaqueTables`), Vision's registry (`VisionServers`), skills
and `temporal.env`. `NextDoc` is one target, `Composed` is `ComposeApplyPlan`,
and `Drift` is `oca diff`.

### Migrate and ConfigPipeline

`Migrate` reads an earlier set-up (the old `opencode.json`, Vision's registry,
git checkouts) and emits `stack.toml` (`EmitTOML`), or the starter stack.

`ConfigPipeline` puts these in motion. `stack.toml` consists of pieces
(`Blocks`) that the user adds and removes, or was written by `oca migrate`;
`BeginApply` loads it once, `ApplyDocument`, `ApplySkills` and `ApplyTemporal` go
through the targets, each from the file as it is then; `EditDocument` and
`EditSkill` may change a file between two targets; `Kill` ends an apply between
two targets, or between the two files of the MCP target. `plan` is what
`oca diff` would have said when the apply began.

### PluginLifecycle

A checkout (`repo`) has a local branch, the commit that was last fetched, HEAD on
the branch or detached, and whether it has changes; `dist` is the set of plugins
whose dist index is there, `marker` the commit in `dist/oca-build.json`. What is in
an output is not modelled: the code looks at no more than these two. `Compiled` are
the plugins with build commands; without them `RunBuild` does nothing, and `maintain`
writes its marker all the same. A command has a list of steps, one per plugin
(`todo`), and every git call, build and file operation of a step is an action:

| step | code | actions |
|---|---|---|
| `prepare` | `plugin.Prepare` | `Inspect`, `Clone` or `Fetch` and `Checkout`, `BuildStarts`, `BuildEnds` |
| `update` | `newUpdateCmd` | `SkipPinned`, or `Fetch`, `Checkout`, `BuildStarts`, `BuildEnds` |
| `pin` | `CapturePin`, `WritePin` under the apply lock | `CapturePin`, `ReadStack`, `WritePin` |
| `merge` | `executeMerge` | `CheckMerge`, `Merge` |
| `rebuild` | `executeRebuild` | `BuildStarts`, `BuildEnds`, `WriteBuildMarker` |

Commands load the refs of `stack.toml` when they start (`refs`); only `pin` takes
the lock, and it reads the file again. A build is two steps, so that others may move
HEAD in between, and only `maintain` marks what it has built, with HEAD as it is then.
`Quit` ends a command anywhere, for an error or an interrupt. The session gate and
the plan of `maintain` are its first action; drift is computed before the merges, as
in `plan.go`. The bound `Alone` keeps other commands, though not the user's edits,
from running next to it, so nothing but these comes between the plan of a
`maintain` and its execution.

`asked`, `pinned`, `merged` and `owed` are history variables: the commits that the
user has asked for, the refs written by pins, the merged commits, and, for each
plugin, the commits that maintenance has merged or begun to rebuild and has not
rebuilt to the end since. No action reads them.

### Watchdog

The state file of a pane (`paneFile`), the plugin's trackers, which die with
OpenCode, and the three writers: the plugin (rename), `oca pane restart-tui
--force`, which the plugin runs and which outlives it, and `oca watchdog reset`,
which truncates and writes in place (`ResetTruncates`, `ResetWrites`; a file
that was replaced meanwhile keeps the plugin's content). `CheckHang` is the tick
of the interval for the session of the file; activity of any session counts for
all (`MessagePartUpdated`), as in the code. `bumped` counts the restarts since
the last reset and is a history variable.

## What the runs check

| Run | Instance | Shows |
|---|---|---|
| `apply_concurrent` | two invocations, one with the plugin stage and its script; one fault, one edit, kills anywhere | `TypeOK`, `LockExclusion`, `RollbackPossible`, `FailedStageRestored`, `EveryRunEnds`, and the refinement `StagesAreTransactions` (420,052 states) |
| `apply_rerun` | one invocation of three stages started up to three times; two faults, one edit, kills anywhere | `BackupRetention`, `SoloRunRenders` |
| `apply_rollback_removes` | two invocations of the MCP stage, one fault | `RollbackRemovesOnlyCreated` is violated |
| `apply_serialized` | two invocations of the same stack, no fault | `SerializedRunsRender` is violated |
| `config_pipeline` | one of fifteen pieces of `stack.toml` to begin with, six documents, one edit or migration, two applies, one kill | `PortsDisjoint`, `SettingsKept`, `PlanIsApplied`, `Resumable`, `InSync`, `EndpointsServed`, `MigratedIsAccepted`, `ExtrasPassThrough`, `UserKeysSurvive`, `UserEntriesSurvive` (161,609 states) |
| `user_permissions` | the same, one apply, no kill | `UserPermissionsSurvive` is violated |
| `plugin_maintain` | two callers, two commands each, on two plugins (with and without build commands) and three commits; publishing, edits, interrupts anywhere | `TypeOK`, `PinsSurvive`, `NoSilentUpdate`, `RebuildsRetried`, `MergesStay` (2,301,840 states up to symmetry) |
| `watchdog` | two sessions, two bumps, two resets, exits of OpenCode | `WatchdogTypeOK`, `BumpsBounded`, `HangHandled` (42,461 states) |
| `temporal_sequential` | two callers, two commands each, three PIDs one of which others may use, one fault, kills anywhere | `TypeOK`, `NoOrphan`, `OnlyDeadForgotten` |
| `temporal_foreign` | one caller, two commands, no fault | `StartRefusesForeign` is violated |
| `session_commands` | three commands at once, two sessions, three names | `TypeOK`, `KillAllComplete`, `BulkSparesCustom`, `HintTruthful`, `KillSuppressesHint` (3,149,985 states up to symmetry) |
| `session_reap` | the same with `attach` and `reap` only | `CandidatesDetached` is violated |

The bounds, and why they are enough:

- Apply: two files suffice for a stage whose second target fails after the
  first was written; two backups per file (the code's limit is a constant that
  the model takes as `MaxBackups`) and three runs make the rotation drop one.
  One fault per run makes every operation fail once, two make a rollback fail
  as well. `MaxRuns`, `MaxFaults` and `MaxEdits` bound the counters in the
  guards of `Start`, `Fault` and `Edit`.
- Configuration: the pieces have, between them, every section, the interesting
  shapes of its keys (zero, false, of another type, unknown, nested, colliding,
  not accepted) and each kind of plugin and server; one may be there at first
  and one be added or removed, so that two meet, or a stack shrinks between two
  applies. The user's documents have entries that are declared, foreign, stale
  or of the wrong type, an old set-up to migrate, and one that is no object. Of those
to migrate one has servers of every transport and of none, one a type that OCA does
not know (OpenCode's `local`), and one a server on a port that the old registry has
given to another, so that the exclusions of `Migratable` are met too.
  `MaxBlocks`, `MaxEdits`, `MaxApplies`, `MaxKills` and `Alone` (the targets an
  apply is asked for by name) are the bounds.
- Plugins: two published commits, so that a fetch can bring something nobody
  asked for, and a change made on top of the first, so that a merge may
  fast-forward or not; one plugin with a checkout and build commands, and one without
  either, whose repository has its dist index. Two commands at a time are enough for
  what one has loaded to be stale, and four in all (`MaxRuns`) for a maintenance that
  fails, two commands that move HEAD away, back and build, and the maintenance that
  has to see it. `maintain` runs alone (`Alone`), the others in any mix. Symmetry
  exchanges the callers, and the properties are safety properties.
- Watchdog: two bumps are the fewest where "one more" and "not counted" differ;
  two sessions let one take the pane from a hung one; two resets let one
  overlap a bump after another has cleared it (`MaxResets`). `ResetCrashes` is
  FALSE: `reset` killed while the file is truncated leaves a file that the
  watchdog cannot read, and a hang then stays until a new session writes it.
- Temporal: four commands are enough for start, a server that dies or is killed,
  a PID that somebody else gets, and a stop or restart on the stale record;
  three PIDs let a second server, a first one and another program coexist.
  Symmetry exchanges callers, and PIDs that nobody else may get; it is used
  with safety properties only.
- Sessions: two clients of one session and a third command that kills it, or
  lists it before it is replaced by another; two sessions let one die and one
  with the same name, or with a name that starts with it, take its place. Two
  names have the prefix "oca-", and one of them starts the other; the third has
  no prefix and starts both. `MaxSessions` and `MaxRuns` bound the guards of `Create` and
  `Begin`; `Numbered` ends the numbers that `NextSessionName` makes up.
  Symmetry exchanges the commands, and the properties are safety properties.

`CHECK_DEADLOCK FALSE` is set in all runs because commands end.

Fairness: two properties need it. `HangHandled` assumes weak fairness of the
watchdog's tick, of the steps of a running `restart-tui` and of those of a
running `reset` (`WatchdogFairness`): the interval fires every minute as long as
OpenCode runs, `restart-tui` is given ten seconds and ends one way or the other,
and `reset` waits for nothing. Nothing is assumed of OpenCode, its user or tmux.
`EveryRunEnds` assumes weak fairness of `Progress(p)`, the steps a
running process takes when the operating system schedules it and its file
operations return. There is none for starting, editing, failing or dying. The
lock wait needs no more than that: either the lock is free, or the deadline
passes (`LockTimeout`), and both are steps of the waiting process itself.

Each module has seeded faults: operators marked so in a comment, in the form of
a plausible mistake in the code (a lock that is always granted, a backup of the
new content, a missing escalation). `PROJECT.json` pairs each property of a
passing run with one that breaks it.

## What is proved

All theorems hold for every value of the constants under the named assumptions
of the modules, which TLC evaluates on each instance: `NoProcAssumption`,
`BoundsAssumption`, `InvocationAssumption`; `PidAssumption`,
`TemporalBoundsAssumption`; `NamesAssumption`, `SessionBoundsAssumption`;
`GitAssumption`, `PluginAssumption`; `WatchdogAssumption`; `StringAssumption`,
`NameAssumption`, `BundleAssumption` (lists of names are sequences of strings). Three
of them carry more than types:

- `StackAssumption` (`ApplyEngine`): the targets of one invocation come from one
  `stack.toml`, so none drops as stale what another one declares in the same
  file, and the files that several targets share are merged, not rewritten.
- `AncestorAssumption` (`PluginLifecycle`): an ancestor's ancestors are ancestors, and
  no commit is its own.
- `UserAssumption` (`ConfigPipeline`): what users write into `opencode.json`,
  `stack.toml` and an old registry are documents (paths of names, leaves that a file
  can have), and no `opencode.json` is the value with which the model marks a target
  that could not be planned. That a document is a tree is not assumed: a
  `stack.toml` that is none is refused by the parser.

**Apply engine.**
- `TypeCorrect` (`[]TypeOK`): with types, the range of `stage`, `plan` and `idx`
  at each label (`PlaceOK`) has to be inductive, because the loops index
  `Plan.Targets` and `ApplyResult.Targets`.
- `LockCorrect` (`[]LockExclusion`): a process is between acquiring the lock and
  returning from `render.Apply` exactly when it is the holder.
- `RollbackIsPossible` (`[]RollbackPossible`) and `RollbackRestores`
  (`FailedStageRestored`) need an invariant that relates the stage to the disk:
  at each label and for each target, whether the file is still as it was when
  the lock was taken, what WriteAtomic has read, and which backup holds it
  (`IInv`). Lock exclusion makes it stable under other invocations; distinct
  paths within a stage (`InvocationAssumption`, which every plan of the code
  meets) make it stable under the other targets; and backup names that only
  grow (`clock`) make pruning, which keeps the newest, leave this stage's
  backups in place.
- `RetentionCorrect` (`[]BackupRetention`): whoever is about to rename a backup
  into place has made room for it, and nobody else can have used that room.
- `StagesImplementTransactions` (`StagesAreTransactions`): initial states map to
  initial states and each step to a step of `StageTransaction` or a stutter, with
  one case per action. Most follow from the action alone. `Abort` needs that a
  rollback without an error has put everything back: `FInv` adds to `IInv` which
  files may differ from before the stage at each label (`FilesInv`: those that
  rollback has yet to come to), and that plans write whole documents
  (`WholeInv`, for `Change`).

- `SoloRunsRender` (`SoloRunRenders`): `SoloInv` says of every invocation that nobody
  has interfered with, at each label, what is already in the files: the targets of
  the stages that are done, those of this stage up to `idx`, and all that
  `opencode.json` had at the start. Each write has to keep it for every earlier
  target of the same file, which is where `StackAssumption` comes in. It holds
  whatever earlier runs have left, killed or failed, and at any number of faults.

**Stack configuration.**
- `AcceptedPortsDisjoint` (`PortsDisjoint`): from `ServersValid` and `GroupsValid`
  alone, for any number of servers, groups and slots. The code checks each group
  against what the others claim; the proof shows that this covers every pair of
  owners.

**Rendering.**
- `DiffTellsTheApply` (`PlanIsApplied`). `Composed` is a fold over the targets; the
  apply does one target per step. `ComposedNone` and `ComposedMore` say that the
  fold of no target is the document, and that of one more target is that target
  on the fold so far. They rest on `FoldExists` and `FoldAgrees` (there is such a
  recursive function, and how far it has come does not depend on what follows),
  which are inductions: `NatSetInduction` states induction for sets of numbers
  rather than for a predicate, and follows from the pigeonhole principle. The
  invariant is `PlanInv`: during a whole apply that nobody has interfered with there is a
  target `i` and a document such that `plan` is all targets on it, `doc` those before `i`,
  and `todo` the rest (`OnTheWay`).
- `UsersKeepTheirKeys` (`UserKeysSurvive`): one lemma per way in which a target
  writes (`MCPKeeps`, `ArrayKeeps`, `MergeKeysKeeps`), on `OverrideKeeps`: writing
  takes only what is related to a key that is written.
- `SettingsAreKept` (`SettingsKept`): a key that is a switch after decoding was one
  in the file (`ParsedSetting`); a strict key of another type is an error, so no
  default and no expanded string is at, above or below a switch
  (`SectionSetting`, `WatchdogSetting`, `PluginSetting`), except the defaults of
  the switches themselves, which are for keys that are not there.

- `AppliesResume` (`Resumable`) and `AppliesConverge` (`InSync`). The code has eleven
  targets that merge into one `opencode.json`; what could go wrong is that one undoes
  what another has written, or would write something else the second time. The
  argument has three parts.
  - *Settled documents* (`SettledProofs`). `Settled(target, t, d)` says in terms of
    keys when a target has nothing to do: `MCPSettled`, `ArraySettled`, `KeysSettled`.
    A target that is settled leaves the document as it is (`SettledStays`), and what a
    target writes is settled for it (`SettledBecomes`). For the keyed sections this
    needs that keys which are apart in the stack are apart in `opencode.json`: the
    translations rename keys, drop zeros and move the keys of models
    (`Shown`, `Emptied`, `JSONPath`), and if two keys met, or one came to lie below
    another, the second write would take the first.
  - *Targets next to each other.* `Tops` are the sections of `opencode.json` that a
    target writes. Settledness is a matter of these only (`SettledInSame`), a target
    leaves the others as they are (`TargetElsewhere`), and the `Tops` of two targets are
    disjoint for a stack that meets `OwnKeys` (`TopsApart`). So what is settled stays
    settled through every later target (`NextSettled`), and one target on, a whole
    apply makes the same document (`ComposedOn`).
  - *The invariant.* `ConfigInv` is `PlanInv`, `FilesInv` and `ResumeInv`. `FilesInv`: the files are
    documents and the loaded stack is a tree (`IsStack`), which has to be shown of
    decoding, expansion and every default (`LoadedStack`). `ResumeInv`: from where the
    apply is, the rest comes to `plan`, and the targets that are done are settled, Vision's
    registry is that of the stack, the skills are copied (`Done`). `FilesInv` and
    `ResumeInv`, in the form that each target done is a fixed point, were
    model-checked on the instance of `config_pipeline` before they were proved.
- `EndpointsAreServed` (`EndpointsServed`): the URL in `.mcp` and the registry's `port`
  or `group_port` come from different renderings of one stack. From `InSync` the
  entry is the one of the stack; `PortsInv` (ports are numbers: the decoder
  refuses others) and the shape of the nodes of servers and groups (`ServerListed`,
  `GroupListed`) show that the registry has the port.
- `UsersKeepTheirEntries` (`UserEntriesSurvive`): what `MergeArrayAt` writes is a
  selection of what was there, followed by what is missing; selections keep
  order and everything that is not declared or stale (`KeepsIn`).
- `ExtrasArePassedOn` (`ExtrasPassThrough`): a key that OCA does not know is left alone
  by decoding (`UnknownParsed`), by expansion and defaults (`UnknownLoaded`) and by the
  translation of its section (`UnknownTranslated`); that it is in the plan follows
  from the plan being settled (`ComposedSettled`), which is the same lemma as above.

**Plugins.**
- `PinsAreKept` (`PinsSurvive`): a pin at work has the lock, and what it is about
  to write is the file as it is with one ref changed (`PinInv`); nobody else writes
  the file while the lock is held.
- `UpdatesAreAskedFor` (`NoSilentUpdate`): the branch and HEAD of a checkout are at
  commits that were asked for (`CheckoutsInv`). That needs the refs too: every ref
  in the file, in a command that has loaded it or about to be written is the
  branch or such a commit (`RefsInv`), because pins turn HEADs into refs and
  checkouts turn refs into HEADs. `PluginTypeCorrect` is part of the same
  invariant `PInv`, which was model-checked first.
- `MergesAreKept` (`MergesStay`) and `UnfinishedIsRetried` (`RebuildsRetried`) are proved
  under `MaintainsAlone`: nobody runs another command next to `maintain`. It is what
  the change that brought `maintain` relies on ("offline quiescence",
  `.adv/archive/2026-05-04-standaloneMaintenanceCliOca/agreement.md:35`), but the code
  does not see to it (its session gate looks for `opencode` processes), and without
  it both are false: an update may detach HEAD between the check of the branch and the
  merge, and a second command may move HEAD between a build and its marker.
  The invariant `MInv` adds to `PInv` that who runs alone is alone (`RunsAlone`) and
  that merges and rebuilds are maintenance (`WorkInv`).
- `UnfinishedIsRetried` needs one assumption more, `ChangeIsLocal`: the remote has the
  released change only after it was merged. Without it an update may detach HEAD at
  the change and maintenance mark it, an apply go back to the branch and build that,
  and the merge then bring the branch to the marked commit: its rebuild, if it fails, is
  not seen to be due. `RInv` says that only the merge brings the change (`NovelInv`),
  that a plan has each rebuild once and what it has yet to rebuild is stale
  (`PlanInv`), and that the marker never names what is owed (`OwedInv`): moving HEAD
  away and back, applies and updates that build in between, failures and interrupts
  cannot make it, because only the last step of a rebuild writes it.

**Watchdog.**
- `BumpsAreBounded` (`BumpsBounded`): while the file is of a session, its restarts
  since the last reset are at most the count in the file, and a session that was
  never created has none (`CountInv`); a reset that writes clears both, and one
  whose file was replaced clears neither.

**Temporal supervisor.**
- `TypeCorrect` needs no assumption about overlap.
- `NoServerOrphaned` and `DeadAreForgotten` are proved for `~Overlap`. The
  invariant `RecordInv` follows the record through a command: what a command has
  read is what is on record (`ReadCurrent`); nothing is on record when it
  launches (`LaunchClean`), so writing a record overwrites none; a record found
  stale is not of a server of OCA's (`StaleDead`), so removing it loses
  nothing; and what Stop forgets is gone or has had both signals
  (`Signalled`).

**Sessions.**
- `TypeCorrect` includes that the lists of `killall` and `reap` hold names with
  the prefix only; `BulkKillSparesCustomSessions` follows, because a name that
  starts with such a name has the prefix too (`NamesAssumption`).
- `KillAllReachesAll`: as long as a command works whose list tmux has answered, every
  session of that list that lives is still to be killed (`ListedCovered`). A reported
  success means no more than this: see the exception below.
- `HintsAreTruthful`: once `has-session` has denied the session, it is gone, and a
  session never comes back (`SeenGone`, `SessionsStay`); an expired context,
  which makes the denial worthless, also keeps opencode from being asked.
- `KillsSuppressHints`: a session that a kill has marked is dead and its sentinel
  is there (`SentinelCovers`); the client that removes the sentinel forgets the
  sessions it stood for, so that a client past that point has none of them.
  The invariant `SessionInv` is the conjunction of these and was model-checked
  on the instance of `session_commands` before it was proved.

What the proofs have changed in the models:

- A build marker promises less than it seems. "What is marked was built of that commit"
  was false of more and more sequences (see below), and every one of them had to be
  exempted. `RebuildsRetried` states what the design promises of the marker, and its
  proof found the case that `ChangeIsLocal` excludes.
- `UserKeysSurvive` was false of a leaf in `opencode.json` above an empty table of
  the stack, which replaces the leaf: `Claims` now counts that as declared.
- `SettingsKept` was false of switches that the decoders pass over (`lsp = true`, a
  boolean `max_bumps`): `IsSetting` is now about what is left of them.
- `Unknown` had a `CASE` whose arms overlapped: of a path of length 1 it was only TLC's
  order of trying them that made it false. It is now a conjunction.
- `ParseFails` did not refuse a `stack.toml` with keys below a leaf, as the TOML parser
  does; TLC's pieces never had one, and nothing could be proved of the stack.
- `EndpointsServed` took every number under a key that ends in `port` for a port, those
  of a server's environment too, and was weaker for it.
- The array operators (`Appended`, `Preserved`, `EnabledPlugins`, `DeclaredInstructions`,
  `OnlyStrings`) use `Selected` instead of `SelectSeq`.

Only model-checked:

- `EveryRunEnds` and `HangHandled`: liveness under fairness is out of reach of the
  prover.
- `MigratedIsAccepted`: that what migration emits meets every part of `Valid` depends on
  which strings are durations, ports and commands, in old files that may have
  anything but what `Migratable` excludes, and on the texts of bundled assets, which are constants:
  the theorem would need assumptions on them that say as much as the property.

## Where code and documentation disagree

1. `RollbackRemovesOnlyCreated`: rollback takes a target without a backup path
   for one that the stage has created. `WriteAtomic` also returns none when the
   file already holds the new bytes, so a file another `oca apply` has just
   written is deleted when a later target fails (`internal/render/apply.go:98`,
   `internal/render/atomic.go:41`; the comment is at `apply.go:14`).
   `FailedStageRestored` states what is left of the promise (`Unbacked`).
2. `SerializedRunsRender`: the lock serialises the writing but not the planning,
   so concurrent runs of one stack can end without what it declares
   (`cmd/oca/apply.go:150`; `.adv/specs/mcp-apply/spec.md:17`).
3. `StartRefusesForeign`: with a stale record the address is not probed, and
   Start launches a server next to a foreign one
   (`internal/temporal/supervise.go:115`, `:413`;
   `docs/design/cli-surface.md:458`).
4. `CandidatesDetached`: tmux reports the number of clients, and the code
   compares it with 1, so a session with two clients may be reaped under them
   (`internal/session/session.go:765`, `:726`).

5. `UserPermissionsSurvive`: permissions of `bash` and `external_directory` are
   handed to the merge as `map[string]string`, which replaces the user's table as
   a whole (`internal/render/permissions.go:68`, `merge.go:82`;
   `docs/design/opencode-json-section-contract.md:61`).

Seen in the session model, and stated as exceptions of its properties:

- `kill-session -t`, `attach -t` and `has-session -t` are not exact, as the comments
  say (`session.go:623`): a name that is gone may hit the one session whose
  name starts with it. `BulkSparesCustom` is what is left of it for the bulk
  commands; `kill` may end a session of another name.
- `attach` gives everything ten seconds (`cmd/oca/session.go:421`), so no hint is
  printed after an attachment that lasted longer, although the comment at
  `session.go:382` promises one.
- A `list-sessions` that fails or times out without output is read as "no sessions"
  (`session.go:215`, `:350`, `:740`). `killall` and `reap` then report success with every
  session alive (`KillAllComplete` leaves such a command out: `unanswered`); `restart`
  takes a session it has failed to list for dead, and its `Create` is refused by tmux;
  `new` begins its numbers from the start, and may be refused too.
- The first client of a killed session removes the sentinel (`session.go:445`), so
  a second client of it prints a hint after all.

Seen while writing the configuration models; the models do what the code does:

- A local plugin without `path` has the path "." after `filepath.Clean("")`
  (`internal/config/resolve.go:157`), so the default `dist/index.js`
  (`internal/render/plugin.go:20`) is never used, although
  `.adv/specs/oca-plugin-session-tracker/spec.md:61` relies on it. A git plugin
  without `path` is accepted for the same reason.
- `internal/config/types.go:139` speaks of extra fields of a server that pass
  through; the server decoder drops them.
- Negative values of `base_port` and `group_port` are accepted; a
  `request_timeout` below a millisecond becomes 0; the one of a group's defaults
  is not validated.
- An explicit zero (`max_bumps = 0`, `reaper_threshold = "0s"`,
  `update_probe.default = ""`) counts as absent and is replaced by the default.
  `SettingsKept` is about booleans and the numbers of `update_probe`.
- Array entries of the user that are no strings are dropped by `MergeArray`.
- If `[opencode]` has keys of another target, `oca diff` reports drift for ever;
  `OwnKeys` excludes it from `InSync`, `Resumable` and `EndpointsServed`.
- An entry of a server that was removed from the stack stays in `.mcp`; a group
  with a server's name hides the server.
- `oca diff --target temporal` is listed as known and fails.
- Not everything that `oca migrate` writes is accepted, although
  `internal/migrate/openchad.go:1` says that it "produces valid stack.toml". The code
  warns of a type that it does not know (OpenCode's `local`) and of `remote` without a
  URL (`openchad.go:32-35`). It does not warn of two servers on one port, of an `http`
  URL that does not end with `/mcp`, of a `stdio` server whose command the registry
  does not have, of an untyped one with both command and URL, of a `daemon` with
  another name or a command, or of a server that has a slot group's port or a slot's
  name. So a set-up with slot groups that OCA has applied cannot be migrated: the
  group's entry in `.mcp` becomes a server with the group's port. `Migratable` excludes
  exactly these (leaving out any one of its conditions makes `MigratedIsAccepted`
  fail), and `MigratedIsAccepted` is about all the rest. The starter stack's
  `{checkout}/advance` and `{assets}/...` are never expanded.

Seen in the watchdog and plugin models:

- `oca watchdog reset` writes back only the fields it knows
  (`cmd/oca/watchdog.go:187`), so those of the second version of the file
  (`plugins/oca/src/watchdog.ts:21`) are lost.
- After the last bump the comment at `watchdog.ts:103` says that checking stops;
  the interval goes on and only the status keeps it from bumping.
- A marker that `DetectPluginDrift` takes for fresh may vouch for an output of something
  else: `apply` and `update` build without marking, so that a build of theirs which
  failed, or one of another commit before HEAD came back, is behind a marker that is
  right by its commit; `executeRebuild` does not look for changes in the checkout;
  the marker names HEAD at the end of the build, whatever moved it meanwhile; and a
  plugin without build commands is marked although nothing was built
  (`internal/plugin/build.go:29`, `internal/maintain/execute.go:114-122`). The design
  promises of the marker that a maintenance which did not end is found again, and that
  is `RebuildsRetried`.

## What is not modelled

Of the modelled parts: dry runs and `oca diff` (they write nothing), the option
`NoRollback` (set by a test only), the Windows stub of the lock (it is a seeded
fault), a disabled or remote Temporal configuration (nothing is started),
`temporal status` and `temporal logs` (they only read), `session list`, `switch`
and `doctor`, and project sessions with their windows.

Of configuration, rendering and migration: the bytes of files, warnings and
texts, the shapes of strings (constants), names that need quotes in TOML, and
the array form of open-chad's providers.

Of plugins and maintenance: `oca update` of named plugins only, symlinked build
directories, the removal of worktrees (`cleanup.go`), the processes that the
session gate looks at. Of the watchdog: `/oca` and `oca pane context`, which read.

Not modelled at all:

- Session debt repair deletes rows of OpenCode's database; its schema and its other
  writers are outside the repository, so a model would be of assumptions.
- The reading half of the shell environment is shell code that compares file times.
- Install and uninstall edit text between markers, one command at a time.
- The dashboard, the occupancy probe, the update probe, health checks and the
  Advance scanners read and report; the Advance sync script and the subprocess
  runner are represented by their effect (`SyncPlugins`, `Launch`).
- Commands' flags, printing, themes, completion.

## Plan

Done: the modules above. What would add most next, in this order; (P) is meant to
be proved about.

1. `Migrate` (P): `MigratedIsAccepted`, one part of `Valid` after the other, once the
   shapes of strings are more than constants.
2. Project sessions (`GetOrCreateProjectSession`) with their windows and the
   directory that goes stale, in `SessionLifecycle`.
3. Worktree cleanup next to sessions that start in the worktree, on top of
   `PluginLifecycle`.
4. `DashboardHub`: snapshots, bounded subscriber buffers, shutdown.
