------------------------------- MODULE Watchdog -------------------------------
(***************************************************************************)
(* The state file of one tmux pane and those who write it: OCA's plugin in *)
(* the OpenCode process of the pane (plugins/oca/src: session tracking and *)
(* the watchdog that restarts a hung TUI), `oca pane restart-tui`, which   *)
(* the watchdog runs, and `oca watchdog reset`.                            *)
(*                                                                         *)
(* The plugin's trackers die with OpenCode, and the file stays: the bumps  *)
(* of a session are counted in the file.  The plugin replaces the file by  *)
(* rename; `reset` overwrites it in place with the fields it knows.        *)
(***************************************************************************)
EXTENDS Naturals, FiniteSets

CONSTANTS
    Sessions,      \* OpenCode sessions
    MaxBumps,      \* OCA_WATCHDOG_MAX_BUMPS
    MaxResets,     \* bound: runs of `oca watchdog reset`
    ResetCrashes   \* `reset` may be killed while the file is truncated

ASSUME WatchdogAssumption ==
    MaxBumps \in Nat /\ MaxResets \in Nat /\ ResetCrashes \in BOOLEAN

NoSession == "none"

VARIABLES
    tui,        \* the OpenCode process of the pane
    created,    \* the sessions that OpenCode has ever had
    tracked,    \* the plugin's trackers
    silent,     \* the busy ones without activity for the idle timeout
    paneFile,   \* the state file
    restart,    \* `oca pane restart-tui --force`
    reset,      \* `oca watchdog reset`
    resets,     \* how many of those there were
    bumped      \* history: restarts asked for since the last reset

watchdogVars == <<tui, created, tracked, silent, paneFile, restart, reset,
                  resets, bumped>>

NoFile == [kind |-> "none", session |-> NoSession, bumps |-> 0,
           status |-> "absent"]
Truncated == [NoFile EXCEPT !.kind = "corrupt"]
NoReset == [pc |-> "none", read |-> NoFile, replaced |-> FALSE]
NoRestart == [pc |-> "none", session |-> NoSession]

PaneFiles == [kind : {"none", "corrupt", "state"},
              session : {NoSession} \cup Sessions,
              bumps : 0..MaxBumps,
              status : {"absent", "active", "exhausted"}]

\* Fields have their types, and what `reset` writes back was a state with a
\* watchdog.
WatchdogTypeOK ==
    /\ tui \in {"running", "gone"}
    /\ created \in SUBSET Sessions
    /\ tracked \in [Sessions -> {"none", "idle", "busy"}]
    /\ silent \in SUBSET {s \in Sessions : tracked[s] = "busy"}
    /\ paneFile \in PaneFiles
    /\ paneFile.kind = "state" => paneFile.session \in created
    /\ restart \in [pc : {"none", "read", "check", "respawn"},
                    session : {NoSession} \cup Sessions]
    /\ reset \in [pc : {"none", "read", "truncated"}, read : PaneFiles,
                  replaced : BOOLEAN]
    /\ reset.pc # "none" => reset.read.kind = "state"
                            /\ reset.read.session \in created
    /\ resets \in 0..MaxResets
    /\ bumped \in [Sessions -> Nat]

WatchdogInit ==
    /\ tui = "running"
    /\ created = {}
    /\ tracked = [s \in Sessions |-> "none"]
    /\ silent = {}
    /\ paneFile = NoFile
    /\ restart = NoRestart
    /\ reset = NoReset
    /\ resets = 0
    /\ bumped = [s \in Sessions |-> 0]
--------------------------------------------------------------------------------
\* The new file is another inode: a `reset` that has opened the old one writes
\* where nobody looks.
AtomicWrite(f) ==
    /\ paneFile' = f
    /\ reset' = [reset EXCEPT !.replaced = @ \/ reset.pc = "truncated"]

\* session.created: whatever the file had, the watchdog's counter included.
SessionCreated(s) ==
    /\ tui = "running"
    /\ s \notin created
    /\ created' = created \cup {s}
    /\ AtomicWrite([kind |-> "state", session |-> s, bumps |-> 0,
                    status |-> "absent"])
    /\ UNCHANGED <<tui, tracked, silent, restart, resets, bumped>>

SessionDeleted(s) ==
    /\ tui = "running"
    /\ s \in created
    /\ tracked' = [tracked EXCEPT ![s] = "none"]
    /\ silent' = silent \ {s}
    /\ IF paneFile.kind = "state" /\ paneFile.session = s
       THEN AtomicWrite(NoFile) ELSE UNCHANGED <<paneFile, reset>>
    /\ UNCHANGED <<tui, created, restart, resets, bumped>>

\* session.status, session.idle.
SessionBusy(s) ==
    /\ tui = "running"
    /\ s \in created
    /\ tracked' = [tracked EXCEPT ![s] = "busy"]
    /\ silent' = silent \ {s}
    /\ UNCHANGED <<tui, created, paneFile, restart, reset, resets, bumped>>

SessionIdle(s) ==
    /\ tui = "running"
    /\ s \in created
    /\ tracked' = [tracked EXCEPT ![s] = "idle"]
    /\ silent' = silent \ {s}
    /\ UNCHANGED <<tui, created, paneFile, restart, reset, resets, bumped>>

\* message.part.updated: activity of one session counts for all of them.
MessagePartUpdated ==
    /\ tui = "running"
    /\ silent' = {}
    /\ UNCHANGED <<tui, created, tracked, paneFile, restart, reset, resets,
                   bumped>>

IdleTimeout(s) ==
    /\ tui = "running"
    /\ tracked[s] = "busy"
    /\ silent' = silent \cup {s}
    /\ UNCHANGED <<tui, created, tracked, paneFile, restart, reset, resets,
                   bumped>>

\* checkHang looks at the session of the file alone.
Hung(s) == s \in silent /\ paneFile.kind = "state" /\ paneFile.session = s

\* Mutant: one more.
HasLastBump(f) == f.bumps <= MaxBumps

HasBumps(f) == f.bumps < MaxBumps

\* Mutant: the counter is not written.
Uncounted(f) == [f EXCEPT !.status = "active"]

\* bumpSession, with bumps left.
Bumped(f) == [f EXCEPT !.bumps = @ + 1, !.status = "active"]

\* Mutant: the warning is all there is.
Warned(f) == [f EXCEPT !.status = "active"]

\* bumpSession, with none left.
Exhausted(f) == [f EXCEPT !.status = "exhausted"]

\* The interval of a minute outlasts the restart it began, which has ten
\* seconds.
CheckHang(s) ==
    /\ tui = "running"
    /\ restart.pc = "none"
    /\ Hung(s)
    /\ IF HasBumps(paneFile)
       THEN /\ AtomicWrite(Bumped(paneFile))
            /\ restart' = [NoRestart EXCEPT !.pc = "read"]
            /\ bumped' = [bumped EXCEPT ![s] = @ + 1]
       ELSE /\ AtomicWrite(Exhausted(paneFile))
            /\ UNCHANGED <<restart, bumped>>
    /\ UNCHANGED <<tui, created, tracked, silent, resets>>

\* OpenCode ends: by itself, or with its user.
TuiExits ==
    /\ tui = "running"
    /\ tui' = "gone"
    /\ tracked' = [s \in Sessions |-> "none"]
    /\ silent' = {}
    /\ UNCHANGED <<created, paneFile, restart, reset, resets, bumped>>

TuiStarts ==
    /\ tui = "gone"
    /\ tui' = "running"
    /\ UNCHANGED <<created, tracked, silent, paneFile, restart, reset, resets,
                   bumped>>
--------------------------------------------------------------------------------
\* respawn-pane: a new OpenCode, whose plugin tracks nothing yet.
RespawnPane ==
    /\ tui' = "running"
    /\ tracked' = [s \in Sessions |-> "none"]
    /\ silent' = {}
    /\ restart' = NoRestart
    /\ UNCHANGED <<created, paneFile, reset, resets, bumped>>

RestartReads ==
    /\ restart.pc = "read"
    /\ paneFile.kind = "state"
    /\ restart' = [pc |-> "check", session |-> paneFile.session]
    /\ UNCHANGED <<tui, created, tracked, silent, paneFile, reset, resets,
                   bumped>>

\* Without a state: --continue, whatever runs in the pane.
RestartContinues ==
    /\ restart.pc = "read"
    /\ paneFile.kind # "state"
    /\ RespawnPane

\* A dead pane, or one that runs opencode.
PaneChecked ==
    /\ restart.pc = "check"
    /\ restart' = [restart EXCEPT !.pc = "respawn"]
    /\ UNCHANGED <<tui, created, tracked, silent, paneFile, reset, resets,
                   bumped>>

Respawn ==
    /\ restart.pc = "respawn"
    /\ RespawnPane

\* Another program is found in the pane, or tmux fails.
RestartFails ==
    /\ restart.pc \in {"read", "check", "respawn"}
    /\ restart' = NoRestart
    /\ UNCHANGED <<tui, created, tracked, silent, paneFile, reset, resets,
                   bumped>>
--------------------------------------------------------------------------------
\* `oca watchdog reset` skips a file it cannot read, or without a watchdog.
ResetReads ==
    /\ reset.pc = "none"
    /\ resets < MaxResets
    /\ paneFile.kind = "state" /\ paneFile.status # "absent"
    /\ resets' = resets + 1
    /\ reset' = [pc |-> "read", read |-> paneFile, replaced |-> FALSE]
    /\ UNCHANGED <<tui, created, tracked, silent, paneFile, restart, bumped>>

\* os.WriteFile truncates the file before it writes.
ResetTruncates ==
    /\ reset.pc = "read"
    /\ reset' = [reset EXCEPT !.pc = "truncated"]
    /\ paneFile' = Truncated
    /\ UNCHANGED <<tui, created, tracked, silent, restart, resets, bumped>>

\* paneWatchdogState has the fields of the first version and the watchdog's:
\* the others, which no property reads, are lost.
ResetState(f) == [kind |-> "state", session |-> f.session, bumps |-> 0,
                  status |-> "active"]

ResetWrites ==
    /\ reset.pc = "truncated"
    /\ reset' = NoReset
    /\ IF reset.replaced THEN UNCHANGED <<paneFile, bumped>>
       ELSE /\ paneFile' = ResetState(reset.read)
            /\ bumped' = [bumped EXCEPT ![reset.read.session] = 0]
    /\ UNCHANGED <<tui, created, tracked, silent, restart, resets>>

ResetKilled ==
    /\ reset.pc = "read" \/ (ResetCrashes /\ reset.pc = "truncated")
    /\ reset' = NoReset
    /\ UNCHANGED <<tui, created, tracked, silent, paneFile, restart, resets,
                   bumped>>

RestartStep == RestartReads \/ RestartContinues \/ PaneChecked \/ Respawn
               \/ RestartFails
ResetStep == ResetTruncates \/ ResetWrites \/ ResetKilled

WatchdogNext ==
    \/ \E s \in Sessions :
         \/ SessionCreated(s) \/ SessionDeleted(s) \/ SessionBusy(s)
         \/ SessionIdle(s) \/ IdleTimeout(s) \/ CheckHang(s)
    \/ MessagePartUpdated \/ TuiExits \/ TuiStarts
    \/ RestartStep \/ ResetReads \/ ResetStep

\* The timer fires, restart-tui has deadlines, and `reset` waits for nothing.
WatchdogFairness ==
    /\ WF_watchdogVars(\E s \in Sessions : CheckHang(s))
    /\ WF_watchdogVars(RestartStep)
    /\ WF_watchdogVars(ResetStep)

WatchdogSpec == WatchdogInit /\ [][WatchdogNext]_watchdogVars
                /\ WatchdogFairness

\* What `oca watchdog status` shows of a pane.
ShownStatus(f) == IF f.status = "absent" THEN "disabled" ELSE f.status
--------------------------------------------------------------------------------
\* Between two resets a session is restarted no more often than allowed, though
\* every restart forgets what the plugin knew, and resets overlap it all.
BumpsBounded == \A s \in Sessions : bumped[s] <= MaxBumps

\* A session that hangs is not forgotten: it is restarted, or moves on, or
\* another one takes the pane, or `oca watchdog status` ends up saying that its
\* bumps are exhausted.  A file that is being overwritten is no excuse.
HangHandled ==
    \A s \in Sessions :
      Hung(s) ~> \/ s \notin silent
                 \/ ShownStatus(paneFile) = "exhausted"
                 \/ paneFile.kind # "corrupt" /\ paneFile.session # s
================================================================================
