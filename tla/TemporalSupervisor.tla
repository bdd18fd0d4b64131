-------------------------- MODULE TemporalSupervisor --------------------------
(***************************************************************************)
(* `oca temporal start | stop | restart`: the supervisor of a local        *)
(* Temporal dev server (internal/temporal/supervise.go).                   *)
(*                                                                         *)
(* A command evaluates the status (metadata file, is its PID alive, does   *)
(* the address answer), and then launches the server and records its PID,  *)
(* or signals the recorded process group and forgets it.  No lock is held. *)
(* The server lives on when the command ends; it may exit at any time, the *)
(* kernel may give its PID to somebody else, and other people run servers  *)
(* on the same address.                                                    *)
(***************************************************************************)
EXTENDS Naturals, FiniteSets

CONSTANTS
    Callers,    \* invocations of the commands
    Pids,       \* process identifiers
    NoPid,      \* "no metadata file"
    Recycled,   \* the PIDs among them that other programs may get
    Overlap,    \* whether commands may run at the same time
    MaxRuns,    \* bound: commands per caller
    MaxFaults   \* bound: failing file operations and launches

ASSUME PidAssumption == NoPid \notin Pids /\ Recycled \subseteq Pids

ASSUME TemporalBoundsAssumption ==
    Overlap \in BOOLEAN /\ MaxRuns \in Nat /\ MaxFaults \in Nat

VARIABLES
    meta,       \* the PID in temporal.pid.json
    proc,       \* what each PID is
    asked,      \* servers that were sent SIGTERM
    killed,     \* servers that were sent SIGKILL
    pc,         \* where each command is
    phase,      \* the half of it that runs: "start" or "stop"
    again,      \* Restart: start follows the stop
    pid,        \* the PID it has read from the metadata, or has launched
    up,         \* Status.Running
    reach,      \* Status.Reachable
    runs, faults,
    forsaken,   \* history: launched by a command that could not record it
    intruder    \* history: a foreign server has been there since Begin

osVars == <<proc, asked, killed>>
localVars == <<phase, again, pid, up, reach>>
boundVars == <<runs, faults>>
histVars == <<forsaken, intruder>>
vars == <<meta, osVars, pc, localVars, boundVars, histVars>>

\* "booting" and "serving" are servers that OCA has launched; a "foreign"
\* server listens on the configured address, an "other" program does not.
Kinds == {"free", "booting", "serving", "foreign", "other"}
Ours == {"booting", "serving"}

Ended == {"idle", "done", "failed", "crashed"}
Launching == {"waitReachable", "record"}
Stopping == {"checkAlive", "term", "waitStopped", "kill", "forget"}
Labels == Ended \cup Launching \cup Stopping \cup
    {"evaluate", "checkPid", "probe", "decide", "launch"}

\* The fields have their types, and a command has a PID to check, to signal,
\* to forget or to record wherever it goes on to do so (supervise.go:200).
TypeOK ==
    /\ meta \in Pids \cup {NoPid}
    /\ proc \in [Pids -> Kinds]
    /\ asked \in SUBSET Pids
    /\ killed \in SUBSET Pids
    /\ pc \in [Callers -> Labels]
    /\ phase \in [Callers -> {"start", "stop"}]
    /\ again \in [Callers -> BOOLEAN]
    /\ pid \in [Callers -> Pids \cup {NoPid}]
    /\ \A p \in Callers :
         pc[p] \in {"checkPid"} \cup Stopping \cup Launching => pid[p] # NoPid
    /\ up \in [Callers -> BOOLEAN]
    /\ reach \in [Callers -> BOOLEAN]
    /\ runs \in [Callers -> Nat]
    /\ faults \in Nat
    /\ forsaken \in SUBSET Pids
    /\ intruder \in [Callers -> BOOLEAN]

Init ==
    /\ meta = NoPid
    /\ proc = [q \in Pids |-> "free"]
    /\ asked = {}
    /\ killed = {}
    /\ pc = [p \in Callers |-> "idle"]
    /\ phase = [p \in Callers |-> "start"]
    /\ again = [p \in Callers |-> FALSE]
    /\ pid = [p \in Callers |-> NoPid]
    /\ up = [p \in Callers |-> FALSE]
    /\ reach = [p \in Callers |-> FALSE]
    /\ runs = [p \in Callers |-> 0]
    /\ faults = 0
    /\ forsaken = {}
    /\ intruder = [p \in Callers |-> FALSE]

Alive(q) == proc[q] # "free"
Listening == \E q \in Pids : proc[q] \in {"serving", "foreign"}
Managed(p) == pid[p] # NoPid

Goto(p, l) == pc' = [pc EXCEPT ![p] = l]

Fault ==
    /\ faults < MaxFaults
    /\ faults' = faults + 1

-----------------------------------------------------------------------------
(* EvaluateStatus *)

Begin(p) ==
    /\ pc[p] \in Ended
    /\ Overlap \/ \A q \in Callers : pc[q] \in Ended
    /\ runs[p] < MaxRuns
    /\ runs' = [runs EXCEPT ![p] = @ + 1]
    /\ \/ /\ phase' = [phase EXCEPT ![p] = "start"]
          /\ again' = [again EXCEPT ![p] = FALSE]
       \/ /\ phase' = [phase EXCEPT ![p] = "stop"]
          /\ \E b \in BOOLEAN : again' = [again EXCEPT ![p] = b]
    /\ intruder' = [intruder EXCEPT ![p] = \E q \in Pids : proc[q] = "foreign"]
    /\ Goto(p, "evaluate")
    /\ UNCHANGED <<meta, osVars, pid, up, reach, faults, forsaken>>

\* Without metadata only the address is probed.
ReadMetadata(p) ==
    /\ pc[p] = "evaluate"
    /\ pid' = [pid EXCEPT ![p] = meta]
    /\ up' = [up EXCEPT ![p] = FALSE]
    /\ reach' = [reach EXCEPT ![p] = FALSE]
    /\ Goto(p, IF meta = NoPid THEN "probe" ELSE "checkPid")
    /\ UNCHANGED <<meta, osVars, phase, again, boundVars, histVars>>

\* A dead PID: the status is "stale", and the address is not probed.
CheckPid(p) ==
    /\ pc[p] = "checkPid"
    /\ up' = [up EXCEPT ![p] = Alive(pid[p])]
    /\ Goto(p, IF Alive(pid[p]) THEN "probe" ELSE "decide")
    /\ UNCHANGED <<meta, osVars, phase, again, pid, reach, boundVars,
                   histVars>>

ProbeReachable(p) ==
    /\ pc[p] = "probe"
    /\ reach' = [reach EXCEPT ![p] = Listening]
    /\ Goto(p, "decide")
    /\ UNCHANGED <<meta, osVars, phase, again, pid, up, boundVars, histVars>>

\* Both Start and Stop refuse a server they have no metadata for.
RefuseUnmanaged(p) ==
    /\ pc[p] = "decide"
    /\ ~Managed(p)
    /\ reach[p]
    /\ Goto(p, "failed")
    /\ UNCHANGED <<meta, osVars, localVars, boundVars, histVars>>

\* The metadata is read or removed, or the CLI is looked for and started.
MayFail(p) ==
    \/ pc[p] \in {"evaluate", "launch", "forget"}
    \/ pc[p] = "decide" /\ phase[p] = "start" /\ Managed(p) /\ ~up[p]
    \/ pc[p] = "decide" /\ phase[p] = "stop" /\ (Managed(p) \/ ~reach[p])

Fails(p) ==
    /\ MayFail(p)
    /\ Fault
    /\ Goto(p, "failed")
    /\ UNCHANGED <<meta, osVars, localVars, runs, histVars>>

-----------------------------------------------------------------------------
(* Start *)

\* Seeded fault for NoOrphan: an unhealthy server is started once more.
RunningAndReachable(p) == Managed(p) /\ up[p] /\ reach[p]

AlreadyRunning(p) == Managed(p) /\ up[p]

StartNothing(p) ==
    /\ pc[p] = "decide" /\ phase[p] = "start"
    /\ AlreadyRunning(p)
    /\ Goto(p, "done")
    /\ UNCHANGED <<meta, osVars, localVars, boundVars, histVars>>

\* A stale record is removed before the launch.
StartClean(p) ==
    /\ pc[p] = "decide" /\ phase[p] = "start"
    /\ ~AlreadyRunning(p)
    /\ Managed(p) \/ ~reach[p]
    /\ meta' = IF Managed(p) /\ ~up[p] THEN NoPid ELSE meta
    /\ Goto(p, "launch")
    /\ UNCHANGED <<osVars, localVars, boundVars, histVars>>

Launch(p) ==
    /\ pc[p] = "launch"
    /\ \E q \in Pids :
         /\ proc[q] = "free"
         /\ proc' = [proc EXCEPT ![q] = "booting"]
         /\ pid' = [pid EXCEPT ![p] = q]
    /\ Goto(p, "waitReachable")
    /\ UNCHANGED <<meta, asked, killed, phase, again, up, reach, boundVars,
                   histVars>>

\* Whoever answers at the address counts.
Reached(p) ==
    /\ pc[p] = "waitReachable"
    /\ Listening
    /\ Goto(p, "record")
    /\ UNCHANGED <<meta, osVars, localVars, boundVars, histVars>>

\* The deadline of the wait or of the command passes.
NotReached(p) ==
    /\ pc[p] = "waitReachable"
    /\ asked' = asked \cup {q \in {pid[p]} : Alive(q)}
    /\ Goto(p, "failed")
    /\ UNCHANGED <<meta, proc, killed, localVars, boundVars, histVars>>

\* The final EvaluateStatus only reads.
WriteMetadata(p) ==
    /\ pc[p] = "record"
    /\ meta' = pid[p]
    /\ Goto(p, "done")
    /\ UNCHANGED <<osVars, localVars, boundVars, histVars>>

Forsake(p) ==
    forsaken' = IF pc[p] \in Launching /\ proc[pid[p]] \in Ours
                THEN forsaken \cup {pid[p]} ELSE forsaken

\* The server keeps running without a record.
WriteMetadataFails(p) ==
    /\ pc[p] = "record"
    /\ Fault
    /\ Forsake(p)
    /\ Goto(p, "failed")
    /\ UNCHANGED <<meta, osVars, localVars, runs, intruder>>

-----------------------------------------------------------------------------
(* Stop *)

StopDone(p) ==
    /\ Goto(p, IF again[p] THEN "evaluate" ELSE "done")
    /\ phase' = [phase EXCEPT ![p] = IF again[p] THEN "start" ELSE @]

\* Seeded fault for TypeOK: Stop goes on without a record.
AnyMeta == TRUE

HasMeta == meta # NoPid

\* Stop reads the metadata once more.
StopReadMetadata(p) ==
    /\ pc[p] = "decide" /\ phase[p] = "stop"
    /\ Managed(p) \/ ~reach[p]
    /\ pid' = [pid EXCEPT ![p] = meta]
    /\ IF HasMeta
       THEN Goto(p, "checkAlive") /\ UNCHANGED phase
       ELSE StopDone(p)
    /\ UNCHANGED <<meta, osVars, again, up, reach, boundVars, histVars>>

CheckAlive(p) ==
    /\ pc[p] = "checkAlive"
    /\ Goto(p, IF Alive(pid[p]) THEN "term" ELSE "forget")
    /\ UNCHANGED <<meta, osVars, localVars, boundVars, histVars>>

\* ESRCH when the process has gone in the meantime: Stop gives up.
Terminate(p) ==
    /\ pc[p] = "term"
    /\ asked' = asked \cup {q \in {pid[p]} : Alive(q)}
    /\ Goto(p, IF Alive(pid[p]) THEN "waitStopped" ELSE "failed")
    /\ UNCHANGED <<meta, proc, killed, localVars, boundVars, histVars>>

Stopped(p) ==
    /\ pc[p] = "waitStopped"
    /\ ~Alive(pid[p])
    /\ Goto(p, "forget")
    /\ UNCHANGED <<meta, osVars, localVars, boundVars, histVars>>

\* Seeded fault for OnlyDeadForgotten: no escalation to SIGKILL.
NoEscalation == "forget"

Escalation == "kill"

NotStopped(p) ==
    /\ pc[p] = "waitStopped"
    /\ Alive(pid[p])
    /\ Goto(p, Escalation)
    /\ UNCHANGED <<meta, osVars, localVars, boundVars, histVars>>

\* The second wait is not looked at: the metadata goes either way.
Kill(p) ==
    /\ pc[p] = "kill"
    /\ killed' = killed \cup {q \in {pid[p]} : Alive(q)}
    /\ Goto(p, IF Alive(pid[p]) THEN "forget" ELSE "failed")
    /\ UNCHANGED <<meta, proc, asked, localVars, boundVars, histVars>>

RemoveMetadata(p) ==
    /\ pc[p] = "forget"
    /\ meta' = NoPid
    /\ StopDone(p)
    /\ UNCHANGED <<osVars, again, pid, up, reach, boundVars, histVars>>

-----------------------------------------------------------------------------
(* The environment *)

Crash(p) ==
    /\ pc[p] \notin Ended
    /\ Forsake(p)
    /\ Goto(p, "crashed")
    /\ UNCHANGED <<meta, osVars, localVars, boundVars, intruder>>

Gone(q) ==
    /\ proc' = [proc EXCEPT ![q] = "free"]
    /\ asked' = asked \ {q}
    /\ killed' = killed \ {q}
    /\ forsaken' = forsaken \ {q}
    /\ intruder' = [p \in Callers |-> intruder[p] /\ proc[q] # "foreign"]

\* The dev server binds its address, or exits when somebody else has it.
Bind(q) ==
    /\ proc[q] = "booting"
    /\ IF Listening
       THEN Gone(q)
       ELSE /\ proc' = [proc EXCEPT ![q] = "serving"]
            /\ UNCHANGED <<asked, killed, histVars>>
    /\ UNCHANGED <<meta, pc, localVars, boundVars>>

\* Any process may end: by itself, by a signal, or with the machine.
Exit(q) ==
    /\ Alive(q)
    /\ Gone(q)
    /\ UNCHANGED <<meta, pc, localVars, boundVars>>

\* Somebody else starts a server on the address, or another program.
OthersStart(q) ==
    /\ q \in Recycled
    /\ proc[q] = "free"
    /\ \E k \in {"foreign", "other"} :
         /\ k = "foreign" => ~Listening
         /\ proc' = [proc EXCEPT ![q] = k]
    /\ UNCHANGED <<meta, asked, killed, pc, localVars, boundVars, histVars>>

Evaluate(p) ==
    \/ Begin(p) \/ ReadMetadata(p) \/ CheckPid(p) \/ ProbeReachable(p)
    \/ RefuseUnmanaged(p) \/ Fails(p) \/ Crash(p)

Start(p) ==
    \/ StartNothing(p) \/ StartClean(p) \/ Launch(p) \/ Reached(p)
    \/ NotReached(p) \/ WriteMetadata(p) \/ WriteMetadataFails(p)

Stop(p) ==
    \/ StopReadMetadata(p) \/ CheckAlive(p) \/ Terminate(p) \/ Stopped(p)
    \/ NotStopped(p) \/ Kill(p) \/ RemoveMetadata(p)

Next ==
    \/ \E p \in Callers : Evaluate(p) \/ Start(p) \/ Stop(p)
    \/ \E q \in Pids : Bind(q) \/ Exit(q) \/ OthersStart(q)

Spec == Init /\ [][Next]_vars

-----------------------------------------------------------------------------
(* Correctness *)

\* Commands that do not overlap leave no server behind that OCA does not
\* know of: a running one is on record, or about to be recorded by the
\* command that launched it, or told to go.  The only exception is a launch
\* whose command was killed or failed to write the record, because the
\* server comes before its record (supervise.go:147, :170).
NoOrphan ==
    \A q \in Pids :
        /\ proc[q] \in Ours
        /\ q \notin asked \cup forsaken
        => meta = q \/ \E p \in Callers : pc[p] \in Launching /\ pid[p] = q

\* The record of a server is removed only when the server is gone or has
\* been sent SIGKILL: one that ignores SIGTERM, outlives the deadline or is
\* merely unhealthy stays on record (supervise.go:115, :219).
OnlyDeadForgotten ==
    [][meta # NoPid /\ meta' = NoPid /\ proc[meta] \in Ours
       => meta \in killed]_vars

\* Start does not put a server next to one it does not manage: "refuses to
\* overwrite unmanaged reachable servers" (docs/design/cli-surface.md:458).
StartRefusesForeign ==
    [][\A p \in Callers :
         pc[p] = "decide" /\ pc'[p] = "launch" => ~intruder[p]]_vars

=============================================================================
