---------------------------- MODULE TemporalProofs ----------------------------
(***************************************************************************)
(* Theorems about TemporalSupervisor for every set of commands and PIDs.   *)
(*                                                                         *)
(* Type correctness needs no assumption.  That no server is orphaned or    *)
(* forgotten alive is proved for commands that do not overlap, from an     *)
(* invariant that follows the record through a command: what a command has *)
(* read is still what is on record, so the PID it found dead, or has       *)
(* signalled, is the PID it takes off the record.                          *)
(***************************************************************************)
EXTENDS TemporalSupervisor, TLAPS

USE DEF vars, osVars, localVars, boundVars, histVars

-----------------------------------------------------------------------------
(* Types *)


\* The initial state has the types.
LEMMA TypeInit == Init => TypeOK
  BY PidAssumption DEF Init, TypeOK, Kinds, Labels, Ended, Launching, Stopping

\* A step of the status evaluation keeps the types.
LEMMA TypeEvaluate ==
    ASSUME TypeOK, NEW p \in Callers, Evaluate(p)
    PROVE  TypeOK'
<1> USE PidAssumption DEF TypeOK, Kinds, Labels, Ended, Launching, Stopping,
        Goto, Fault
<1>1. CASE Begin(p)
  <2>1. phase' \in [Callers -> {"start", "stop"}]
    BY <1>1 DEF Begin
  <2>2. again' \in [Callers -> BOOLEAN]
    BY <1>1 DEF Begin
  <2>3. intruder' \in [Callers -> BOOLEAN]
    BY <1>1 DEF Begin
  <2>4. runs' \in [Callers -> Nat]
    BY <1>1 DEF Begin
  <2> QED
    BY <1>1, <2>1, <2>2, <2>3, <2>4 DEF Begin
<1>2. CASE ReadMetadata(p)
  BY <1>2 DEF ReadMetadata
<1>3. CASE CheckPid(p)
  BY <1>3 DEF CheckPid, Alive
<1>4. CASE ProbeReachable(p)
  BY <1>4 DEF ProbeReachable, Listening
<1>5. CASE RefuseUnmanaged(p)
  BY <1>5 DEF RefuseUnmanaged
<1>6. CASE Fails(p)
  BY <1>6 DEF Fails
<1>7. CASE Crash(p)
  BY <1>7 DEF Crash, Forsake
<1> QED
  BY <1>1, <1>2, <1>3, <1>4, <1>5, <1>6, <1>7 DEF Evaluate

\* A step of Start keeps the types.
LEMMA TypeStart ==
    ASSUME TypeOK, NEW p \in Callers, Start(p)
    PROVE  TypeOK'
<1> USE PidAssumption DEF TypeOK, Kinds, Labels, Ended, Launching, Stopping,
        Goto, Fault
<1>1. CASE StartNothing(p)
  BY <1>1 DEF StartNothing
<1>2. CASE StartClean(p)
  BY <1>2 DEF StartClean
<1>3. CASE Launch(p)
  BY <1>3 DEF Launch
<1>4. CASE Reached(p)
  BY <1>4 DEF Reached
<1>5. CASE NotReached(p)
  BY <1>5 DEF NotReached
<1>6. CASE WriteMetadata(p)
  BY <1>6 DEF WriteMetadata
<1>7. CASE WriteMetadataFails(p)
  BY <1>7 DEF WriteMetadataFails, Forsake
<1> QED
  BY <1>1, <1>2, <1>3, <1>4, <1>5, <1>6, <1>7 DEF Start

\* A step of Stop keeps the types; it checks the record before it uses it.
LEMMA TypeStop ==
    ASSUME TypeOK, NEW p \in Callers, Stop(p)
    PROVE  TypeOK'
<1> USE PidAssumption DEF TypeOK, Kinds, Labels, Ended, Launching, Stopping,
        Goto
<1>1. CASE StopReadMetadata(p)
  BY <1>1 DEF StopReadMetadata, StopDone, HasMeta
<1>2. CASE CheckAlive(p)
  BY <1>2 DEF CheckAlive
<1>3. CASE Terminate(p)
  BY <1>3 DEF Terminate
<1>4. CASE Stopped(p)
  BY <1>4 DEF Stopped
<1>5. CASE NotStopped(p)
  BY <1>5 DEF NotStopped, Escalation
<1>6. CASE Kill(p)
  BY <1>6 DEF Kill
<1>7. CASE RemoveMetadata(p)
  BY <1>7 DEF RemoveMetadata, StopDone
<1> QED
  BY <1>1, <1>2, <1>3, <1>4, <1>5, <1>6, <1>7 DEF Stop

\* So does a step of a process.
LEMMA TypeProcess ==
    ASSUME TypeOK, NEW q \in Pids, Bind(q) \/ Exit(q) \/ OthersStart(q)
    PROVE  TypeOK'
<1> USE DEF TypeOK, Kinds
<1>1. CASE Bind(q)
  BY <1>1 DEF Bind, Gone
<1>2. CASE Exit(q)
  BY <1>2 DEF Exit, Gone
<1>3. CASE OthersStart(q)
  BY <1>3 DEF OthersStart
<1> QED
  BY <1>1, <1>2, <1>3

\* The fields keep their types, and no command signals, forgets or records a
\* PID that it does not have (supervise.go:200).
THEOREM TypeCorrect == Spec => []TypeOK
<1>1. ASSUME TypeOK, [Next]_vars PROVE TypeOK'
  <2>1. CASE Next
    BY <1>1, <2>1, TypeEvaluate, TypeStart, TypeStop, TypeProcess DEF Next
  <2>2. CASE UNCHANGED vars
    BY <1>1, <2>2 DEF TypeOK
  <2> QED
    BY <1>1, <2>1, <2>2
<1> QED
  BY <1>1, TypeInit, PTL DEF Spec

-----------------------------------------------------------------------------
(* The record *)

\* At most one command is under way.
OneCommand ==
    \A p, r \in Callers : pc[p] \notin Ended /\ pc[r] \notin Ended => p = r

\* What the command has read is still on record ...
ReadCurrent ==
    \A p \in Callers :
        pc[p] \in {"checkPid", "probe", "decide"} \cup Stopping
        => pid[p] = meta

\* ... and nothing is, when it launches a server.
LaunchClean ==
    \A p \in Callers :
        pc[p] \in {"launch"} \cup Launching => meta = NoPid

\* A record that is found stale is not the record of a server of OCA's.
StaleDead ==
    \A p \in Callers :
        /\ pc[p] = "probe" /\ Managed(p) => up[p]
        /\ pc[p] = "decide" /\ Managed(p) /\ ~up[p] => proc[pid[p]] \notin Ours

\* The signals that Stop has sent to a server that is still there.
Signalled ==
    \A p \in Callers :
        proc[pid[p]] \in Ours =>
            /\ pc[p] \in {"waitStopped", "kill", "forget"} => pid[p] \in asked
            /\ pc[p] = "forget" => pid[p] \in killed

RecordInv ==
    /\ TypeOK
    /\ OneCommand
    /\ ReadCurrent
    /\ LaunchClean
    /\ StaleDead
    /\ Signalled
    /\ NoOrphan

\* The invariant holds initially.
LEMMA RecordInit == Init => RecordInv
  BY TypeInit DEF Init, RecordInv, OneCommand, ReadCurrent, LaunchClean,
     StaleDead, Signalled, NoOrphan, Ended, Stopping, Launching, Ours

\* A step of the status evaluation keeps it.
LEMMA RecordEvaluate ==
    ASSUME ~Overlap, RecordInv, NEW p \in Callers, Evaluate(p)
    PROVE  RecordInv'
<1>0. TypeOK'
  BY TypeEvaluate DEF RecordInv
<1> USE <1>0, PidAssumption DEF RecordInv, TypeOK, OneCommand, ReadCurrent,
        LaunchClean, StaleDead, Signalled, NoOrphan, Ended, Stopping,
        Launching, Labels, Ours, Managed, Goto
<1>1. CASE Begin(p)
  BY <1>1 DEF Begin
<1>2. CASE ReadMetadata(p)
  BY <1>2 DEF ReadMetadata
<1>3. CASE CheckPid(p)
  <2>1. /\ up'[p] = Alive(pid[p])
        /\ pc'[p] = IF Alive(pid[p]) THEN "probe" ELSE "decide"
        /\ \A r \in Callers \ {p} : pc'[r] = pc[r] /\ up'[r] = up[r]
    BY <1>3 DEF CheckPid
  <2>2. UNCHANGED <<meta, proc, asked, killed, pid, forsaken>> /\ pc[p] = "checkPid"
    BY <1>3 DEF CheckPid
  <2>3. StaleDead'
    BY <2>1, <2>2 DEF Alive
  <2> QED
    BY <2>1, <2>2, <2>3
<1>4. CASE ProbeReachable(p)
  BY <1>4 DEF ProbeReachable
<1>5. CASE RefuseUnmanaged(p)
  BY <1>5 DEF RefuseUnmanaged
<1>6. CASE Fails(p)
  BY <1>6 DEF Fails, MayFail
<1>7. CASE Crash(p)
  BY <1>7 DEF Crash, Forsake
<1> QED
  BY <1>1, <1>2, <1>3, <1>4, <1>5, <1>6, <1>7 DEF Evaluate

\* A step of Start keeps it: the stale record it removes is dead, and the
\* record it writes overwrites none.
LEMMA RecordStart ==
    ASSUME RecordInv, NEW p \in Callers, Start(p)
    PROVE  RecordInv'
<1>0. TypeOK'
  BY TypeStart DEF RecordInv
<1> USE <1>0, PidAssumption DEF RecordInv, TypeOK, OneCommand, ReadCurrent,
        LaunchClean, StaleDead, Signalled, NoOrphan, Ended, Stopping,
        Launching, Labels, Ours, Managed, Goto
<1>1. CASE StartNothing(p)
  BY <1>1 DEF StartNothing
<1>2. CASE StartClean(p)
  BY <1>2 DEF StartClean, AlreadyRunning
<1>3. CASE Launch(p)
  BY <1>3 DEF Launch
<1>4. CASE Reached(p)
  BY <1>4 DEF Reached
<1>5. CASE NotReached(p)
  BY <1>5 DEF NotReached, Alive
<1>6. CASE WriteMetadata(p)
  BY <1>6 DEF WriteMetadata
<1>7. CASE WriteMetadataFails(p)
  BY <1>7 DEF WriteMetadataFails, Forsake
<1> QED
  BY <1>1, <1>2, <1>3, <1>4, <1>5, <1>6, <1>7 DEF Start

\* A step of Stop keeps it: what it forgets is gone or has been signalled.
LEMMA RecordStop ==
    ASSUME RecordInv, NEW p \in Callers, Stop(p)
    PROVE  RecordInv'
<1>0. TypeOK'
  BY TypeStop DEF RecordInv
<1> USE <1>0, PidAssumption DEF RecordInv, TypeOK, OneCommand, ReadCurrent,
        LaunchClean, StaleDead, Signalled, NoOrphan, Ended, Stopping,
        Launching, Labels, Ours, Managed, Goto
<1>1. CASE StopReadMetadata(p)
  BY <1>1 DEF StopReadMetadata, StopDone, HasMeta
<1>2. CASE CheckAlive(p)
  BY <1>2 DEF CheckAlive, Alive
<1>3. CASE Terminate(p)
  BY <1>3 DEF Terminate, Alive
<1>4. CASE Stopped(p)
  BY <1>4 DEF Stopped, Alive
<1>5. CASE NotStopped(p)
  BY <1>5 DEF NotStopped, Escalation
<1>6. CASE Kill(p)
  BY <1>6 DEF Kill, Alive
<1>7. CASE RemoveMetadata(p)
  BY <1>7 DEF RemoveMetadata, StopDone
<1> QED
  BY <1>1, <1>2, <1>3, <1>4, <1>5, <1>6, <1>7 DEF Stop

\* So does a step of a process: it starts no server of OCA's, and the signals
\* it forgets are those of a process that ends.
LEMMA RecordProcess ==
    ASSUME RecordInv, NEW q \in Pids, Bind(q) \/ Exit(q) \/ OthersStart(q)
    PROVE  RecordInv'
<1>0. TypeOK'
  BY TypeProcess DEF RecordInv
<1> USE <1>0, PidAssumption DEF RecordInv, TypeOK, OneCommand, ReadCurrent,
        LaunchClean, StaleDead, Signalled, NoOrphan, Ended, Stopping,
        Launching, Ours, Managed
<1>1. CASE Bind(q)
  BY <1>1 DEF Bind, Gone
<1>2. CASE Exit(q)
  BY <1>2 DEF Exit, Gone
<1>3. CASE OthersStart(q)
  BY <1>3 DEF OthersStart
<1> QED
  BY <1>1, <1>2, <1>3

\* The invariant is inductive.
LEMMA RecordNext ==
    ASSUME ~Overlap, RecordInv, [Next]_vars
    PROVE  RecordInv'
<1>1. CASE Next
  BY <1>1, RecordEvaluate, RecordStart, RecordStop, RecordProcess DEF Next
<1>2. CASE UNCHANGED vars
  BY <1>2 DEF RecordInv, TypeOK, OneCommand, ReadCurrent, LaunchClean,
     StaleDead, Signalled, NoOrphan, Managed
<1> QED
  BY <1>1, <1>2

\* Commands that run one after the other leave no server of OCA's running
\* without a record, unless its launcher was killed or could not write it.
THEOREM NoServerOrphaned == ~Overlap => (Spec => []NoOrphan)
<1> SUFFICES ASSUME ~Overlap PROVE Spec => []NoOrphan
  OBVIOUS
<1>1. RecordInv /\ [Next]_vars => RecordInv'
  BY RecordNext
<1>2. RecordInv => NoOrphan
  BY DEF RecordInv
<1> QED
  BY <1>1, <1>2, RecordInit, PTL DEF Spec

\* Such commands take a server off the record only when it is gone or has
\* been sent SIGKILL.
THEOREM DeadAreForgotten == ~Overlap => (Spec => OnlyDeadForgotten)
<1> SUFFICES ASSUME ~Overlap PROVE Spec => OnlyDeadForgotten
  OBVIOUS
<1> DEFINE A == meta # NoPid /\ meta' = NoPid /\ proc[meta] \in Ours
                => meta \in killed
<1>1. RecordInv /\ [Next]_vars => RecordInv'
  BY RecordNext
<1>2. ASSUME RecordInv, Next PROVE A
  <2> SUFFICES ASSUME meta # NoPid, meta' = NoPid, proc[meta] \in Ours
               PROVE  meta \in killed
    OBVIOUS
  <2>1. PICK p \in Callers : StartClean(p) \/ RemoveMetadata(p)
                             \/ WriteMetadata(p)
    BY <1>2 DEF Next, Evaluate, Start, Stop, Begin, ReadMetadata, CheckPid,
       ProbeReachable, RefuseUnmanaged, Fails, Crash, StartNothing, Launch,
       Reached, NotReached, WriteMetadataFails, StopReadMetadata,
       CheckAlive, Terminate, Stopped, NotStopped, Kill, Bind, Exit,
       OthersStart
  <2>2. CASE StartClean(p)
    BY <1>2, <2>2 DEF RecordInv, StaleDead, ReadCurrent, StartClean, Managed
  <2>3. CASE RemoveMetadata(p)
    BY <1>2, <2>3 DEF RecordInv, Signalled, ReadCurrent, RemoveMetadata,
       Stopping
  <2>4. CASE WriteMetadata(p)
    BY <1>2, <2>4 DEF RecordInv, LaunchClean, WriteMetadata, Launching
  <2> QED
    BY <2>1, <2>2, <2>3, <2>4
<1>3. RecordInv /\ [Next]_vars => [A]_vars
  BY <1>2
<1> QED
  BY <1>1, <1>3, RecordInit, PTL DEF Spec, OnlyDeadForgotten

=============================================================================
