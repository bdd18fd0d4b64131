--------------------------- MODULE StageTransaction ---------------------------
(***************************************************************************)
(* What render.Apply promises of one stage (internal/render/apply.go:10):  *)
(* the files are changed by one process at a time, file by file and each   *)
(* with a whole content; a stage that gives up puts back what it has       *)
(* changed and says so when it could not; and only a process that dies, or *)
(* somebody who writes the shared file without the lock, can make it       *)
(* otherwise.                                                              *)
(*                                                                         *)
(* There are no plans here, no backups, no temporary files, no loop        *)
(* indices and no locals: ApplyTransaction shows that ApplyEngine, which   *)
(* has them, implements this.                                              *)
(***************************************************************************)
CONSTANTS
    Procs,
    NoProc,
    Paths,
    Shared,     \* the file that is also written without the lock
    Contents,   \* what a path can hold,
    Absent,     \* no file, or
    Torn        \* a file that is being rewritten in place

VARIABLES
    file,       \* [Paths -> Contents]
    holder,     \* the process that changes files, or NoProc
    phase,      \* what each process is doing
    before,     \* the files when the current stage began
    disturbed   \* the shared file was written during the current stage

vars == <<file, holder, phase, before, disturbed>>

Phases == {"outside", "changing", "undoing", "stuck", "dead"}
Whole == Contents \ {Absent, Torn}

Init ==
    /\ file \in [Paths -> Contents]
    /\ holder = NoProc
    /\ phase = [p \in Procs |-> "outside"]
    /\ before \in [Paths -> Contents]
    /\ disturbed = FALSE

Enter(p, ph) == phase' = [phase EXCEPT ![p] = ph]

Begin(p) ==
    /\ phase[p] = "outside"
    /\ holder = NoProc
    /\ holder' = p
    /\ Enter(p, "changing")
    /\ before' = file
    /\ disturbed' = FALSE
    /\ UNCHANGED file

Change(p) ==
    /\ phase[p] = "changing"
    /\ \E f \in Paths, c \in Whole : file' = [file EXCEPT ![f] = c]
    /\ UNCHANGED <<holder, phase, before, disturbed>>

\* Leaving the stage frees the lock.
Leave(p, ph) ==
    /\ Enter(p, ph)
    /\ holder' = NoProc
    /\ UNCHANGED <<file, before, disturbed>>

Commit(p) == phase[p] = "changing" /\ Leave(p, "outside")

GiveUp(p) ==
    /\ phase[p] = "changing"
    /\ Enter(p, "undoing")
    /\ UNCHANGED <<file, holder, before, disturbed>>

\* A file is put back or removed, the former in two steps.
Undo(p) ==
    /\ phase[p] \in {"undoing", "stuck"}
    /\ \E f \in Paths, c \in Contents :
         /\ file' = [file EXCEPT ![f] = c]
         /\ disturbed \/ c \in {before[f], Absent, Torn}
    /\ UNCHANGED <<holder, phase, before, disturbed>>

UndoFails(p) ==
    /\ phase[p] = "undoing"
    /\ Enter(p, "stuck")
    /\ UNCHANGED <<file, holder, before, disturbed>>

Restored == \A f \in Paths : file[f] \in {before[f], Absent}

Abort(p) ==
    /\ \/ phase[p] = "undoing" /\ (disturbed \/ Restored)
       \/ phase[p] = "stuck"
    /\ Leave(p, "outside")

Die(p) ==
    /\ Enter(p, "dead")
    /\ holder' = IF holder = p THEN NoProc ELSE holder
    /\ UNCHANGED <<file, before, disturbed>>

Restart(p) ==
    /\ phase[p] = "dead"
    /\ Enter(p, "outside")
    /\ UNCHANGED <<file, holder, before, disturbed>>

WriteShared ==
    /\ \E c \in Whole : file' = [file EXCEPT ![Shared] = c]
    /\ disturbed' = (disturbed \/ holder # NoProc)
    /\ UNCHANGED <<holder, phase, before>>

Next ==
    \/ \E p \in Procs :
         \/ Begin(p) \/ Change(p) \/ Commit(p)
         \/ GiveUp(p) \/ Undo(p) \/ UndoFails(p) \/ Abort(p)
         \/ Die(p) \/ Restart(p)
    \/ WriteShared

Spec == Init /\ [][Next]_vars

=============================================================================
