--------------------------- MODULE ApplyTransaction ---------------------------
(* ApplyEngine implements StageTransaction. *)
EXTENDS ApplyEngine

\* The phase of a process, from its place in render.Apply and from the
\* errors that rollback has collected.
PhaseOf(p) ==
    CASE pc[p] = "crashed" -> "dead"
      [] pc[p] \in {"rollback", "restore"} /\ rbErr[p] -> "stuck"
      [] pc[p] \in {"rollback", "restore"} /\ ~rbErr[p] -> "undoing"
      [] pc[p] \in Holding \ {"rollback", "restore"} -> "changing"
      [] OTHER -> "outside"

T == INSTANCE StageTransaction
       WITH Shared <- Doc, Contents <- FileState, Torn <- Truncated,
            phase <- [p \in Procs |-> PhaseOf(p)],
            before <- atLock, disturbed <- raced

\* Whatever fails or dies and whoever interferes, every stage is a
\* transaction: what happens to the files under the lock is what
\* StageTransaction allows (apply.go:10-16, backup.go, lock_unix.go).
StagesAreTransactions == T!Spec

=============================================================================
