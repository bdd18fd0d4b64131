-------------------------- MODULE ApplyEngineProofs --------------------------
(***************************************************************************)
(* What holds of ApplyEngine for every set of invocations, paths, entries  *)
(* and stages and for every bound, in three parts.                         *)
(*                                                                         *)
(* 1. Types, the exclusion of the apply lock, and what a run that ends     *)
(*    well and undisturbed has rendered.                                   *)
(* 2. A stage is all or nothing: the backups that rollback needs are there *)
(*    as long as it may need them, and a rollback that reports no error    *)
(*    has restored every target.  A path never has too many backups.       *)
(* 3. ApplyEngine implements StageTransaction.  What a step does to the    *)
(*    files is plain from its action; that a stage which gives up has put  *)
(*    back everything needs an invariant, FilesInv, which says which files *)
(*    may differ from before the stage.                                    *)
(***************************************************************************)
EXTENDS ApplyTransaction, TLAPS, FiniteSetTheorems

Writing == {"write", "prune", "backupTemp", "backupRename", "rename"}
Undo == {"rollback", "restore"}

\* Where the loop indices of Apply and rollback stand at each label.
PlaceOK(p) ==
    /\ pc[p] \notin Ended => stage[p] \in 1 .. Len(Invocation[p])
    /\ pc[p] \in Writing => /\ idx[p] = Len(results[p]) + 1
                            /\ idx[p] <= Len(plan[p]) + 1
    /\ pc[p] \in Writing \ {"write"} => idx[p] <= Len(plan[p])
    /\ pc[p] \in Undo => /\ idx[p] < Len(results[p])
                         /\ Len(results[p]) <= Len(plan[p])
    /\ pc[p] = "restore" => idx[p] >= 1
    /\ pc[p] \notin Holding => results[p] = << >>

TypeInv == TypeOK /\ \A p \in Procs : PlaceOK(p)

-----------------------------------------------------------------------------
(* Lemmas about planning *)

\* A document, an absent file and a truncated one are file states, and the
\* entries of a file state are a document.
LEMMA FileStateFacts ==
    /\ Absent \in FileState
    /\ Truncated \in FileState
    /\ \A d \in Document : Json(d) \in FileState
    /\ \A f \in FileState : f.has \in Document
  <1>1. Absent \in FileState /\ Truncated \in FileState
    BY DEF FileState
  <1>2. \A d \in Document : Json(d) \in FileState
    BY DEF FileState
  <1>3. ASSUME NEW f \in FileState
        PROVE  f.has \in Document
    <2>1. Absent.has \in Document /\ Truncated.has \in Document
      BY DEF Absent, Truncated, Document
    <2>2. \A d \in Document : Json(d).has \in Document
      BY DEF Json
    <2>3. QED
      BY <2>1, <2>2 DEF FileState
  <1>4. QED
    BY <1>1, <1>2, <1>3

\* The value of the locals before and after a call is a file state.
LEMMA AbsentType == Absent \in FileState
  BY FileStateFacts

\* What PlanX renders for a target is a JSON document.
LEMMA RenderType ==
    ASSUME NEW t \in Target, NEW f \in FileState
    PROVE  Render(t, f) \in FileState
  <1>1. f.has \in Document /\ t.declared \in Document
    BY FileStateFacts DEF Target
  <1>2. (f.has \ t.stale) \cup t.declared \in Document
    BY <1>1 DEF Document
  <1>3. QED
    BY <1>1, <1>2, FileStateFacts DEF Render

\* The plan of a stage has one operation per target.
LEMMA PlanType ==
    ASSUME TypeOK, NEW s \in Stage
    PROVE  /\ PlanOf(s) \in Seq(Op)
           /\ Len(PlanOf(s)) = Len(s.targets)
  <1>1. ASSUME NEW t \in Target
        PROVE  PlanOp(t) \in Op
    <2>1. file[t.path] \in FileState /\ t.path \in Paths
      BY DEF TypeOK, Target
    <2>2. Render(t, file[t.path]) \in FileState
      BY <2>1, RenderType
    <2>3. (IF t.suppress THEN 0 ELSE MaxBackups) \in Nat
      BY BoundsAssumption
    <2>4. QED
      BY <2>1, <2>2, <2>3 DEF PlanOp, Op
  <1>2. s.targets \in Seq(Target)
    BY DEF Stage
  <1>3. \A i \in 1 .. Len(s.targets) : PlanOp(s.targets[i]) \in Op
    BY <1>1, <1>2
  <1>4. PlanOf(s) \in [1 .. Len(s.targets) -> Op]
    BY <1>2, <1>3 DEF PlanOf
  <1>5. QED
    BY <1>2, <1>4

\* The stage an invocation is in is one of its stages.
LEMMA StageType ==
    ASSUME TypeInv, NEW p \in Procs, pc[p] \notin Ended
    PROVE  CurrentStage(p) \in Stage
  BY InvocationAssumption DEF TypeInv, PlaceOK, CurrentStage

-----------------------------------------------------------------------------
(* Type correctness *)

\* Every invocation has a first stage.
LEMMA InvocationFacts ==
    \A p \in Procs : Len(Invocation[p]) \in Nat \ {0}
  BY InvocationAssumption

\* The locals of an invocation.
LEMMA LocalFacts ==
    ASSUME TypeInv, NEW p \in Procs
    PROVE  /\ PlaceOK(p)
           /\ Len(results[p]) \in Nat
           /\ Len(plan[p]) \in Nat
           /\ idx[p] \in Nat
           /\ bak[p] \in Nat
           /\ stage[p] \in Nat
           /\ Len(Invocation[p]) \in Nat \ {0}
  BY InvocationFacts DEF TypeInv, TypeOK

\* The operation under the loop index of Apply is one of the plan.
LEMMA PlanFacts ==
    ASSUME TypeInv, NEW p \in Procs,
           \/ Working(p)
           \/ pc[p] \in Writing \ {"write"}
           \/ Undoing(p)
           \/ pc[p] = "restore"
    PROVE  /\ idx[p] \in 1 .. Len(plan[p])
           /\ CurrentOp(p) \in Op
           /\ CurrentOp(p).path \in Paths
           /\ CurrentOp(p).after \in FileState
           /\ CurrentOp(p).keep \in Nat
  <1>1. idx[p] \in 1 .. Len(plan[p])
    BY LocalFacts DEF PlaceOK, Writing, Undo, Working, Undoing
  <1>2. CurrentOp(p) \in Op
    BY <1>1 DEF TypeInv, TypeOK, CurrentOp
  <1>3. QED
    BY <1>1, <1>2 DEF Op

\* Recording a result makes the list of results one longer.
LEMMA RecordFacts ==
    ASSUME TypeInv, NEW p \in Procs, NEW r \in Result
    PROVE  /\ Append(results[p], r) \in Seq(Result)
           /\ Len(Append(results[p], r)) = Len(results[p]) + 1
  BY DEF TypeInv, TypeOK

\* Adding entries to a file state, or removing some, leaves a document.
LEMMA EditFacts ==
    ASSUME NEW f \in FileState, NEW d \in Document
    PROVE  Json(f.has \cup d) \in FileState /\ Json(f.has \ d) \in FileState
  BY FileStateFacts DEF Document

\* Whoever changes a file keeps the type of the history `solo`.
LEMMA SpoilType ==
    ASSUME TypeOK, NEW p \in Procs, SpoilOthers(p)
    PROVE  solo' \in [Procs -> BOOLEAN]
  BY DEF SpoilOthers

\* A step of one invocation leaves the locals of the others alone.
Kept(q) ==
    /\ pc'[q] = pc[q]
    /\ runs'[q] = runs[q]
    /\ stage'[q] = stage[q]
    /\ plan'[q] = plan[q]
    /\ idx'[q] = idx[q]
    /\ results'[q] = results[q]
    /\ seen'[q] = seen[q]
    /\ bak'[q] = bak[q]
    /\ rbErr'[q] = rbErr[q]

\* So it is for every step of an invocation: nobody else's locals change.
LEMMA OthersKept ==
    ASSUME TypeOK, NEW p \in Procs,
           Start(p) \/ Progress(p) \/ Failure(p)
    PROVE  \A q \in Procs \ {p} : Kept(q)
  <1> USE DEF TypeOK, Kept, Goto, Return, callVars
  <1>1. CASE \/ Start(p) \/ PlanStage(p) \/ AcquireApplyLock(p)
    BY <1>1 DEF Start, PlanStage, AcquireApplyLock
  <1>2. CASE \/ PlanFails(p) \/ LockTimeout(p) \/ LockFails(p) \/ ApplyDone(p) \/ ApplyFailed(p) \/ Crash(p)
    BY SMTT(30), <1>2 DEF PlanFails, LockTimeout, LockFails, ApplyDone, ApplyFailed, Crash
  <1>3. CASE \/ SkipNoop(p) \/ WriteEqual(p) \/ RenameTarget(p) \/ WriteFails(p)
    BY SMTT(30), <1>3 DEF SkipNoop, WriteEqual, RenameTarget, WriteFails, NextTarget, Record
  <1>4. CASE \/ ReadExisting(p) \/ PruneBackups(p) \/ WriteBackupTemp(p) \/ RenameBackup(p)
    BY <1>4 DEF ReadExisting, PruneBackups, WriteBackupTemp, RenameBackup
  <1>5. CASE \/ UndoSkip(p) \/ UndoTruncate(p) \/ UndoRestore(p) \/ UndoRemove(p) \/ UndoFails(p)
    BY <1>5 DEF UndoSkip, UndoTruncate, UndoRestore, UndoRemove, UndoFails
  <1>6. CASE \/ RefreshShellEnv(p) \/ SyncPlugins(p) \/ StageFails(p)
    BY <1>6 DEF RefreshShellEnv, SyncPlugins, StageFails, AfterStage
  <1>7. QED
    BY <1>1, <1>2, <1>3, <1>4, <1>5, <1>6 DEF Progress, Failure

\* An invocation whose locals are kept stays where its loop index may be.
LEMMA PlaceKept ==
    ASSUME TypeInv, NEW q \in Procs, Kept(q)
    PROVE  PlaceOK(q)'
  BY DEF TypeInv, PlaceOK, Kept

\* After a stage comes the next one, or the end.
LEMMA AfterStageFacts ==
    ASSUME TypeInv, NEW p \in Procs, pc[p] \notin Ended, AfterStage(p)
    PROVE  /\ pc' \in [Procs -> Labels]
           /\ stage' \in [Procs -> Nat]
           /\ pc'[p] \in {"plan", "done"}
           /\ stage'[p] \in 1 .. Len(Invocation[p])
  <1>1. /\ pc \in [Procs -> Labels]
        /\ stage \in [Procs -> Nat]
        /\ stage[p] \in 1 .. Len(Invocation[p])
        /\ stage[p] \in Nat
        /\ Len(Invocation[p]) \in Nat
    BY LocalFacts DEF TypeInv, TypeOK, PlaceOK
  <1>2. CASE stage[p] < Len(Invocation[p])
    <2>1. /\ pc' = [pc EXCEPT ![p] = "plan"]
          /\ stage' = [stage EXCEPT ![p] = @ + 1]
      BY <1>2 DEF AfterStage, Goto
    <2>2. QED
      BY <1>1, <1>2, <2>1 DEF Labels
  <1>3. CASE ~(stage[p] < Len(Invocation[p]))
    <2>1. pc' = [pc EXCEPT ![p] = "done"] /\ stage' = stage
      BY <1>3 DEF AfterStage, Goto
    <2>2. QED
      BY <1>1, <2>1 DEF Labels, Ended
  <1>4. QED
    BY <1>2, <1>3

\* Nobody runs initially, and the files have the initial contents.
LEMMA TypeInit == Init => TypeInv
  <1> SUFFICES ASSUME Init
               PROVE  TypeInv
    OBVIOUS
  <1>1. TypeOK
    <2>1. file \in [Paths -> FileState]
      BY FileStateFacts DEF Init
    <2>2. backups \in [Paths -> SUBSET Backup]
      BY DEF Init
    <2>3. seen \in [Procs -> FileState] /\ atLock \in [Paths -> FileState]
      BY FileStateFacts DEF Init
    <2>4. base \in [Procs -> [Paths -> FileState]]
      BY FileStateFacts DEF Init
    <2>5. plan \in [Procs -> Seq(Op)] /\ results \in [Procs -> Seq(Result)]
      BY DEF Init
    <2>6. /\ rbErr \in [Procs -> BOOLEAN]
          /\ raced \in BOOLEAN
          /\ solo \in [Procs -> BOOLEAN]
      BY DEF Init
    <2>7. /\ orphan \in SUBSET Paths
          /\ clock \in Nat \ {0}
          /\ holder \in Procs \cup {NoProc}
          /\ pc \in [Procs -> Labels]
          /\ runs \in [Procs -> Nat]
          /\ stage \in [Procs -> Nat]
          /\ idx \in [Procs -> Nat]
          /\ bak \in [Procs -> Nat]
          /\ faults \in Nat
          /\ edits \in Nat
      BY DEF Init, Labels, Ended
    <2>8. QED
      BY <2>1, <2>2, <2>3, <2>4, <2>5, <2>6, <2>7 DEF TypeOK
  <1>2. \A p \in Procs : PlaceOK(p)
    BY DEF Init, PlaceOK, Ended, Holding, Writing, Undo
  <1>3. QED
    BY <1>1, <1>2 DEF TypeInv

\* Types, and the ranges of stage, plan and loop index, are inductive.
LEMMA TypeNext == TypeInv /\ [Next]_vars => TypeInv'
  <1> SUFFICES ASSUME TypeInv, [Next]_vars
               PROVE  TypeInv'
    OBVIOUS
  <1> USE DEF diskVars, callVars, lockHist, runHist, histVars, Goto
  <1>1. TypeOK
    BY DEF TypeInv
  <1>2. ASSUME NEW p \in Procs, Start(p) \/ Progress(p) \/ Failure(p),
               TypeOK', PlaceOK(p)'
        PROVE  TypeInv'
    BY <1>1, <1>2, OthersKept, PlaceKept DEF TypeInv
  <1>3. ASSUME NEW p \in Procs, Start(p)
        PROVE  TypeInv'
    <2>1. /\ pc[p] \in Ended
          /\ pc'[p] = "plan"
          /\ stage'[p] = 1
          /\ plan'[p] = plan[p]
          /\ idx'[p] = idx[p]
          /\ results'[p] = results[p]
      BY <1>1, <1>3 DEF TypeOK, Start, Ended
    <2>2. TypeOK'
      BY SMTT(30), <1>1, <1>3, AbsentType
      DEF TypeOK, Labels, Ended, Holding, Start
    <2>3. PlaceOK(p)'
      BY <2>1, LocalFacts
      DEF PlaceOK, Ended, Holding, Writing, Undo
    <2>4. QED
      BY <1>2, <1>3, <2>2, <2>3
  <1>4. ASSUME NEW p \in Procs, PlanStage(p)
        PROVE  TypeInv'
    <2>1. /\ PlanOf(CurrentStage(p)) \in Seq(Op)
          /\ Len(PlanOf(CurrentStage(p))) \in Nat
      BY <1>4, StageType, PlanType DEF PlanStage, Ended, TypeInv
    <2>2. TypeOK'
      BY <1>1, <1>4, <2>1, AbsentType
      DEF TypeOK, Labels, Ended, Holding, PlanStage
    <2>3. PlaceOK(p)'
      BY <1>1, <1>4, <2>1, LocalFacts
      DEF TypeOK, PlaceOK, Labels, Ended, Holding, Writing, Undo, PlanStage
    <2>4. QED
      BY <1>2, <1>4, <2>2, <2>3 DEF Progress
  <1>5. ASSUME NEW p \in Procs, PlanFails(p)
        PROVE  TypeInv'
    <2>1. TypeOK'
      BY <1>1, <1>5, AbsentType
      DEF TypeOK, Labels, Ended, Holding, PlanFails, Return, Fault
    <2>2. PlaceOK(p)'
      BY <1>1, <1>5, LocalFacts
      DEF TypeOK, PlaceOK, Labels, Ended, Holding, Writing, Undo, PlanFails, Return
    <2>3. QED
      BY <1>2, <1>5, <2>1, <2>2 DEF Failure
  <1>6. ASSUME NEW p \in Procs, AcquireApplyLock(p)
        PROVE  TypeInv'
    <2>1. /\ pc[p] = "lock"
          /\ pc'[p] = "write"
          /\ stage'[p] = stage[p]
          /\ plan'[p] = plan[p]
          /\ idx'[p] = 1
          /\ results'[p] = results[p]
      BY <1>1, <1>6 DEF TypeOK, AcquireApplyLock
    <2>2. TypeOK'
      BY <1>1, <1>6, AbsentType
      DEF TypeOK, Labels, Ended, Holding, AcquireApplyLock
    <2>3. PlaceOK(p)'
      BY <2>1, LocalFacts
      DEF PlaceOK, Ended, Holding, Writing, Undo
    <2>4. QED
      BY <1>2, <1>6, <2>2, <2>3 DEF Progress
  <1>7. ASSUME NEW p \in Procs, LockTimeout(p)
        PROVE  TypeInv'
    <2>1. TypeOK'
      BY SMTT(30), <1>1, <1>7, AbsentType
      DEF TypeOK, Labels, Ended, Holding, LockTimeout, Return
    <2>2. PlaceOK(p)'
      BY <1>1, <1>7, LocalFacts
      DEF TypeOK, PlaceOK, Labels, Ended, Holding, Writing, Undo, LockTimeout, Return
    <2>3. QED
      BY <1>2, <1>7, <2>1, <2>2 DEF Progress
  <1>8. ASSUME NEW p \in Procs, LockFails(p)
        PROVE  TypeInv'
    <2>1. TypeOK'
      BY SMTT(30), <1>1, <1>8, AbsentType
      DEF TypeOK, Labels, Ended, Holding, LockFails, Return, Fault
    <2>2. PlaceOK(p)'
      BY <1>1, <1>8, LocalFacts
      DEF TypeOK, PlaceOK, Labels, Ended, Holding, Writing, Undo, LockFails, Return
    <2>3. QED
      BY <1>2, <1>8, <2>1, <2>2 DEF Failure
  <1>9. ASSUME NEW p \in Procs, SkipNoop(p)
        PROVE  TypeInv'
    <2> DEFINE r == [wrote |-> FALSE, bak |-> 0]
    <2>1. r \in Result
      BY <1>1 DEF TypeOK, Result
    <2>2. /\ Append(results[p], r) \in Seq(Result)
          /\ Len(Append(results[p], r)) = Len(results[p]) + 1
      BY <2>1, RecordFacts
    <2>3. /\ pc[p] = "write" /\ idx[p] <= Len(plan[p])
          /\ pc'[p] = "write"
          /\ stage'[p] = stage[p]
          /\ plan'[p] = plan[p]
          /\ idx'[p] = idx[p] + 1
          /\ results'[p] = Append(results[p], r)
      BY <1>1, <1>9 DEF TypeOK, SkipNoop, NextTarget, Record, Working
    <2>4. TypeOK'
      BY SMTT(30), <1>1, <1>9, <2>1, <2>2, AbsentType
      DEF TypeOK, Labels, Ended, Holding, SkipNoop, NextTarget, Record
    <2>5. PlaceOK(p)'
      <3> HIDE DEF r
      <3>1. QED
        BY SMTT(30), <2>3, <2>2, LocalFacts
        DEF PlaceOK, Ended, Holding, Writing, Undo
    <2>6. QED
      BY <1>2, <1>9, <2>4, <2>5 DEF Progress
  <1>10. ASSUME NEW p \in Procs, WriteEqual(p)
        PROVE  TypeInv'
    <2> DEFINE r == [wrote |-> TRUE, bak |-> 0]
    <2>1. r \in Result
      BY <1>1 DEF TypeOK, Result
    <2>2. /\ Append(results[p], r) \in Seq(Result)
          /\ Len(Append(results[p], r)) = Len(results[p]) + 1
      BY <2>1, RecordFacts
    <2>3. /\ pc[p] = "write" /\ idx[p] <= Len(plan[p])
          /\ pc'[p] = "write"
          /\ stage'[p] = stage[p]
          /\ plan'[p] = plan[p]
          /\ idx'[p] = idx[p] + 1
          /\ results'[p] = Append(results[p], r)
      BY <1>1, <1>10 DEF TypeOK, WriteEqual, NextTarget, Record, Working
    <2>4. /\ orphan' \in SUBSET Paths
           /\ pc' \in [Procs -> Labels]
           /\ idx' \in [Procs -> Nat]
           /\ results' \in [Procs -> Seq(Result)]
           /\ seen' \in [Procs -> FileState]
           /\ bak' \in [Procs -> Nat]
      BY SMTT(30), <1>1, <1>10, <2>1, <2>2, AbsentType
      DEF TypeOK, Labels, Ended, Holding, WriteEqual, NextTarget, Record
    <2>5. UNCHANGED <<file, backups, clock, holder, runs, stage, plan, rbErr,
                      faults, edits, atLock, raced, base,
                      solo>>
      BY <1>10 DEF WriteEqual, NextTarget, Record
    <2>6. TypeOK'
      BY <1>1, <2>4, <2>5 DEF TypeOK
    <2>7. PlaceOK(p)'
      <3> HIDE DEF r
      <3>1. QED
        BY SMTT(30), <2>3, <2>2, LocalFacts
        DEF PlaceOK, Ended, Holding, Writing, Undo
    <2>8. QED
      BY <1>2, <1>10, <2>6, <2>7 DEF Progress
  <1>11. ASSUME NEW p \in Procs, ReadExisting(p)
        PROVE  TypeInv'
    <2>1. /\ CurrentOp(p).path \in Paths
          /\ CurrentOp(p).after \in FileState
          /\ CurrentOp(p).keep \in Nat
      BY <1>11, PlanFacts DEF ReadExisting, Writing
    <2>2. TypeOK'
      BY <1>1, <1>11, <2>1, AbsentType
      DEF TypeOK, Labels, Ended, Holding, ReadExisting
    <2>3. PlaceOK(p)'
      BY <1>1, <1>11, LocalFacts
      DEF TypeOK, PlaceOK, Labels, Ended, Holding, Writing, Undo, ReadExisting, Working
    <2>4. QED
      BY <1>2, <1>11, <2>2, <2>3 DEF Progress
  <1>12. ASSUME NEW p \in Procs, PruneBackups(p)
        PROVE  TypeInv'
    <2>1. TypeOK'
      BY <1>1, <1>12, AbsentType
      DEF TypeOK, Labels, Ended, Holding, PruneBackups, Newest
    <2>2. PlaceOK(p)'
      BY <1>1, <1>12, LocalFacts
      DEF TypeOK, PlaceOK, Labels, Ended, Holding, Writing, Undo, PruneBackups
    <2>3. QED
      BY <1>2, <1>12, <2>1, <2>2 DEF Progress
  <1>13. ASSUME NEW p \in Procs, WriteBackupTemp(p)
        PROVE  TypeInv'
    <2>1. /\ CurrentOp(p).path \in Paths
          /\ CurrentOp(p).after \in FileState
          /\ CurrentOp(p).keep \in Nat
      BY <1>13, PlanFacts DEF WriteBackupTemp, Writing
    <2>2. TypeOK'
      BY <1>1, <1>13, <2>1, AbsentType
      DEF TypeOK, Labels, Ended, Holding, WriteBackupTemp
    <2>3. PlaceOK(p)'
      BY <1>1, <1>13, LocalFacts
      DEF TypeOK, PlaceOK, Labels, Ended, Holding, Writing, Undo, WriteBackupTemp
    <2>4. QED
      BY <1>2, <1>13, <2>2, <2>3 DEF Progress
  <1>14. ASSUME NEW p \in Procs, RenameBackup(p)
        PROVE  TypeInv'
    <2>1. /\ CurrentOp(p).path \in Paths
          /\ CurrentOp(p).after \in FileState
          /\ CurrentOp(p).keep \in Nat
      BY <1>14, PlanFacts DEF RenameBackup, Writing
    <2>2. backups' \in [Paths -> SUBSET Backup]
      <3>1. [at |-> clock, doc |-> BackupContent(p)] \in Backup
        BY <1>1 DEF TypeOK, BackupContent, Backup
      <3>2. QED
        BY <1>1, <1>14, <2>1, <3>1 DEF TypeOK, RenameBackup
    <2>3. /\ orphan' \in SUBSET Paths
           /\ pc' \in [Procs -> Labels]
           /\ bak' \in [Procs -> Nat]
           /\ clock' \in Nat \ {0}
      BY <1>1, <1>14, <2>1
      DEF TypeOK, Labels, Ended, Holding, RenameBackup
    <2>4. UNCHANGED <<file, holder, runs, stage, plan, idx, results, seen, rbErr,
                      faults, edits, atLock, raced, base,
                      solo>>
      BY <1>14 DEF RenameBackup
    <2>5. TypeOK'
      BY <1>1, <2>3, <2>4, <2>2 DEF TypeOK
    <2>6. PlaceOK(p)'
      BY <1>1, <1>14, LocalFacts
      DEF TypeOK, PlaceOK, Labels, Ended, Holding, Writing, Undo, RenameBackup
    <2>7. QED
      BY <1>2, <1>14, <2>5, <2>6 DEF Progress
  <1>15. ASSUME NEW p \in Procs, RenameTarget(p)
        PROVE  TypeInv'
    <2> DEFINE r == [wrote |-> TRUE, bak |-> bak[p]]
    <2>1. r \in Result
      BY <1>1 DEF TypeOK, Result
    <2>2. /\ Append(results[p], r) \in Seq(Result)
          /\ Len(Append(results[p], r)) = Len(results[p]) + 1
      BY <2>1, RecordFacts
    <2>3. /\ CurrentOp(p).path \in Paths
          /\ CurrentOp(p).after \in FileState
          /\ CurrentOp(p).keep \in Nat
      BY <1>15, PlanFacts DEF RenameTarget, Writing
    <2>4. solo' \in [Procs -> BOOLEAN]
      BY <1>1, <1>15, SpoilType DEF RenameTarget
    <2>5. /\ pc[p] = "rename"
          /\ pc'[p] = "write"
          /\ stage'[p] = stage[p]
          /\ plan'[p] = plan[p]
          /\ idx'[p] = idx[p] + 1
          /\ results'[p] = Append(results[p], r)
      BY <1>1, <1>15 DEF TypeOK, RenameTarget, NextTarget, Record
    <2>6. file' \in [Paths -> FileState]
      BY <1>1, <1>15, <2>3, FileStateFacts DEF TypeOK, RenameTarget
    <2>7. idx' \in [Procs -> Nat] /\ results' \in [Procs -> Seq(Result)]
      BY SMTT(30), <1>1, <1>15, <2>2, LocalFacts DEF TypeOK, RenameTarget, NextTarget, Record
    <2>8. TypeOK'
      BY <2>7, <2>6, <1>1, <1>15, <2>1, <2>2, <2>3, <2>4, AbsentType
      DEF TypeOK, Labels, Ended, Holding, RenameTarget, NextTarget, Record
    <2>9. PlaceOK(p)'
      <3> HIDE DEF r
      <3>1. idx[p] = Len(results[p]) + 1 /\ idx[p] <= Len(plan[p])
        BY <2>5, LocalFacts DEF PlaceOK, Writing
      <3>2. QED
        BY <2>5, <3>1, <2>2, LocalFacts
        DEF PlaceOK, Ended, Holding, Writing, Undo
    <2>10. QED
      BY <1>2, <1>15, <2>8, <2>9 DEF Progress
  <1>16. ASSUME NEW p \in Procs, ApplyDone(p)
        PROVE  TypeInv'
    <2>1. TypeOK'
      BY SMTT(30), <1>1, <1>16, AbsentType
      DEF TypeOK, Labels, Ended, Holding, ApplyDone, Return
    <2>2. PlaceOK(p)'
      BY <1>1, <1>16, LocalFacts
      DEF TypeOK, PlaceOK, Labels, Ended, Holding, Writing, Undo, ApplyDone, Return
    <2>3. QED
      BY <1>2, <1>16, <2>1, <2>2 DEF Progress
  <1>17. ASSUME NEW p \in Procs, WriteFails(p)
        PROVE  TypeInv'
    <2> DEFINE r == [wrote |-> FALSE, bak |-> bak[p]]
    <2>1. r \in Result
      BY <1>1 DEF TypeOK, Result
    <2>2. /\ Append(results[p], r) \in Seq(Result)
          /\ Len(Append(results[p], r)) = Len(results[p]) + 1
      BY <2>1, RecordFacts
    <2>3. /\ CurrentOp(p).path \in Paths
          /\ CurrentOp(p).after \in FileState
          /\ CurrentOp(p).keep \in Nat
      BY <1>17, PlanFacts DEF WriteFails, Writing
    <2>4. /\ pc[p] \in Writing /\ (pc[p] = "write" => idx[p] <= Len(plan[p]))
          /\ pc'[p] = "rollback"
          /\ stage'[p] = stage[p]
          /\ plan'[p] = plan[p]
          /\ idx'[p] = idx[p] - 1
          /\ results'[p] = Append(results[p], r)
      BY <1>1, <1>17 DEF TypeOK, WriteFails, RollbackFrom, Working, Record, Writing
    <2>5. idx' \in [Procs -> Nat]
      BY <1>1, <1>17, <2>4, LocalFacts DEF PlaceOK, Writing, TypeOK, WriteFails
    <2>6. orphan' \in SUBSET Paths /\ backups' \in [Paths -> SUBSET Backup]
      <3>1. orphan' \in SUBSET Paths
        BY <1>1, <1>17, <2>3 DEF TypeOK, WriteFails
      <3>2. backups' \in [Paths -> SUBSET Backup]
        <4> DEFINE f == CurrentOp(p).path
        <4>1. \/ UNCHANGED backups
              \/ \E kept \in SUBSET backups[f] :
                    backups' = [backups EXCEPT ![f] = kept]
          BY <1>17 DEF WriteFails
        <4>2. backups \in [Paths -> SUBSET Backup] /\ f \in Paths
          BY <1>1, <2>3 DEF TypeOK
        <4> HIDE DEF f
        <4>3. QED
          BY <4>1, <4>2
      <3>3. QED
        BY <3>1, <3>2
    <2>7. results' \in [Procs -> Seq(Result)]
      BY <1>1, <1>17, <2>2 DEF TypeOK, WriteFails, Record
    <2>8. /\ faults' \in Nat
           /\ pc' \in [Procs -> Labels]
           /\ seen' \in [Procs -> FileState]
           /\ bak' \in [Procs -> Nat]
      BY SMTT(30), <1>1, <1>17, FileStateFacts
      DEF TypeOK, WriteFails, Record, Fault, Labels, Holding
    <2>9. UNCHANGED <<file, clock, holder, runs, stage, plan, rbErr, edits,
                       atLock, raced, base, solo>>
      BY <1>17 DEF WriteFails
    <2>10. TypeOK'
      BY <1>1, <2>5, <2>6, <2>7, <2>8, <2>9 DEF TypeOK
    <2>11. PlaceOK(p)'
      <3> HIDE DEF r
      <3>1. QED
        BY SMTT(30), <2>4, <2>2, LocalFacts
        DEF PlaceOK, Ended, Holding, Writing, Undo
    <2>12. QED
      BY <1>2, <1>17, <2>10, <2>11 DEF Failure
  <1>18. ASSUME NEW p \in Procs, UndoSkip(p)
        PROVE  TypeInv'
    <2>1. /\ pc[p] = "rollback" /\ idx[p] > 0
          /\ pc'[p] = pc[p]
          /\ stage'[p] = stage[p]
          /\ plan'[p] = plan[p]
          /\ idx'[p] = idx[p] - 1
          /\ results'[p] = results[p]
      BY <1>1, <1>18 DEF TypeOK, UndoSkip, Undoing
    <2>2. idx' \in [Procs -> Nat]
      BY <1>1, <1>18 DEF TypeOK, UndoSkip, Undoing
    <2>3. UNCHANGED <<file, backups, orphan, clock, holder, pc, runs, stage, plan,
                      results, seen, bak, rbErr, faults,
                      edits, atLock, raced, base, solo>>
      BY <1>18 DEF UndoSkip, Undoing
    <2>4. TypeOK'
      BY <1>1, <2>2, <2>3 DEF TypeOK
    <2>5. PlaceOK(p)'
      BY <2>1, LocalFacts
      DEF PlaceOK, Ended, Holding, Writing, Undo
    <2>6. QED
      BY <1>2, <1>18, <2>4, <2>5 DEF Progress
  <1>19. ASSUME NEW p \in Procs, UndoTruncate(p)
        PROVE  TypeInv'
    <2>1. /\ CurrentOp(p).path \in Paths
          /\ CurrentOp(p).after \in FileState
          /\ CurrentOp(p).keep \in Nat
      BY <1>19, PlanFacts DEF UndoTruncate, Writing
    <2>2. solo' \in [Procs -> BOOLEAN]
      BY <1>1, <1>19, SpoilType DEF UndoTruncate
    <2>3. /\ pc[p] = "rollback" /\ idx[p] > 0
          /\ pc'[p] = "restore"
          /\ stage'[p] = stage[p]
          /\ plan'[p] = plan[p]
          /\ idx'[p] = idx[p]
          /\ results'[p] = results[p]
      BY <1>1, <1>19 DEF TypeOK, UndoTruncate, Undoing
    <2>4. file' \in [Paths -> FileState]
      BY <1>1, <1>19, <2>1, FileStateFacts DEF TypeOK, UndoTruncate
    <2>5. seen' \in [Procs -> FileState]
      <3>1. PICK b \in backups[CurrentOp(p).path] : seen' = [seen EXCEPT ![p] = b.doc]
        BY <1>19 DEF UndoTruncate
      <3>2. b \in Backup
        BY <1>1, <2>1 DEF TypeOK
      <3>3. b.doc \in FileState
        BY <3>2 DEF Backup
      <3>4. QED
        BY <1>1, <3>1, <3>3 DEF TypeOK
    <2>6. TypeOK'
      BY <2>5, <2>4, <1>1, <1>19, <2>1, <2>2, AbsentType
      DEF TypeOK, Labels, Ended, Holding, UndoTruncate, Undoing, Backup
    <2>7. PlaceOK(p)'
      BY <2>3, LocalFacts
      DEF PlaceOK, Ended, Holding, Writing, Undo
    <2>8. QED
      BY <1>2, <1>19, <2>6, <2>7 DEF Progress
  <1>20. ASSUME NEW p \in Procs, UndoRestore(p)
        PROVE  TypeInv'
    <2>1. /\ CurrentOp(p).path \in Paths
          /\ CurrentOp(p).after \in FileState
          /\ CurrentOp(p).keep \in Nat
      BY <1>20, PlanFacts DEF UndoRestore, Writing
    <2>2. solo' \in [Procs -> BOOLEAN]
      BY <1>1, <1>20, SpoilType DEF UndoRestore
    <2>3. /\ pc[p] = "restore"
          /\ pc'[p] = "rollback"
          /\ stage'[p] = stage[p]
          /\ plan'[p] = plan[p]
          /\ idx'[p] = idx[p] - 1
          /\ results'[p] = results[p]
      BY <1>1, <1>20 DEF TypeOK, UndoRestore
    <2>4. file' \in [Paths -> FileState]
      BY <1>1, <1>20, <2>1, FileStateFacts DEF TypeOK, UndoRestore
    <2>5. idx' \in [Procs -> Nat]
      BY <1>1, <1>20, <2>3, LocalFacts DEF PlaceOK, Writing, TypeOK, UndoRestore
    <2>6. TypeOK'
      BY <2>5, <2>4, <1>1, <1>20, <2>1, <2>2, AbsentType
      DEF TypeOK, Labels, Ended, Holding, UndoRestore
    <2>7. PlaceOK(p)'
      BY <2>3, LocalFacts
      DEF PlaceOK, Ended, Holding, Writing, Undo
    <2>8. QED
      BY <1>2, <1>20, <2>6, <2>7 DEF Progress
  <1>21. ASSUME NEW p \in Procs, UndoRemove(p)
        PROVE  TypeInv'
    <2>1. /\ CurrentOp(p).path \in Paths
          /\ CurrentOp(p).after \in FileState
          /\ CurrentOp(p).keep \in Nat
      BY <1>21, PlanFacts DEF UndoRemove, Writing
    <2>2. solo' \in [Procs -> BOOLEAN]
      BY <1>1, <1>21, SpoilType DEF UndoRemove
    <2>3. /\ pc[p] = "rollback" /\ idx[p] > 0
          /\ pc'[p] = pc[p]
          /\ stage'[p] = stage[p]
          /\ plan'[p] = plan[p]
          /\ idx'[p] = idx[p] - 1
          /\ results'[p] = results[p]
      BY <1>1, <1>21 DEF TypeOK, UndoRemove, Undoing
    <2>4. file' \in [Paths -> FileState]
      BY <1>1, <1>21, <2>1, FileStateFacts DEF TypeOK, UndoRemove
    <2>5. idx' \in [Procs -> Nat]
      BY <1>1, <1>21, <2>3, LocalFacts DEF PlaceOK, Writing, TypeOK, UndoRemove
    <2>6. TypeOK'
      BY <2>5, <2>4, <1>1, <1>21, <2>1, <2>2, AbsentType
      DEF TypeOK, Labels, Ended, Holding, UndoRemove, Undoing
    <2>7. PlaceOK(p)'
      BY <2>3, LocalFacts
      DEF PlaceOK, Ended, Holding, Writing, Undo
    <2>8. QED
      BY <1>2, <1>21, <2>6, <2>7 DEF Progress
  <1>22. ASSUME NEW p \in Procs, UndoFails(p)
        PROVE  TypeInv'
    <2>1. /\ pc[p] = "restore" \/ (pc[p] = "rollback" /\ idx[p] > 0)
          /\ pc'[p] = "rollback"
          /\ stage'[p] = stage[p]
          /\ plan'[p] = plan[p]
          /\ idx'[p] = idx[p] - 1
          /\ results'[p] = results[p]
      BY <1>1, <1>22 DEF TypeOK, UndoFails, Undoing
    <2>2. idx' \in [Procs -> Nat]
      BY <1>1, <1>22, <2>1, LocalFacts DEF PlaceOK, Writing, TypeOK, UndoFails
    <2>3. rbErr' \in [Procs -> BOOLEAN] /\ seen' \in [Procs -> FileState]
      BY <1>1, <1>22, FileStateFacts DEF TypeOK, UndoFails
    <2>4. TypeOK'
      BY SMTT(30), <2>3, <2>2, <1>1, <1>22, AbsentType
      DEF TypeOK, Labels, Ended, Holding, UndoFails, Undoing, Fault
    <2>5. PlaceOK(p)'
      BY <2>1, LocalFacts
      DEF PlaceOK, Ended, Holding, Writing, Undo
    <2>6. QED
      BY <1>2, <1>22, <2>4, <2>5 DEF Failure
  <1>23. ASSUME NEW p \in Procs, ApplyFailed(p)
        PROVE  TypeInv'
    <2>1. TypeOK'
      BY <1>1, <1>23, AbsentType
      DEF TypeOK, Labels, Ended, Holding, ApplyFailed, Return
    <2>2. PlaceOK(p)'
      BY <1>1, <1>23, LocalFacts
      DEF TypeOK, PlaceOK, Labels, Ended, Holding, Writing, Undo, ApplyFailed, Return
    <2>3. QED
      BY <1>2, <1>23, <2>1, <2>2 DEF Progress
  <1>24. ASSUME NEW p \in Procs, RefreshShellEnv(p)
        PROVE  TypeInv'
    <2>1. /\ pc' \in [Procs -> Labels]
          /\ stage' \in [Procs -> Nat]
          /\ pc'[p] \in {"plan", "done", "sync"}
          /\ stage'[p] \in 1 .. Len(Invocation[p])
      <3>1. CASE CurrentStage(p).sync = {}
        BY <1>24, <3>1, AfterStageFacts DEF RefreshShellEnv, Ended
      <3>2. CASE CurrentStage(p).sync # {}
        BY <1>1, <1>24, <3>2, LocalFacts
        DEF RefreshShellEnv, TypeOK, PlaceOK, Labels, Ended
      <3>3. QED
        BY <3>1, <3>2
    <2>2. TypeOK'
      BY <1>1, <1>24, <2>1 DEF TypeOK, RefreshShellEnv
    <2>3. PlaceOK(p)'
      BY <1>24, <2>1, LocalFacts
      DEF PlaceOK, Holding, Writing, Undo, RefreshShellEnv
    <2>4. QED
      BY <1>2, <1>24, <2>2, <2>3 DEF Progress
  <1>25. ASSUME NEW p \in Procs, SyncPlugins(p)
        PROVE  TypeInv'
    <2>1. /\ Json(file[Doc].has \cup CurrentStage(p).sync) \in FileState
          /\ Doc \in Paths
      BY <1>1, <1>25, StageType, EditFacts, InvocationAssumption
      DEF SyncPlugins, TypeOK, Stage, Ended
    <2>2. solo' \in [Procs -> BOOLEAN]
      BY <1>1, <1>25, SpoilType DEF SyncPlugins
    <2>3. file' \in [Paths -> FileState]
      BY <1>1, <1>25, <2>1, FileStateFacts DEF TypeOK, SyncPlugins
    <2>4. /\ pc' \in [Procs -> Labels]
           /\ stage' \in [Procs -> Nat]
           /\ pc'[p] \in {"plan", "done"}
           /\ stage'[p] \in 1 .. Len(Invocation[p])
      BY <1>25, AfterStageFacts DEF SyncPlugins, Ended
    <2>5. raced' \in BOOLEAN
      BY <1>1, <1>25 DEF TypeOK, SyncPlugins
    <2>6. TypeOK'
      BY <1>1, <1>25, <2>2, <2>3, <2>4, <2>5 DEF TypeOK, SyncPlugins
    <2>7. PlaceOK(p)'
      BY <1>25, <2>4, LocalFacts
      DEF PlaceOK, Holding, Writing, Undo, SyncPlugins
    <2>8. QED
      BY <1>2, <1>25, <2>6, <2>7 DEF Progress
  <1>26. ASSUME NEW p \in Procs, StageFails(p)
        PROVE  TypeInv'
    <2>1. /\ pc' \in [Procs -> Labels]
           /\ faults' \in Nat
      BY <1>1, <1>26
      DEF TypeOK, Labels, Ended, Holding, StageFails, Fault
    <2>2. UNCHANGED <<file, backups, orphan, clock, holder, runs, stage, plan,
                      idx, results, seen, bak, rbErr, edits,
                      atLock, raced, base, solo>>
      BY <1>26 DEF StageFails, Fault
    <2>3. TypeOK'
      BY <1>1, <2>1, <2>2 DEF TypeOK
    <2>4. PlaceOK(p)'
      BY <1>1, <1>26, LocalFacts
      DEF TypeOK, PlaceOK, Labels, Ended, Holding, Writing, Undo, StageFails
    <2>5. QED
      BY <1>2, <1>26, <2>3, <2>4 DEF Failure
  <1>27. ASSUME NEW p \in Procs, Crash(p)
        PROVE  TypeInv'
    <2>1. TypeOK'
      BY <1>1, <1>27, AbsentType
      DEF TypeOK, Labels, Ended, Holding, Crash, Return
    <2>2. PlaceOK(p)'
      BY <1>1, <1>27, LocalFacts
      DEF TypeOK, PlaceOK, Labels, Ended, Holding, Writing, Undo, Crash, Return
    <2>3. QED
      BY <1>2, <1>27, <2>1, <2>2 DEF Failure
  <1>28. ASSUME Edit
        PROVE  TypeInv'
    <2>1. PICK e \in Entries : \/ file' = [file EXCEPT ![Doc] = Json(@.has \cup {e})]
                               \/ file' = [file EXCEPT ![Doc] = Json(@.has \ {e})]
      BY <1>28 DEF Edit
    <2>2. file' \in [Paths -> FileState]
      <3>1. {e} \in Document /\ file[Doc] \in FileState
        BY <1>1, InvocationAssumption DEF Document, TypeOK
      <3>2. /\ Json(file[Doc].has \cup {e}) \in FileState
            /\ Json(file[Doc].has \ {e}) \in FileState
        BY <3>1, EditFacts
      <3>3. QED
        BY <1>1, <2>1, <3>2 DEF TypeOK
    <2>3. solo' \in [Procs -> BOOLEAN]
      BY <1>28 DEF Edit
    <2>4. TypeOK'
      BY <1>1, <1>28, <2>2, <2>3 DEF TypeOK, Edit
    <2>5. \A q \in Procs : PlaceOK(q)'
      BY <1>28 DEF TypeInv, PlaceOK, Edit
    <2>6. QED
      BY <2>4, <2>5 DEF TypeInv
  <1>29. ASSUME UNCHANGED vars
        PROVE  TypeInv'
    BY <1>29 DEF TypeInv, vars, TypeOK, PlaceOK
  <1>30. QED
    BY <1>3, <1>4, <1>5, <1>6, <1>7, <1>8, <1>9, <1>10, <1>11, <1>12, <1>13, <1>14, <1>15, <1>16, <1>17, <1>18, <1>19, <1>20, <1>21, <1>22, <1>23, <1>24, <1>25, <1>26, <1>27, <1>28, <1>29 DEF Next, Progress, Failure

\* Type correctness: whatever the invocations do, every variable keeps its
\* type (ApplyEngine.TypeOK).
THEOREM TypeCorrect == Spec => []TypeOK
  <1>1. Init => TypeInv
    BY TypeInit
  <1>2. TypeInv /\ [Next]_vars => TypeInv'
    BY TypeNext
  <1>3. TypeInv => TypeOK
    BY DEF TypeInv
  <1>4. QED
    BY <1>1, <1>2, <1>3, PTL DEF Spec

-----------------------------------------------------------------------------
(* Mutual exclusion *)

\* Only taking the lock and returning from render.Apply change the holder;
\* between the two an invocation stays inside.
LEMMA LockNext == TypeInv /\ LockExclusion /\ [Next]_vars => LockExclusion'
  <1> SUFFICES ASSUME TypeInv, LockExclusion, [Next]_vars
               PROVE  LockExclusion'
    OBVIOUS
  <1>1. TypeOK
    BY DEF TypeInv
  <1>2. ASSUME NEW p \in Procs, Start(p) \/ Progress(p) \/ Failure(p),
               pc[p] \in Holding <=> pc'[p] \in Holding,
               holder' = holder
        PROVE  LockExclusion'
    BY <1>1, <1>2, OthersKept DEF LockExclusion, Kept
  <1>3. ASSUME NEW p \in Procs, Progress(p) \/ Failure(p),
               NEW l \in Labels \ Holding, Return(p, l)
        PROVE  LockExclusion'
    <2>1. pc'[p] \notin Holding
      BY <1>1, <1>3 DEF TypeOK, Return, Goto
    <2>2. holder' # p
      BY <1>1, <1>3, NoProcAssumption DEF TypeOK, Return
    <2>3. ASSUME NEW q \in Procs \ {p}
          PROVE  pc'[q] \in Holding <=> holder' = q
      <3>1. pc'[q] = pc[q]
        BY <1>1, <1>3, OthersKept DEF Kept
      <3>2. holder' = q <=> holder = q
        BY <1>3, NoProcAssumption DEF Return
      <3>3. QED
        BY <3>1, <3>2 DEF LockExclusion
    <2>4. QED
      BY <2>1, <2>2, <2>3 DEF LockExclusion
  <1>4. ASSUME NEW p \in Procs, AcquireApplyLock(p)
        PROVE  LockExclusion'
    <2>1. holder = NoProc /\ holder' = p
      BY <1>4 DEF AcquireApplyLock, FlockFree
    <2>2. pc'[p] \in Holding
      BY <1>1, <1>4 DEF TypeOK, AcquireApplyLock, Goto, Holding
    <2>3. ASSUME NEW q \in Procs \ {p}
          PROVE  pc'[q] \notin Holding
      <3>1. pc'[q] = pc[q]
        BY <1>1, <1>4, OthersKept DEF Kept, Progress
      <3>2. pc[q] \notin Holding
        BY <2>1, NoProcAssumption DEF LockExclusion
      <3>3. QED
        BY <3>1, <3>2
    <2>4. QED
      BY <2>1, <2>2, <2>3 DEF LockExclusion
  <1>5. ASSUME NEW p \in Procs,
               \/ PlanFails(p) \/ LockTimeout(p) \/ LockFails(p)
               \/ ApplyDone(p) \/ ApplyFailed(p) \/ Crash(p)
        PROVE  LockExclusion'
    <2>1. PICK l \in {"failed", "env", "crashed"} : Return(p, l)
      BY <1>5
      DEF PlanFails, LockTimeout, LockFails, ApplyDone, ApplyFailed, Crash
    <2>2. l \in Labels \ Holding
      BY DEF Labels, Ended, Holding
    <2>3. QED
      BY <1>3, <1>5, <2>1, <2>2 DEF Progress, Failure
  <1>6. ASSUME NEW p \in Procs,
               \/ Start(p) \/ PlanStage(p) \/ StageFails(p)
        PROVE  LockExclusion'
    BY <1>1, <1>2, <1>6
    DEF Start, PlanStage, StageFails, Goto, TypeOK, Ended, Holding, Progress,
        Failure
  <1>7. ASSUME NEW p \in Procs, RefreshShellEnv(p) \/ SyncPlugins(p)
        PROVE  LockExclusion'
    <2>1. pc[p] \notin Holding /\ pc'[p] \notin Holding /\ holder' = holder
      BY <1>1, <1>7
      DEF RefreshShellEnv, SyncPlugins, AfterStage, Goto, TypeOK, Holding
    <2>2. QED
      BY <1>2, <1>7, <2>1 DEF Progress
  <1>8. ASSUME NEW p \in Procs,
               \/ SkipNoop(p) \/ WriteEqual(p) \/ ReadExisting(p)
               \/ PruneBackups(p) \/ WriteBackupTemp(p) \/ RenameBackup(p)
               \/ RenameTarget(p) \/ WriteFails(p)
        PROVE  LockExclusion'
    <2>1. pc[p] \in Holding /\ pc'[p] \in Holding /\ holder' = holder
      BY <1>1, <1>8
      DEF SkipNoop, WriteEqual, ReadExisting, PruneBackups, WriteBackupTemp,
          RenameBackup, RenameTarget, WriteFails, Working, NextTarget, Goto,
          TypeOK, Holding
    <2>2. QED
      BY <1>2, <1>8, <2>1 DEF Progress, Failure
  <1>9. ASSUME NEW p \in Procs,
               \/ UndoSkip(p) \/ UndoTruncate(p) \/ UndoRestore(p)
               \/ UndoRemove(p) \/ UndoFails(p)
        PROVE  LockExclusion'
    <2>1. pc[p] \in Holding /\ pc'[p] \in Holding /\ holder' = holder
      BY <1>1, <1>9
      DEF UndoSkip, UndoTruncate, UndoRestore, UndoRemove, UndoFails, Undoing,
          Goto, TypeOK, Holding
    <2>2. QED
      BY <1>2, <1>9, <2>1 DEF Progress, Failure
  <1>10. CASE Edit
    BY <1>10 DEF Edit, LockExclusion
  <1>11. CASE UNCHANGED vars
    BY <1>11 DEF vars, LockExclusion
  <1>12. QED
    BY <1>4, <1>5, <1>6, <1>7, <1>8, <1>9, <1>10, <1>11
    DEF Next, Progress, Failure

\* The apply lock serialises the writers for any number of invocations, with
\* crashes, failures and timeouts (ApplyEngine.LockExclusion).
THEOREM LockCorrect == Spec => []LockExclusion
  <1>1. Init => TypeInv /\ LockExclusion
    BY TypeInit, NoProcAssumption DEF Init, LockExclusion, Holding
  <1>2. TypeInv /\ LockExclusion /\ [Next]_vars => (TypeInv /\ LockExclusion)'
    BY TypeNext, LockNext
  <1>3. QED
    BY <1>1, <1>2, PTL DEF Spec

-----------------------------------------------------------------------------
(* What a run that nobody interferes with renders *)

\* The places of an invocation that nothing has gone wrong for.
Forward == {"plan", "lock"} \cup Writing \cup {"env", "sync", "done"}

TargetDone(t) == t.declared \subseteq file[t.path].has
TargetsDone(st) == \A i \in DOMAIN st.targets : TargetDone(st.targets[i])
StageDone(st) == TargetsDone(st) /\ st.sync \subseteq file[Doc].has

\* What is written is written, and the plan of the rest is of the files as they
\* are: nobody has changed them since the plan was made.
PlanCurrent(p) ==
    LET ts == CurrentStage(p).targets
    IN  /\ DOMAIN plan[p] = DOMAIN ts
        /\ \A i \in DOMAIN ts :
             \/ pc[p] # "lock" /\ i < idx[p] /\ TargetDone(ts[i])
             \/ (pc[p] = "lock" \/ i >= idx[p]) /\ plan[p][i] = PlanOp(ts[i])

RenderInv(p) ==
    /\ base[p][Doc].has \ StaleOf(p) \subseteq file[Doc].has
    /\ \A s \in DOMAIN Invocation[p] : s < stage[p] => StageDone(Invocation[p][s])
    /\ pc[p] \in {"lock"} \cup Writing => PlanCurrent(p)
    /\ pc[p] \in {"env", "sync"} => TargetsDone(CurrentStage(p))
    /\ pc[p] = "done" => /\ stage[p] = Len(Invocation[p])
                         /\ StageDone(CurrentStage(p))

SoloInv == \A p \in Procs : solo[p] /\ pc[p] \in Forward => RenderInv(p)

\* A target of a stage is one of the invocation's targets.
LEMMA TargetFacts ==
    ASSUME NEW p \in Procs, NEW s \in DOMAIN Invocation[p],
           NEW i \in DOMAIN Invocation[p][s].targets
    PROVE  /\ Invocation[p][s] \in StagesOf(p)
           /\ Invocation[p][s].targets[i] \in TargetsOf(p)
           /\ Invocation[p][s].targets[i] \in Target
  <1>1. Invocation[p][s] \in StagesOf(p)
    BY DEF StagesOf
  <1>2. Invocation[p][s].targets[i] \in TargetsOf(p)
    BY <1>1 DEF TargetsOf
  <1>3. Invocation[p] \in Seq(Stage)
    BY InvocationAssumption
  <1>4. Invocation[p][s] \in Stage
    BY <1>3
  <1>5. Invocation[p][s].targets \in Seq(Target)
    BY <1>4 DEF Stage
  <1>6. QED
    BY <1>1, <1>2, <1>5

\* Rendering a target leaves everything that is rendered, and the user's part of
\* opencode.json.
LEMMA RenderKeeps ==
    ASSUME NEW p \in Procs, NEW t \in TargetsOf(p), NEW f
    PROVE  /\ t.declared \subseteq Render(t, f).has
           /\ \A u \in TargetsOf(p) :
                u.path = t.path /\ u.declared \subseteq f.has
                  => u.declared \subseteq Render(t, f).has
           /\ t.path = Doc =>
                /\ f.has \ StaleOf(p) \subseteq Render(t, f).has
                /\ \A st \in StagesOf(p) :
                     st.sync \subseteq f.has => st.sync \subseteq Render(t, f).has
  <1>1. Render(t, f).has = IF t.whole THEN t.declared
                           ELSE (f.has \ t.stale) \cup t.declared
    BY DEF Render, Json
  <1>2. t.stale \subseteq StaleOf(p)
    BY DEF StaleOf
  <1>3. QED
    BY <1>1, <1>2, StackAssumption

\* A step of one invocation is none of another's business while nobody has
\* changed a file.
LEMMA OthersSolo ==
    ASSUME TypeInv, SoloInv, NEW p \in Procs, NEW q \in Procs \ {p},
           Start(p) \/ Progress(p) \/ Failure(p),
           solo'[q], pc'[q] \in Forward
    PROVE  RenderInv(q)'
  <1> USE DEF diskVars, lockHist, runHist, histVars
  <1>1. TypeOK
    BY DEF TypeInv
  <1>2. Kept(q)
    BY <1>1, OthersKept
  <1>3. file' = file /\ solo[q] /\ base'[q] = base[q]
    <2>1. CASE Start(p)
      BY <1>1, <2>1 DEF Start, TypeOK
    <2>2. CASE \/ RenameTarget(p) \/ UndoTruncate(p) \/ UndoRestore(p)
               \/ UndoRemove(p) \/ SyncPlugins(p)
      BY <2>2 DEF RenameTarget, UndoTruncate, UndoRestore, UndoRemove, SyncPlugins,
         SpoilOthers
    <2>3. CASE ~(\/ Start(p) \/ RenameTarget(p) \/ UndoTruncate(p) \/ UndoRestore(p)
                 \/ UndoRemove(p) \/ SyncPlugins(p))
      BY <2>3 DEF Progress, Failure, PlanStage, AcquireApplyLock, LockTimeout, SkipNoop,
         WriteEqual, ReadExisting, PruneBackups, WriteBackupTemp, RenameBackup,
         ApplyDone, UndoSkip, ApplyFailed, RefreshShellEnv, PlanFails, LockFails,
         WriteFails, UndoFails, StageFails, Crash
    <2>4. QED
      BY <2>1, <2>2, <2>3
  <1>4. RenderInv(q)
    BY <1>2, <1>3 DEF SoloInv, Kept
  <1>5. /\ \A st : TargetsDone(st)' <=> TargetsDone(st)
        /\ \A st : StageDone(st)' <=> StageDone(st)
        /\ CurrentStage(q)' = CurrentStage(q)
    BY <1>2, <1>3 DEF StageDone, TargetsDone, TargetDone, CurrentStage, Kept
  <1>6. PlanCurrent(q)' <=> PlanCurrent(q)
    BY <1>2, <1>3 DEF PlanCurrent, PlanOp, CurrentStage, TargetDone, Kept
  <1>7. QED
    BY <1>2, <1>3, <1>4, <1>5, <1>6 DEF RenderInv, Kept

\* A step that changes no file and no stage, with what it makes of the plan.
LEMMA SameFiles ==
    ASSUME NEW p \in Procs, RenderInv(p), UNCHANGED <<file, base, stage>>,
           pc'[p] \in {"lock"} \cup Writing, PlanCurrent(p)'
    PROVE  RenderInv(p)'
  BY DEF RenderInv, StageDone, TargetsDone, TargetDone, CurrentStage, Writing

DoneNext(t) == t.declared \subseteq file'[t.path].has

\* The target that is written or found in place is done, the others are as they
\* were.
LEMMA NextDone ==
    ASSUME TypeInv, NEW p \in Procs, RenderInv(p), pc[p] \in Writing,
           pc'[p] = "write", idx'[p] = idx[p] + 1, UNCHANGED <<plan, stage>>,
           idx[p] \in DOMAIN plan[p],
           DoneNext(CurrentStage(p).targets[idx[p]]),
           \A i \in DOMAIN CurrentStage(p).targets \ {idx[p]} :
             LET t == CurrentStage(p).targets[i]
             IN  file'[t.path] = file[t.path]
    PROVE  PlanCurrent(p)'
  <1> DEFINE ts == CurrentStage(p).targets
  <1>1. PlanCurrent(p) /\ idx[p] \in Nat /\ DOMAIN ts = DOMAIN plan[p]
    BY DEF RenderInv, PlanCurrent, TypeInv, TypeOK
  <1>2. CurrentStage(p)' = CurrentStage(p) /\ plan'[p] = plan[p]
    BY DEF CurrentStage
  <1>3. DOMAIN ts \subseteq Nat
    BY <1>1 DEF TypeInv, TypeOK
  <1>4. ASSUME NEW i \in DOMAIN ts
        PROVE  \/ i < idx'[p] /\ DoneNext(ts[i])
               \/ /\ i >= idx'[p]
                  /\ plan'[p][i] = plan[p][i] /\ plan[p][i] = PlanOp(ts[i])
                  /\ file'[ts[i].path] = file[ts[i].path]
    <2>1. CASE i = idx[p]
      BY <1>1, <1>2, <2>1
    <2>2. CASE i < idx[p]
      <3>1. pc[p] # "lock"
        BY DEF Writing
      <3>2. TargetDone(ts[i])
        BY <1>1, <1>3, <1>4, <2>2, <3>1 DEF PlanCurrent
      <3>3. file'[ts[i].path] = file[ts[i].path]
        BY <1>1, <1>3, <1>4, <2>2
      <3>4. QED
        BY <1>1, <1>2, <1>3, <2>2, <3>2, <3>3 DEF TargetDone, DoneNext
    <2>3. CASE i > idx[p]
      BY <1>1, <1>2, <1>3, <2>3 DEF PlanCurrent
    <2>4. QED
      BY <1>1, <1>3, <2>1, <2>2, <2>3
  <1>5. QED
    BY <1>1, <1>2, <1>4 DEF PlanCurrent, PlanOp, TargetDone, DoneNext, Writing

\* A renamed target keeps what is rendered, and the user's part of the file.
LEMMA RenameKeeps ==
    ASSUME TypeInv, NEW p \in Procs, RenderInv(p), RenameTarget(p)
    PROVE  RenderInv(p)'
  <1> USE DEF diskVars, lockHist, runHist, histVars, Goto
  <1> DEFINE ts == CurrentStage(p).targets
             i == idx[p]
             t == ts[i]
  <1>1. TypeOK /\ PlaceOK(p) /\ pc[p] = "rename"
    BY DEF TypeInv, RenameTarget
  <1>2. i \in DOMAIN plan[p] /\ plan[p] \in Seq(Op) /\ i \in Nat
    <2>1. i \in 1 .. Len(plan[p])
      BY <1>1, PlanFacts DEF Writing
    <2>2. plan[p] \in Seq(Op)
      BY <1>1 DEF TypeOK
    <2>3. QED
      BY <2>1, <2>2
  <1>3. DOMAIN plan[p] = DOMAIN ts /\ plan[p][i] = PlanOp(t)
    BY <1>1, <1>2 DEF RenderInv, PlanCurrent, Writing
  <1>4. /\ CurrentOp(p).path = t.path
        /\ CurrentOp(p).after = Render(t, file[t.path])
    BY <1>3 DEF CurrentOp, PlanOp
  <1>5. stage[p] \in DOMAIN Invocation[p]
    BY <1>1, InvocationAssumption DEF PlaceOK, Ended
  <1>6. t \in TargetsOf(p) /\ t.path \in Paths
    BY <1>2, <1>3, <1>5, TargetFacts DEF CurrentStage, Target
  <1>7. file' = [file EXCEPT ![t.path] = Render(t, file[t.path])]
    BY <1>4 DEF RenameTarget
  <1>8. /\ pc'[p] = "write" /\ idx'[p] = i + 1
        /\ UNCHANGED <<plan, stage, base>>
    BY <1>1 DEF RenameTarget, NextTarget, Record, TypeOK
  <1>9. \A u \in TargetsOf(p) : u.path \in Paths
    BY TargetFacts DEF TargetsOf, StagesOf, Target
  <1>10. \A u \in TargetsOf(p) : TargetDone(u) => DoneNext(u)
    <2>1. ASSUME NEW u \in TargetsOf(p), TargetDone(u)
          PROVE  DoneNext(u)
      <3>1. CASE u.path = t.path
        BY <1>1, <1>6, <1>7, <2>1, <3>1, RenderKeeps DEF TargetDone, DoneNext, TypeOK
      <3>2. CASE u.path # t.path
        BY <1>1, <1>7, <1>9, <2>1, <3>2 DEF TargetDone, DoneNext, TypeOK
      <3>3. QED
        BY <3>1, <3>2
    <2>2. QED
      BY <2>1
  <1>11. DoneNext(t)
    BY <1>1, <1>6, <1>7, RenderKeeps DEF TargetDone, DoneNext, TypeOK
  <1>12. /\ \A st \in StagesOf(p) :
              st.sync \subseteq file[Doc].has => st.sync \subseteq file'[Doc].has
         /\ file[Doc].has \ StaleOf(p) \subseteq file'[Doc].has
    <2>1. Doc \in Paths
      BY InvocationAssumption
    <2>2. CASE t.path = Doc
      BY <1>1, <1>6, <1>7, <2>1, <2>2, RenderKeeps DEF TypeOK
    <2>3. CASE t.path # Doc
      BY <1>1, <1>7, <2>1, <2>3 DEF TypeOK
    <2>4. QED
      BY <2>2, <2>3
  <1>13. ASSUME NEW s \in DOMAIN Invocation[p], StageDone(Invocation[p][s])
         PROVE  StageDone(Invocation[p][s])'
    <2> DEFINE st == Invocation[p][s]
    <2>1. st \in StagesOf(p) /\ \A j \in DOMAIN st.targets : st.targets[j] \in TargetsOf(p)
      BY <1>13, TargetFacts DEF StagesOf
    <2>2. st.sync \subseteq file'[Doc].has
      BY <1>12, <1>13, <2>1 DEF StageDone
    <2>3. \A j \in DOMAIN st.targets : DoneNext(st.targets[j])
      BY <1>10, <1>13, <2>1 DEF StageDone, TargetsDone
    <2>4. QED
      BY <2>2, <2>3 DEF StageDone, TargetsDone, TargetDone, DoneNext
  <1>14. PlanCurrent(p)'
    <2>1. ASSUME NEW j \in DOMAIN ts \ {i}
          PROVE  file'[ts[j].path] = file[ts[j].path]
      <3>1. ts[j] \in TargetsOf(p)
        BY <1>5, TargetFacts DEF CurrentStage
      <3>2. ts[j].path # t.path
        BY <1>2, <1>3, <1>5, InvocationAssumption DEF CurrentStage
      <3>3. ts[j].path \in Paths
        BY <1>9, <3>1
      <3>4. QED
        BY <1>1, <1>7, <3>2, <3>3 DEF TypeOK
    <2>2. pc[p] \in Writing
      BY <1>1 DEF Writing
    <2>3. QED
      BY <1>2, <1>8, <1>11, <2>1, <2>2, NextDone
  <1>15. QED
    BY <1>8, <1>12, <1>13, <1>14 DEF RenderInv, Writing

\* An invocation's own steps.
LEMMA OwnSolo ==
    ASSUME TypeInv, SoloInv, NEW p \in Procs,
           Start(p) \/ Progress(p) \/ Failure(p),
           solo'[p], pc'[p] \in Forward
    PROVE  RenderInv(p)'
  <1> USE DEF diskVars, lockHist, runHist, histVars, Goto
  <1>1. /\ TypeOK /\ PlaceOK(p) /\ Doc \in Paths /\ pc[p] \in Labels
        /\ Len(Invocation[p]) \in Nat \ {0}
        /\ DOMAIN Invocation[p] = 1 .. Len(Invocation[p])
    BY InvocationAssumption, InvocationFacts DEF TypeInv, TypeOK
  <1>2. /\ pc[p] \notin Ended => stage[p] \in DOMAIN Invocation[p]
        /\ idx[p] \in Nat /\ plan[p] \in Seq(Op)
    BY <1>1 DEF PlaceOK, TypeOK
  <1>3. CASE Start(p)
    <2>1. base'[p] = file /\ file' = file /\ stage'[p] = 1 /\ pc'[p] = "plan"
      BY <1>1, <1>3 DEF Start, TypeOK
    <2>2. \A s \in DOMAIN Invocation[p] : ~(s < 1)
      BY <1>1
    <2>3. QED
      BY <2>1, <2>2 DEF RenderInv, Writing
  <1>4. ASSUME pc[p] \in Forward, solo[p] = solo'[p]
        PROVE  RenderInv(p)
    BY <1>4 DEF SoloInv
  <1>5. CASE PlanStage(p)
    <2> DEFINE ts == CurrentStage(p).targets
    <2>1. RenderInv(p)
      BY <1>4, <1>5 DEF PlanStage, Forward
    <2>2. /\ plan'[p] = [i \in DOMAIN ts |-> PlanOp(ts[i])] /\ pc'[p] = "lock"
          /\ UNCHANGED <<file, base, stage>>
      BY <1>1, <1>5 DEF PlanStage, PlanOf, TypeOK
    <2>3. CurrentStage(p)' = CurrentStage(p) /\ \A t : PlanOp(t)' = PlanOp(t)
      BY <2>2 DEF PlanOp, CurrentStage
    <2>4. DOMAIN plan'[p] = DOMAIN ts /\ \A i \in DOMAIN ts : plan'[p][i] = PlanOp(ts[i])
      BY <2>2
    <2>5. PlanCurrent(p)'
      BY <2>2, <2>3, <2>4 DEF PlanCurrent
    <2>6. QED
      BY <2>1, <2>2, <2>5, SameFiles
  <1>6. CASE AcquireApplyLock(p)
    <2> DEFINE ts == CurrentStage(p).targets
    <2>1. RenderInv(p) /\ pc[p] = "lock"
      BY <1>4, <1>6 DEF AcquireApplyLock, Forward
    <2>2. /\ idx'[p] = 1 /\ pc'[p] = "write" /\ UNCHANGED <<file, base, stage, plan>>
      BY <1>1, <1>6 DEF AcquireApplyLock, TypeOK
    <2>3. DOMAIN plan[p] = DOMAIN ts /\ \A i \in DOMAIN ts : i >= 1 /\ plan[p][i] = PlanOp(ts[i])
      BY <1>2, <2>1 DEF RenderInv, PlanCurrent
    <2>4. PlanCurrent(p)'
      BY <2>2, <2>3 DEF PlanCurrent, PlanOp, CurrentStage
    <2>5. QED
      BY <2>1, <2>2, <2>4, SameFiles DEF Writing
  <1>7. CASE SkipNoop(p) \/ WriteEqual(p)
    <2> DEFINE ts == CurrentStage(p).targets
               i == idx[p]
               t == ts[i]
    <2>1. RenderInv(p) /\ pc[p] = "write" /\ i \in 1 .. Len(plan[p])
      BY <1>1, <1>4, <1>7, PlanFacts DEF SkipNoop, WriteEqual, Working, Forward, Writing
    <2>2. /\ pc'[p] = "write" /\ idx'[p] = i + 1
          /\ UNCHANGED <<file, base, stage, plan>>
      BY <1>1, <1>7 DEF SkipNoop, WriteEqual, NextTarget, Record, TypeOK
    <2>3. i \in DOMAIN plan[p] /\ DOMAIN plan[p] = DOMAIN ts /\ plan[p][i] = PlanOp(t)
      BY <1>2, <2>1 DEF RenderInv, PlanCurrent, Writing
    <2>4. file[t.path] = Render(t, file[t.path])
      <3>1. CurrentOp(p) = PlanOp(t)
        BY <2>3 DEF CurrentOp
      <3>2. CASE SkipNoop(p)
        <4>1. PlanOp(t).noop
          BY <3>1, <3>2 DEF SkipNoop
        <4>2. PlanOp(t).noop <=> Render(t, file[t.path]) = file[t.path]
          BY DEF PlanOp
        <4>3. QED
          BY <4>1, <4>2
      <3>3. CASE WriteEqual(p)
        BY <3>1, <3>3 DEF WriteEqual, PlanOp
      <3>4. QED
        BY <1>7, <3>2, <3>3
    <2>5. t \in TargetsOf(p)
      BY <1>2, <2>1, <2>3, TargetFacts DEF CurrentStage, Ended
    <2>6. DoneNext(t)
      BY <2>2, <2>4, <2>5, RenderKeeps DEF DoneNext
    <2>7. PlanCurrent(p)'
      BY <2>1, <2>2, <2>3, <2>6, NextDone DEF Writing
    <2>8. QED
      BY <2>1, <2>2, <2>7, SameFiles DEF Writing
  <1>8. CASE ReadExisting(p) \/ PruneBackups(p) \/ WriteBackupTemp(p) \/ RenameBackup(p)
    <2>1. RenderInv(p) /\ pc[p] \in Writing
      BY <1>4, <1>8
      DEF ReadExisting, PruneBackups, WriteBackupTemp, RenameBackup, Working, Forward, Writing
    <2>2. UNCHANGED <<file, base, stage, plan, idx>> /\ pc'[p] \in Writing
      BY <1>1, <1>8
      DEF ReadExisting, PruneBackups, WriteBackupTemp, RenameBackup, Writing, TypeOK, callVars
    <2>3. PlanCurrent(p)'
      BY <2>1, <2>2 DEF RenderInv, PlanCurrent, PlanOp, CurrentStage, TargetDone, Writing
    <2>4. QED
      BY <2>1, <2>2, <2>3, SameFiles
  <1>9. CASE RenameTarget(p)
    <2>1. solo[p] = solo'[p] /\ pc[p] \in Forward
      BY <1>1, <1>9 DEF RenameTarget, SpoilOthers, Forward, Writing, TypeOK
    <2>2. QED
      BY <1>4, <1>9, <2>1, RenameKeeps
  <1>10. CASE ApplyDone(p)
    <2> DEFINE ts == CurrentStage(p).targets
    <2>1. RenderInv(p) /\ pc[p] = "write" /\ idx[p] > Len(plan[p])
      BY <1>4, <1>10 DEF ApplyDone, Forward, Writing
    <2>2. UNCHANGED <<file, base, stage>> /\ pc'[p] = "env"
      BY <1>1, <1>10 DEF ApplyDone, Return, TypeOK
    <2>3. DOMAIN ts = 1 .. Len(plan[p]) /\ PlanCurrent(p)
      BY <1>2, <2>1 DEF RenderInv, PlanCurrent, Writing
    <2>4. TargetsDone(CurrentStage(p))
      BY <1>2, <2>1, <2>3 DEF PlanCurrent, TargetsDone
    <2>5. QED
      BY <2>1, <2>2, <2>4
      DEF RenderInv, StageDone, TargetsDone, TargetDone, CurrentStage, Writing
  <1>11. ASSUME AfterStage(p), RenderInv(p), pc[p] \in {"env", "sync"}, base' = base,
                NEW st, st = CurrentStage(p), StageDone(st)',
                \A s \in DOMAIN Invocation[p] :
                  StageDone(Invocation[p][s]) => StageDone(Invocation[p][s])',
                base[p][Doc].has \ StaleOf(p) \subseteq file'[Doc].has
         PROVE  RenderInv(p)'
    <2>1. stage[p] \in 1 .. Len(Invocation[p]) /\ st = Invocation[p][stage[p]]
      BY <1>1, <1>2, <1>11 DEF CurrentStage, Ended
    <2>2. \A s \in DOMAIN Invocation[p] : s <= stage[p] => StageDone(Invocation[p][s])'
      <3>1. \A s \in DOMAIN Invocation[p] : s <= stage[p] => s < stage[p] \/ s = stage[p]
        BY <1>1, <2>1
      <3>2. QED
        BY <1>11, <2>1, <3>1 DEF RenderInv
    <2>3. CASE stage[p] < Len(Invocation[p])
      <3>1. pc'[p] = "plan" /\ stage'[p] = stage[p] + 1
        BY <1>1, <1>11, <2>3 DEF AfterStage, TypeOK
      <3>2. \A s \in DOMAIN Invocation[p] : s < stage'[p] => s <= stage[p]
        BY <1>1, <2>1, <3>1
      <3>3. QED
        BY <1>11, <2>2, <3>1, <3>2 DEF RenderInv, Writing
    <2>4. CASE ~(stage[p] < Len(Invocation[p]))
      <3>1. pc'[p] = "done" /\ stage'[p] = stage[p] /\ stage[p] = Len(Invocation[p])
        BY <1>1, <1>11, <2>1, <2>4 DEF AfterStage, TypeOK
      <3>2. \A s \in DOMAIN Invocation[p] : s < stage'[p] => s <= stage[p]
        BY <1>1, <2>1, <3>1
      <3>3. StageDone(CurrentStage(p))'
        BY <1>11, <2>1, <3>1 DEF CurrentStage, StageDone, TargetsDone, TargetDone
      <3>4. QED
        BY <1>11, <2>2, <3>1, <3>2, <3>3 DEF RenderInv, Writing
    <2>5. QED
      BY <2>3, <2>4
  <1>12. CASE RefreshShellEnv(p)
    <2>1. /\ RenderInv(p) /\ pc[p] = "env" /\ UNCHANGED <<file, base>>
          /\ TargetsDone(CurrentStage(p))
      BY <1>4, <1>12 DEF RefreshShellEnv, Forward, RenderInv
    <2>2. \A st : (StageDone(st)' <=> StageDone(st)) /\ (TargetsDone(st)' <=> TargetsDone(st))
      BY <2>1 DEF StageDone, TargetsDone, TargetDone
    <2>3. CASE CurrentStage(p).sync = {}
      <3>1. StageDone(CurrentStage(p))
        BY <2>1, <2>3 DEF StageDone
      <3>2. AfterStage(p)
        BY <1>12, <2>3 DEF RefreshShellEnv
      <3>3. base[p][Doc].has \ StaleOf(p) \subseteq file'[Doc].has
        BY <2>1 DEF RenderInv
      <3>4. QED
        BY <1>11, <2>1, <2>2, <3>1, <3>2, <3>3
    <2>4. CASE CurrentStage(p).sync # {}
      <3>1. pc'[p] = "sync" /\ UNCHANGED stage
        BY <1>1, <1>12, <2>4 DEF RefreshShellEnv, TypeOK
      <3>2. CurrentStage(p)' = CurrentStage(p)
        BY <3>1 DEF CurrentStage
      <3>3. QED
        BY <2>1, <2>2, <3>1, <3>2 DEF RenderInv, Writing
    <2>5. QED
      BY <2>3, <2>4
  <1>13. CASE SyncPlugins(p)
    <2>1. /\ RenderInv(p) /\ pc[p] = "sync" /\ UNCHANGED base /\ AfterStage(p)
          /\ TargetsDone(CurrentStage(p))
          /\ file' = [file EXCEPT ![Doc] = Json(@.has \cup CurrentStage(p).sync)]
      <3>1. solo[p] = solo'[p] /\ pc[p] \in Forward /\ pc[p] = "sync"
        BY <1>1, <1>13 DEF SyncPlugins, SpoilOthers, Forward, TypeOK
      <3>2. QED
        BY <1>4, <1>13, <3>1 DEF SyncPlugins, RenderInv
    <2>2. \A f \in Paths : file[f].has \subseteq file'[f].has
      BY <1>1, <2>1 DEF TypeOK, Json
    <2>3. CurrentStage(p).sync \subseteq file'[Doc].has
      BY <1>1, <2>1 DEF TypeOK, Json
    <2>4. \A s \in DOMAIN Invocation[p] :
            TargetsDone(Invocation[p][s]) => TargetsDone(Invocation[p][s])'
      <3>1. ASSUME NEW s \in DOMAIN Invocation[p], NEW i \in DOMAIN Invocation[p][s].targets,
                   TargetDone(Invocation[p][s].targets[i])
            PROVE  TargetDone(Invocation[p][s].targets[i])'
        <4>1. Invocation[p][s].targets[i].path \in Paths
          BY <3>1, TargetFacts DEF Target
        <4>2. QED
          BY <2>2, <3>1, <4>1 DEF TargetDone
      <3>2. QED
        BY <3>1 DEF TargetsDone
    <2>5. \A s \in DOMAIN Invocation[p] :
            StageDone(Invocation[p][s]) => StageDone(Invocation[p][s])'
      BY <1>1, <2>2, <2>4 DEF StageDone
    <2>6. PICK st : st = CurrentStage(p)
      OBVIOUS
    <2>7. StageDone(st)'
      <3>1. stage[p] \in DOMAIN Invocation[p] /\ st = Invocation[p][stage[p]]
        BY <1>2, <2>1, <2>6 DEF CurrentStage, Ended
      <3>2. TargetsDone(st)'
        BY <2>1, <2>4, <2>6, <3>1 DEF TargetsDone, TargetDone
      <3>3. QED
        BY <2>3, <2>6, <3>2 DEF StageDone
    <2>8. base[p][Doc].has \ StaleOf(p) \subseteq file'[Doc].has
      BY <1>1, <2>1, <2>2 DEF RenderInv
    <2>9. QED
      BY <1>11, <2>1, <2>5, <2>6, <2>7, <2>8
  <1>14. CASE \/ PlanFails(p) \/ LockTimeout(p) \/ LockFails(p) \/ WriteFails(p)
              \/ UndoSkip(p) \/ UndoTruncate(p) \/ UndoRestore(p) \/ UndoRemove(p)
              \/ UndoFails(p) \/ ApplyFailed(p) \/ StageFails(p) \/ Crash(p)
    <2>1. pc'[p] \in {"failed", "rollback", "restore", "crashed"}
      BY <1>1, <1>14
      DEF PlanFails, LockTimeout, LockFails, WriteFails, UndoSkip, UndoTruncate,
          UndoRestore, UndoRemove, UndoFails, ApplyFailed, StageFails, Crash, Return,
          Undoing, TypeOK
    <2>2. QED
      BY <2>1 DEF Forward, Writing
  <1>15. QED
    BY <1>3, <1>5, <1>6, <1>7, <1>8, <1>9, <1>10, <1>12, <1>13, <1>14
    DEF Progress, Failure

LEMMA SoloNext == TypeInv /\ SoloInv /\ [Next]_vars => SoloInv'
  <1> SUFFICES ASSUME TypeInv, SoloInv, [Next]_vars
               PROVE  SoloInv'
    OBVIOUS
  <1>1. ASSUME NEW p \in Procs, Start(p) \/ Progress(p) \/ Failure(p)
        PROVE  SoloInv'
    BY <1>1, OthersSolo, OwnSolo DEF SoloInv
  <1>2. CASE Edit
    BY <1>2 DEF Edit, SoloInv
  <1>3. CASE UNCHANGED vars
    <2>1. /\ \A st : TargetsDone(st)' <=> TargetsDone(st)
          /\ \A st : StageDone(st)' <=> StageDone(st)
          /\ \A p : CurrentStage(p)' = CurrentStage(p)
          /\ \A p : PlanCurrent(p)' <=> PlanCurrent(p)
      BY <1>3 DEF vars, diskVars, callVars, StageDone, TargetsDone, TargetDone,
         CurrentStage, PlanCurrent, PlanOp
    <2>2. QED
      BY <1>3, <2>1 DEF vars, diskVars, callVars, histVars, runHist, SoloInv, RenderInv
  <1>4. QED
    BY <1>1, <1>2, <1>3 DEF Next

\* An invocation that says "done" and that nobody has interfered with has
\* rendered and synced every stage of stack.toml and kept what opencode.json had,
\* for any stages, however many earlier runs failed or were killed
\* (ApplyEngine.SoloRunRenders; cmd/oca/apply.go, merge.go).
THEOREM SoloRunsRender == Spec => []SoloRunRenders
  <1>1. Init => TypeInv /\ SoloInv
    BY TypeInit DEF Init, SoloInv
  <1>2. TypeInv /\ SoloInv /\ [Next]_vars => (TypeInv /\ SoloInv)'
    BY TypeNext, SoloNext
  <1>3. TypeInv /\ SoloInv => SoloRunRenders
    <2>1. SUFFICES ASSUME TypeInv, SoloInv, NEW p \in Procs, pc[p] = "done", solo[p]
                   PROVE  /\ Rendered(p)
                          /\ base[p][Doc].has \ StaleOf(p) \subseteq file[Doc].has
      BY DEF SoloRunRenders
    <2>2. RenderInv(p)
      BY <2>1 DEF SoloInv, Forward
    <2>3. DOMAIN Invocation[p] = 1 .. Len(Invocation[p]) /\ Len(Invocation[p]) \in Nat \ {0}
      BY InvocationAssumption, InvocationFacts
    <2>4. \A s \in DOMAIN Invocation[p] : StageDone(Invocation[p][s])
      <3>1. \A s \in DOMAIN Invocation[p] : s < stage[p] \/ s = stage[p]
        BY <2>1, <2>2, <2>3 DEF RenderInv
      <3>2. QED
        BY <2>1, <2>2, <3>1 DEF RenderInv, CurrentStage
    <2>5. Rendered(p)
      BY <2>4 DEF Rendered, StageDone, TargetsDone, TargetDone, TargetsOf, StagesOf
    <2>6. QED
      BY <2>2, <2>5 DEF RenderInv
  <1>4. QED
    BY <1>1, <1>2, <1>3, PTL DEF Spec

-----------------------------------------------------------------------------
(* Part 2: stages are all or nothing *)


-----------------------------------------------------------------------------
(* The inductive invariant *)

\* A plan names every path once, and keeps at most MaxBackups backups of it.
PlanInv(p) ==
    /\ \A i, j \in DOMAIN plan[p] :
         plan[p][i].path = plan[p][j].path => i = j
    /\ \A i \in DOMAIN plan[p] : plan[p][i].keep <= MaxBackups

\* Backups are named by the time they were taken: the name is unique and
\* never in the future.
BackupsInv ==
    \A f \in Paths :
        /\ \A b \in backups[f] : b.at < clock
        /\ \A b, c \in backups[f] : b.at = c.at => b = c

\* The locals of WriteAtomic and of rollback do not outlive the call.
LocalsInv(p) ==
    /\ bak[p] # 0 => pc[p] = "rename"
    /\ rbErr[p] => pc[p] \in Undo

\* Every file p has replaced has its backup (see RollbackPossible), and so
\* has the file that p is about to replace.
BackupInv(p) ==
    /\ \A i \in DOMAIN results[p] :
         results[p][i].wrote /\ results[p][i].bak # 0 => HasBackup(p, i)
    /\ bak[p] # 0 =>
         \E b \in backups[CurrentOp(p).path] :
             b.at = bak[p] /\ (raced \/ b.doc = atLock[CurrentOp(p).path])

\* What WriteAtomic has read, and what rollback is about to write back, is
\* the content from before the stage.
SeenInv(p) ==
    pc[p] \in {"prune", "backupTemp", "backupRename", "restore"} =>
        raced \/ seen[p] = atLock[CurrentOp(p).path]

\* Target j is as it was when the lock was taken, or rollback has reported
\* an error, or j is one of the targets that rollback cannot tell from new.
Undone(p, j) ==
    \/ file[plan[p][j].path] = atLock[plan[p][j].path]
    \/ rbErr[p]
    \/ Unbacked(p, j)

\* Target j is replaced, and rollback has not come to it yet.
ToUndo(p, j) ==
    /\ j \in DOMAIN results[p]
    /\ results[p][j].wrote
    /\ pc[p] \in Undo => j <= idx[p]

TargetsInv(p) ==
    pc[p] \in Holding =>
        raced \/ \A j \in DOMAIN plan[p] : ToUndo(p, j) \/ Undone(p, j)

StageInv(p) ==
    /\ PlanInv(p)
    /\ LocalsInv(p)
    /\ BackupInv(p)
    /\ SeenInv(p)
    /\ TargetsInv(p)

IInv ==
    /\ TypeInv
    /\ LockExclusion
    /\ BackupsInv
    /\ \A p \in Procs : StageInv(p)

-----------------------------------------------------------------------------
(* Planning *)

\* The stages of the command name a path once, so its plans do.
LEMMA PlanDistinct ==
    ASSUME TypeInv, NEW p \in Procs, pc[p] \notin Ended
    PROVE  LET ops == PlanOf(CurrentStage(p))
           IN  /\ \A i, j \in DOMAIN ops : ops[i].path = ops[j].path => i = j
               /\ \A i \in DOMAIN ops : ops[i].keep <= MaxBackups
  <1> DEFINE ts == CurrentStage(p).targets
             ops == PlanOf(CurrentStage(p))
  <1>1. stage[p] \in DOMAIN Invocation[p]
    BY InvocationAssumption, LocalFacts DEF PlaceOK
  <1>2. \A i, j \in DOMAIN ts : ts[i].path = ts[j].path => i = j
    BY <1>1, InvocationAssumption DEF CurrentStage
  <1>3. ops = [i \in DOMAIN ts |-> PlanOp(ts[i])]
    BY DEF PlanOf
  <1>4. \A i \in DOMAIN ts :
          ops[i].path = ts[i].path /\ ops[i].keep \in {0, MaxBackups}
    BY <1>3 DEF PlanOp
  <1>5. DOMAIN ops = DOMAIN ts
    BY <1>3
  <1>6. QED
    BY <1>2, <1>4, <1>5, BoundsAssumption

-----------------------------------------------------------------------------
(* A step of one invocation and the stage of another *)

\* Outside the lock a step changes no backup, and when it changes a file the
\* stage of the lock's holder counts as raced.
LEMMA OutsideStep ==
    ASSUME IInv, NEW p \in Procs, pc[p] \notin Holding, holder # NoProc,
           Start(p) \/ Progress(p) \/ Failure(p)
    PROVE  /\ UNCHANGED <<backups, atLock>>
           /\ raced' \/ UNCHANGED <<file, raced>>
  <1> USE DEF diskVars, histVars, lockHist
  <1>1. CASE Start(p)
    BY <1>1 DEF Start
  <1>2. CASE Progress(p)
    <2>1. ~AcquireApplyLock(p)
      BY DEF AcquireApplyLock, FlockFree
    <2>2. PlanStage(p) \/ LockTimeout(p) \/ RefreshShellEnv(p) \/ SyncPlugins(p)
      BY <1>2, <2>1
      DEF Progress, Holding, SkipNoop, WriteEqual, ReadExisting, PruneBackups,
          WriteBackupTemp, RenameBackup, RenameTarget, ApplyDone, UndoSkip,
          UndoTruncate, UndoRestore, UndoRemove, ApplyFailed, Working, Undoing
    <2>3. QED
      BY <2>2 DEF PlanStage, LockTimeout, RefreshShellEnv, SyncPlugins
  <1>3. CASE Failure(p)
    <2>1. PlanFails(p) \/ LockFails(p) \/ StageFails(p) \/ Crash(p)
      BY <1>3 DEF Failure, Holding, WriteFails, UndoFails, Working, Undoing
    <2>2. QED
      BY <2>1 DEF PlanFails, LockFails, StageFails, Crash
  <1>4. QED
    BY <1>1, <1>2, <1>3

\* An invocation outside the lock has nothing to undo.
LEMMA OutsideStage ==
    ASSUME TypeInv', NEW q \in Procs, pc'[q] \notin Holding,
           PlanInv(q)', LocalsInv(q)'
    PROVE  StageInv(q)'
  <1>1. results'[q] = << >>
    BY DEF TypeInv, PlaceOK
  <1>2. bak'[q] = 0
    BY DEF LocalsInv, Holding
  <1>3. BackupInv(q)'
    BY <1>1, <1>2 DEF BackupInv
  <1>4. SeenInv(q)' /\ TargetsInv(q)'
    BY DEF SeenInv, TargetsInv, Holding
  <1>5. QED
    BY <1>3, <1>4 DEF StageInv

\* While one invocation acts, the stage of another one stays recoverable:
\* either the other one is outside the lock, or the actor is.
LEMMA OtherStage ==
    ASSUME IInv, TypeInv', NEW p \in Procs, NEW q \in Procs \ {p},
           Start(p) \/ Progress(p) \/ Failure(p)
    PROVE  StageInv(q)'
  <1>1. Kept(q)
    BY OthersKept DEF IInv, TypeInv
  <1>2. PlanInv(q)' /\ LocalsInv(q)'
    BY <1>1 DEF IInv, StageInv, PlanInv, LocalsInv, Kept
  <1>3. CASE pc[q] \notin Holding
    BY <1>1, <1>2, <1>3, OutsideStage DEF Kept
  <1>4. CASE pc[q] \in Holding
    <2>1. holder = q /\ holder # NoProc /\ pc[p] \notin Holding
      BY <1>4, NoProcAssumption DEF IInv, LockExclusion
    <2>2. /\ UNCHANGED <<backups, atLock>>
          /\ raced' \/ UNCHANGED <<file, raced>>
      BY <2>1, OutsideStep
    <2>3. BackupInv(q)'
      BY <1>1, <2>2
      DEF IInv, StageInv, BackupInv, HasBackup, CurrentOp, Kept
    <2>4. SeenInv(q)'
      BY <1>1, <2>2 DEF IInv, StageInv, SeenInv, CurrentOp, Kept
    <2>5. TargetsInv(q)'
      BY <1>1, <2>2
      DEF IInv, StageInv, TargetsInv, ToUndo, Undone, Unbacked, Kept
    <2>6. QED
      BY <1>2, <2>3, <2>4, <2>5 DEF StageInv
  <1>5. QED
    BY <1>3, <1>4

-----------------------------------------------------------------------------
(* Backups *)

\* A new backup is younger than all others, and nothing else adds one.
LEMMA BackupsStep ==
    ASSUME IInv, NEW p \in Procs, Start(p) \/ Progress(p) \/ Failure(p)
    PROVE  BackupsInv'
  <1> USE DEF diskVars
  <1>1. ASSUME \A f \in Paths : backups'[f] \subseteq backups[f],
               UNCHANGED clock
        PROVE  BackupsInv'
    BY <1>1 DEF IInv, BackupsInv
  <1>2. CASE UNCHANGED <<backups, clock>>
    BY <1>1, <1>2
  <1>3. CASE PruneBackups(p)
    BY <1>1, <1>3 DEF PruneBackups, Newest, IInv, TypeInv, TypeOK
  <1>4. CASE WriteFails(p)
    BY <1>1, <1>4 DEF WriteFails, IInv, TypeInv, TypeOK
  <1>5. CASE RenameBackup(p)
    <2> DEFINE g == CurrentOp(p).path
               b0 == [at |-> clock, doc |-> seen[p]]
    <2>1. /\ backups \in [Paths -> SUBSET Backup]
          /\ clock \in Nat
          /\ clock' = clock + 1
          /\ backups' = [backups EXCEPT ![g] = @ \cup {b0}]
      BY <1>5 DEF RenameBackup, BackupContent, IInv, TypeInv, TypeOK
    <2>2. ASSUME NEW f \in Paths
          PROVE  backups'[f] \subseteq backups[f] \cup {b0}
      BY <2>1
    <2>3. \A f \in Paths : \A b \in backups[f] : b.at \in Nat /\ b.at < clock
      BY <2>1 DEF IInv, BackupsInv, Backup
    <2>4. b0.at = clock
      OBVIOUS
    <2> HIDE DEF g, b0
    <2>5. ASSUME NEW f \in Paths, NEW b \in backups'[f]
          PROVE  b.at < clock'
      BY <2>1, <2>2, <2>3, <2>4
    <2>6. ASSUME NEW f \in Paths, NEW b \in backups'[f], NEW c \in backups'[f],
                 b.at = c.at
          PROVE  b = c
      BY <2>1, <2>2, <2>3, <2>4, <2>6 DEF IInv, BackupsInv
    <2>7. QED
      BY <2>5, <2>6 DEF BackupsInv
  <1>6. QED
    BY <1>2, <1>3, <1>4, <1>5
    DEF Start, Progress, Failure, PlanStage, PlanFails, AcquireApplyLock,
        LockTimeout, LockFails, SkipNoop, WriteEqual, ReadExisting,
        WriteBackupTemp, RenameTarget, ApplyDone, UndoSkip, UndoTruncate,
        UndoRestore, UndoRemove, UndoFails, ApplyFailed, RefreshShellEnv,
        SyncPlugins, StageFails, Crash

-----------------------------------------------------------------------------
(* A step of an invocation and its own stage *)

\* Outside the lock, and when render.Apply returns.
LEMMA OwnOutside ==
    ASSUME IInv, TypeInv', NEW p \in Procs,
           \/ Start(p) \/ PlanStage(p) \/ PlanFails(p) \/ LockTimeout(p)
           \/ LockFails(p) \/ ApplyDone(p) \/ ApplyFailed(p)
           \/ RefreshShellEnv(p) \/ SyncPlugins(p) \/ StageFails(p) \/ Crash(p)
    PROVE  StageInv(p)'
  <1> USE DEF Goto, callVars
  <1>1. TypeOK /\ TypeOK' /\ PlanInv(p) /\ LocalsInv(p)
    BY DEF IInv, TypeInv, StageInv
  <1>2. ASSUME NEW l \in Labels \ Holding, Return(p, l)
        PROVE  StageInv(p)'
    <2>1. pc'[p] = l /\ plan'[p] = << >> /\ bak'[p] = 0 /\ rbErr'[p] = FALSE
      BY <1>1, <1>2 DEF TypeOK, Return
    <2>2. PlanInv(p)' /\ LocalsInv(p)'
      BY <2>1 DEF PlanInv, LocalsInv
    <2>3. QED
      BY <2>1, <2>2, OutsideStage
  <1>3. CASE \/ PlanFails(p) \/ LockTimeout(p) \/ LockFails(p)
             \/ ApplyDone(p) \/ ApplyFailed(p) \/ Crash(p)
    <2>1. PICK l \in {"failed", "env", "crashed"} : Return(p, l)
      BY <1>3
      DEF PlanFails, LockTimeout, LockFails, ApplyDone, ApplyFailed, Crash
    <2>2. l \in Labels \ Holding
      BY DEF Labels, Ended, Holding
    <2>3. QED
      BY <1>2, <2>1, <2>2
  <1>4. ASSUME pc'[p] \notin Holding, pc[p] \notin Holding,
               UNCHANGED <<plan, bak, rbErr>>
        PROVE  StageInv(p)'
    <2>1. bak[p] = 0 /\ ~rbErr[p]
      BY <1>1, <1>4 DEF LocalsInv, Holding, Undo
    <2>2. PlanInv(p)' /\ LocalsInv(p)'
      BY <1>1, <1>4, <2>1 DEF PlanInv, LocalsInv
    <2>3. QED
      BY <1>4, <2>2, OutsideStage
  <1>5. CASE Start(p) \/ StageFails(p) \/ RefreshShellEnv(p) \/ SyncPlugins(p)
    <2>1. pc'[p] \notin Holding /\ pc[p] \notin Holding
      <3>1. CASE Start(p) \/ StageFails(p)
        BY <1>1, <3>1 DEF Start, StageFails, TypeOK, Ended, Holding
      <3>2. CASE RefreshShellEnv(p) \/ SyncPlugins(p)
        <4>1. pc[p] \in {"env", "sync"}
          BY <3>2 DEF RefreshShellEnv, SyncPlugins
        <4>2. AfterStage(p) \/ pc' = [pc EXCEPT ![p] = "sync"]
          BY <3>2 DEF RefreshShellEnv, SyncPlugins
        <4>3. pc'[p] \in {"plan", "done", "sync"}
          BY <1>1, <4>1, <4>2, AfterStageFacts DEF TypeOK, Ended, IInv
        <4>4. QED
          BY <4>1, <4>3 DEF Holding
      <3>3. QED
        BY <1>5, <3>1, <3>2
    <2>2. UNCHANGED <<plan, bak, rbErr>>
      BY <1>5 DEF Start, StageFails, RefreshShellEnv, SyncPlugins
    <2>3. QED
      BY <1>4, <2>1, <2>2
  <1>6. CASE PlanStage(p)
    <2>1. /\ pc'[p] = "lock"
          /\ plan'[p] = PlanOf(CurrentStage(p))
          /\ bak'[p] = bak[p]
          /\ rbErr'[p] = rbErr[p]
          /\ pc[p] = "plan"
      BY <1>1, <1>6 DEF PlanStage, TypeOK
    <2>2. PlanInv(p)'
      BY <2>1, PlanDistinct DEF PlanInv, IInv, Ended
    <2>3. LocalsInv(p)'
      BY <1>1, <2>1 DEF LocalsInv, Undo
    <2>4. QED
      BY <2>1, <2>2, <2>3, OutsideStage DEF Holding
  <1>7. QED
    BY <1>3, <1>5, <1>6

\* Inside the lock: what is known of the operation under the loop index.
LEMMA InsideFacts ==
    ASSUME IInv, NEW p \in Procs, pc[p] \in Holding
    PROVE  /\ TypeOK /\ PlaceOK(p) /\ StageInv(p)
           /\ \A i, j \in DOMAIN plan[p] :
                plan[p][i].path = plan[p][j].path => i = j
           /\ \A i \in DOMAIN plan[p] : plan[p][i].path \in Paths
           /\ DOMAIN results[p] \subseteq DOMAIN plan[p]
           /\ DOMAIN plan[p] = 1 .. Len(plan[p])
           /\ DOMAIN results[p] = 1 .. Len(results[p])
  <1>1. TypeInv /\ TypeOK /\ PlaceOK(p) /\ StageInv(p)
    BY DEF IInv, TypeInv
  <1>2. plan[p] \in Seq(Op) /\ results[p] \in Seq(Result)
    BY <1>1 DEF TypeOK
  <1>3. Len(results[p]) <= Len(plan[p])
    BY <1>1, <1>2, LocalFacts DEF PlaceOK, Holding, Writing, Undo
  <1>4. \A i \in DOMAIN plan[p] : plan[p][i].path \in Paths
    <2>1. \A i \in DOMAIN plan[p] : plan[p][i] \in Op
      BY <1>2
    <2>2. QED
      BY <2>1 DEF Op
  <1>5. QED
    BY <1>1, <1>2, <1>3, <1>4 DEF StageInv, PlanInv

\* Taking the lock: nothing is written yet.
LEMMA OwnAcquire ==
    ASSUME IInv, TypeInv', NEW p \in Procs, AcquireApplyLock(p)
    PROVE  StageInv(p)'
  <1>1. TypeOK /\ PlaceOK(p) /\ StageInv(p)
    BY DEF IInv, TypeInv
  <1>2. /\ pc[p] = "lock" /\ pc'[p] = "write"
        /\ UNCHANGED <<plan, results, bak, rbErr>>
        /\ file' = file /\ atLock' = file
        /\ results[p] = << >>
    BY <1>1
    DEF AcquireApplyLock, TypeOK, PlaceOK, Goto, diskVars, Holding
  <1>3. bak[p] = 0 /\ ~rbErr[p]
    BY <1>1, <1>2 DEF StageInv, LocalsInv, Undo
  <1>4. PlanInv(p)' /\ LocalsInv(p)'
    BY <1>1, <1>2, <1>3 DEF StageInv, PlanInv, LocalsInv
  <1>5. BackupInv(p)'
    BY <1>2, <1>3 DEF BackupInv
  <1>6. SeenInv(p)' /\ TargetsInv(p)'
    BY <1>2 DEF SeenInv, TargetsInv, Undone
  <1>7. QED
    BY <1>4, <1>5, <1>6 DEF StageInv

\* WriteAtomic has not returned yet and has not touched the target.
LEMMA OwnRead ==
    ASSUME IInv, TypeInv', NEW p \in Procs,
           \/ ReadExisting(p) \/ PruneBackups(p)
           \/ WriteBackupTemp(p) \/ RenameBackup(p)
    PROVE  StageInv(p)'
  <1> DEFINE g == CurrentOp(p).path
  <1>1. /\ pc[p] \in Writing \ {"rename"}
        /\ pc'[p] \in Writing \ {"write"}
        /\ UNCHANGED <<file, plan, idx, results, rbErr, atLock, raced>>
    BY DEF ReadExisting, PruneBackups, WriteBackupTemp, RenameBackup, Working,
           Goto, IInv, TypeInv, TypeOK, Writing, callVars, histVars, lockHist,
           diskVars
  <1>2. pc[p] \in Holding /\ pc'[p] \in Holding
    BY <1>1 DEF Writing, Holding
  <1>3. /\ TypeOK /\ PlaceOK(p) /\ StageInv(p)
        /\ \A i, j \in DOMAIN plan[p] :
             plan[p][i].path = plan[p][j].path => i = j
        /\ \A i \in DOMAIN plan[p] : plan[p][i].path \in Paths
        /\ DOMAIN results[p] \subseteq DOMAIN plan[p]
        /\ DOMAIN results[p] = 1 .. Len(results[p])
    BY <1>2, InsideFacts
  <1>4. /\ bak[p] = 0
        /\ ~rbErr[p]
        /\ idx[p] \in DOMAIN plan[p]
        /\ idx[p] \notin DOMAIN results[p]
        /\ g = plan[p][idx[p]].path
    <2>1. idx[p] \in 1 .. Len(plan[p])
      BY PlanFacts DEF ReadExisting, PruneBackups, WriteBackupTemp,
                       RenameBackup, IInv, Writing
    <2>2. idx[p] \notin DOMAIN results[p]
      BY <1>1, <1>3, LocalFacts DEF PlaceOK, IInv
    <2>3. QED
      BY <1>1, <1>3, <2>1, <2>2
      DEF StageInv, LocalsInv, Writing, Undo, TypeOK, CurrentOp
  <1>5. PlanInv(p)'
    BY <1>1, <1>3 DEF StageInv, PlanInv
  <1>6. LocalsInv(p)'
    <2>1. bak'[p] # 0 => pc'[p] = "rename"
      BY <1>3, <1>4
      DEF ReadExisting, PruneBackups, WriteBackupTemp, RenameBackup, Goto,
          TypeOK, callVars
    <2>2. QED
      BY <1>1, <1>4, <2>1 DEF LocalsInv
  <1>7. TargetsInv(p)'
    BY <1>1, <1>2, <1>3
    DEF StageInv, TargetsInv, ToUndo, Undone, Unbacked, Writing, Undo
  <1>8. raced \/ file[g] = atLock[g]
    BY <1>2, <1>3, <1>4 DEF StageInv, TargetsInv, ToUndo, Undone, Unbacked
  <1>9. SeenInv(p)'
    <2>1. CASE ReadExisting(p)
      <3>1. seen'[p] = file[g]
        BY <1>3, <2>1 DEF ReadExisting, TypeOK
      <3>2. QED
        BY <1>1, <1>8, <3>1 DEF SeenInv, CurrentOp
    <2>2. CASE PruneBackups(p) \/ WriteBackupTemp(p) \/ RenameBackup(p)
      BY <1>1, <1>3, <2>2
      DEF PruneBackups, WriteBackupTemp, RenameBackup, StageInv, SeenInv,
          CurrentOp, callVars
    <2>3. QED
      BY <2>1, <2>2
  <1>10. ASSUME NEW i \in DOMAIN results[p]
         PROVE  backups[plan[p][i].path] \subseteq backups'[plan[p][i].path]
    <2>1. plan[p][i].path \in Paths /\ plan[p][i].path # g
      BY <1>3, <1>4
    <2>2. backups'[plan[p][i].path] = backups[plan[p][i].path]
      BY <1>3, <2>1
      DEF ReadExisting, PruneBackups, WriteBackupTemp, RenameBackup, TypeOK
    <2>3. QED
      BY <2>2
  <1>11. bak'[p] # 0 =>
           \E b \in backups'[g] : b.at = bak'[p] /\ (raced \/ b.doc = atLock[g])
    <2>1. CASE RenameBackup(p)
      <3>1. seen[p] = atLock[g] \/ raced
        BY <1>3, <2>1 DEF StageInv, SeenInv, RenameBackup
      <3>2. /\ [at |-> clock, doc |-> seen[p]] \in backups'[g]
            /\ bak'[p] = clock
        BY <1>3, <1>4, <2>1 DEF RenameBackup, BackupContent, TypeOK
      <3>3. QED
        BY <3>1, <3>2
    <2>2. CASE ReadExisting(p) \/ PruneBackups(p) \/ WriteBackupTemp(p)
      BY <1>4, <2>2 DEF ReadExisting, PruneBackups, WriteBackupTemp, callVars
    <2>3. QED
      BY <2>1, <2>2
  <1>12. BackupInv(p)'
    <2>1. ASSUME NEW i \in DOMAIN results[p], HasBackup(p, i)
          PROVE  HasBackup(p, i)'
      BY <1>1, <1>10, <2>1 DEF HasBackup
    <2>2. g' = g
      BY <1>1 DEF CurrentOp
    <2>3. QED
      BY <1>1, <1>3, <1>11, <2>1, <2>2 DEF StageInv, BackupInv
  <1>13. QED
    BY <1>5, <1>6, <1>7, <1>9, <1>12 DEF StageInv

\* WriteAtomic returns and Apply records r: earlier targets and their
\* backups are untouched, the target itself is untouched unless r says that
\* it is written, and a backup that r names is there.
LEMMA OwnRecord ==
    ASSUME IInv, TypeInv', NEW p \in Procs, NEW r \in Result,
           pc[p] \in Writing,
           pc'[p] \in {"write", "rollback"},
           idx[p] \in DOMAIN plan[p],
           pc'[p] = "rollback" => ~r.wrote /\ idx'[p] = idx[p] - 1,
           UNCHANGED <<plan, atLock, raced, rbErr>>,
           results' = [results EXCEPT ![p] = Append(@, r)],
           bak' = [bak EXCEPT ![p] = 0],
           \A j \in DOMAIN plan[p] :
              j # idx[p] =>
                /\ file'[plan[p][j].path] = file[plan[p][j].path]
                /\ backups'[plan[p][j].path] = backups[plan[p][j].path],
           ~r.wrote =>
              file'[CurrentOp(p).path] = file[CurrentOp(p).path],
           r.wrote /\ r.bak # 0 =>
              \E b \in backups'[CurrentOp(p).path] :
                 b.at = r.bak /\ (raced \/ b.doc = atLock[CurrentOp(p).path])
    PROVE  StageInv(p)'
  <1>1. pc[p] \in Holding /\ pc'[p] \in Holding
    BY DEF Writing, Holding
  <1>2. /\ TypeOK /\ PlaceOK(p) /\ StageInv(p)
        /\ DOMAIN results[p] \subseteq DOMAIN plan[p]
        /\ DOMAIN plan[p] = 1 .. Len(plan[p])
        /\ DOMAIN results[p] = 1 .. Len(results[p])
    BY <1>1, InsideFacts
  <1>3. /\ idx[p] = Len(results[p]) + 1
        /\ Len(results[p]) \in Nat
        /\ results[p] \in Seq(Result)
        /\ ~rbErr[p]
    BY <1>2, LocalFacts
    DEF PlaceOK, IInv, TypeOK, StageInv, LocalsInv, Writing, Undo
  <1>4. /\ results'[p] = Append(results[p], r)
        /\ bak'[p] = 0
    BY <1>2 DEF TypeOK
  <1>5. /\ DOMAIN results'[p] = DOMAIN results[p] \cup {idx[p]}
        /\ idx[p] \notin DOMAIN results[p]
        /\ \A i \in DOMAIN results[p] : results'[p][i] = results[p][i]
        /\ results'[p][idx[p]] = r
    BY <1>2, <1>3, <1>4
  <1>6. PlanInv(p)' /\ LocalsInv(p)'
    BY <1>2, <1>3, <1>4 DEF StageInv, PlanInv, LocalsInv
  <1>7. SeenInv(p)'
    BY DEF SeenInv
  <1>8. BackupInv(p)'
    <2>1. ASSUME NEW i \in DOMAIN results[p], HasBackup(p, i)
          PROVE  HasBackup(p, i)'
      BY <1>2, <1>5, <2>1 DEF HasBackup
    <2>2. ASSUME NEW i, i = idx[p], r.wrote, r.bak # 0
          PROVE  HasBackup(p, i)'
      BY <1>5, <2>2 DEF HasBackup, CurrentOp
    <2>3. ASSUME NEW i \in DOMAIN results'[p],
                 results'[p][i].wrote, results'[p][i].bak # 0
          PROVE  HasBackup(p, i)'
      <3>1. CASE i = idx[p]
        BY <1>5, <2>2, <2>3, <3>1
      <3>2. CASE i \in DOMAIN results[p]
        BY <1>2, <1>5, <2>1, <2>3, <3>2 DEF StageInv, BackupInv
      <3>3. QED
        BY <1>5, <3>1, <3>2
    <2>4. QED
      BY <1>4, <2>3 DEF BackupInv
  <1>9. TargetsInv(p)'
    <2>1. ASSUME ~raced, NEW j \in DOMAIN plan[p]
          PROVE  (ToUndo(p, j) \/ Undone(p, j))'
      <3>1. ToUndo(p, j) \/ Undone(p, j)
        BY <1>1, <1>2, <2>1 DEF StageInv, TargetsInv
      <3>2. CASE j = idx[p]
        <4>1. file[plan[p][j].path] = atLock[plan[p][j].path]
          BY <1>3, <1>5, <3>1, <3>2 DEF ToUndo, Undone, Unbacked
        <4>2. CASE ~r.wrote
          BY <3>2, <4>1, <4>2 DEF Undone, CurrentOp
        <4>3. CASE r.wrote /\ pc'[p] = "write"
          BY <1>5, <3>2, <4>3 DEF ToUndo, Undo
        <4>4. CASE r.wrote /\ pc'[p] = "rollback"
          BY <4>4
        <4>5. QED
          BY <4>2, <4>3, <4>4
      <3>3. CASE j # idx[p] /\ ToUndo(p, j)
        <4>1. j \in DOMAIN results'[p] /\ results'[p][j].wrote
          BY <1>5, <3>3 DEF ToUndo
        <4>2. j <= Len(results[p])
          BY <1>2, <3>3 DEF ToUndo
        <4>3. pc'[p] \in Undo => j <= idx'[p]
          BY <1>3, <4>2 DEF Undo
        <4>4. QED
          BY <4>1, <4>3 DEF ToUndo
      <3>4. CASE j # idx[p] /\ Undone(p, j)
        BY <1>3, <1>5, <3>4 DEF Undone, Unbacked
      <3>5. QED
        BY <3>1, <3>2, <3>3, <3>4
    <2>2. QED
      BY <2>1 DEF TargetsInv
  <1>10. QED
    BY <1>6, <1>7, <1>8, <1>9 DEF StageInv

\* WriteAtomic returns, with success or with an error.
LEMMA OwnWrite ==
    ASSUME IInv, TypeInv', NEW p \in Procs,
           SkipNoop(p) \/ WriteEqual(p) \/ RenameTarget(p) \/ WriteFails(p)
    PROVE  StageInv(p)'
  <1> DEFINE g == CurrentOp(p).path
  <1> USE DEF Goto, Record, NextTarget, histVars, lockHist, diskVars
  <1>1. pc[p] \in Writing
    BY DEF SkipNoop, WriteEqual, RenameTarget, WriteFails, Working, Writing
  <1>2. /\ TypeOK /\ PlaceOK(p) /\ StageInv(p)
        /\ \A i, j \in DOMAIN plan[p] :
             plan[p][i].path = plan[p][j].path => i = j
        /\ \A i \in DOMAIN plan[p] : plan[p][i].path \in Paths
        /\ DOMAIN plan[p] = 1 .. Len(plan[p])
    BY <1>1, InsideFacts DEF Writing, Holding
  <1>3. idx[p] \in DOMAIN plan[p]
    <2>1. Working(p) \/ pc[p] \in Writing \ {"write"}
      BY DEF SkipNoop, WriteEqual, RenameTarget, WriteFails, Working, Writing
    <2>2. QED
      BY <1>2, <2>1, PlanFacts DEF IInv
  <1>4. \A j \in DOMAIN plan[p] :
          j # idx[p] => plan[p][j].path \in Paths /\ plan[p][j].path # g
    BY <1>2, <1>3 DEF CurrentOp
  <1>5. CASE SkipNoop(p)
    <2> DEFINE r == [wrote |-> FALSE, bak |-> 0]
    <2>1. r \in Result /\ ~r.wrote
      BY DEF Result
    <2>2. /\ pc'[p] = "write"
          /\ UNCHANGED <<plan, atLock, raced, rbErr, file, backups>>
          /\ results' = [results EXCEPT ![p] = Append(@, r)]
          /\ bak' = [bak EXCEPT ![p] = 0]
      BY <1>2, <1>5 DEF SkipNoop, TypeOK
    <2>3. QED
      BY <1>1, <1>3, <2>1, <2>2, OwnRecord
  <1>6. CASE WriteEqual(p)
    <2> DEFINE r == [wrote |-> TRUE, bak |-> 0]
    <2>1. r \in Result /\ r.bak = 0 /\ r.wrote
      BY DEF Result
    <2>2. /\ pc'[p] = "write"
          /\ UNCHANGED <<plan, atLock, raced, rbErr, file, backups>>
          /\ results' = [results EXCEPT ![p] = Append(@, r)]
          /\ bak' = [bak EXCEPT ![p] = 0]
      BY <1>2, <1>6 DEF WriteEqual, TypeOK
    <2>3. QED
      BY <1>1, <1>3, <2>1, <2>2, OwnRecord
  <1>7. CASE RenameTarget(p)
    <2> DEFINE r == [wrote |-> TRUE, bak |-> bak[p]]
    <2>1. r \in Result /\ r.bak = bak[p] /\ r.wrote
      BY <1>2 DEF Result, TypeOK
    <2>2. /\ pc'[p] = "write"
          /\ UNCHANGED <<plan, atLock, raced, rbErr, backups>>
          /\ results' = [results EXCEPT ![p] = Append(@, r)]
          /\ bak' = [bak EXCEPT ![p] = 0]
          /\ \A f \in Paths : f # g => file'[f] = file[f]
      BY <1>2, <1>7 DEF RenameTarget, TypeOK
    <2>3. r.bak # 0 => \E b \in backups'[g] :
                          b.at = r.bak /\ (raced \/ b.doc = atLock[g])
      BY <1>2, <2>1, <2>2 DEF StageInv, BackupInv
    <2>4. QED
      BY <1>1, <1>3, <1>4, <2>1, <2>2, <2>3, OwnRecord
  <1>8. CASE WriteFails(p)
    <2> DEFINE r == [wrote |-> FALSE, bak |-> bak[p]]
    <2>1. r \in Result /\ ~r.wrote
      BY <1>2 DEF Result, TypeOK
    <2>2. /\ pc'[p] = "rollback"
          /\ UNCHANGED <<plan, atLock, raced, rbErr, file>>
          /\ results' = [results EXCEPT ![p] = Append(@, r)]
          /\ bak' = [bak EXCEPT ![p] = 0]
          /\ idx'[p] = idx[p] - 1
      BY <1>2, <1>8 DEF WriteFails, RollbackFrom, TypeOK
    <2>3. \A f \in Paths : f # g => backups'[f] = backups[f]
      BY <1>2, <1>8 DEF WriteFails, TypeOK
    <2>4. QED
      BY <1>1, <1>3, <1>4, <2>1, <2>2, <2>3, OwnRecord
  <1>9. QED
    BY <1>5, <1>6, <1>7, <1>8

\* Rollback handles one target.
LEMMA OwnUndo ==
    ASSUME IInv, TypeInv', NEW p \in Procs,
           \/ UndoSkip(p) \/ UndoTruncate(p) \/ UndoRestore(p)
           \/ UndoRemove(p) \/ UndoFails(p)
    PROVE  StageInv(p)'
  <1> DEFINE g == CurrentOp(p).path
  <1> USE DEF Goto, Undoing, histVars, lockHist, diskVars
  <1>1. pc[p] \in Undo /\ pc'[p] \in Undo
    BY DEF UndoSkip, UndoTruncate, UndoRestore, UndoRemove, UndoFails, Undo,
           IInv, TypeInv, TypeOK
  <1>2. /\ TypeOK /\ PlaceOK(p) /\ StageInv(p)
        /\ \A i, j \in DOMAIN plan[p] :
             plan[p][i].path = plan[p][j].path => i = j
        /\ \A i \in DOMAIN plan[p] : plan[p][i].path \in Paths
        /\ DOMAIN results[p] \subseteq DOMAIN plan[p]
        /\ DOMAIN plan[p] = 1 .. Len(plan[p])
        /\ DOMAIN results[p] = 1 .. Len(results[p])
    BY <1>1, InsideFacts DEF Undo, Holding
  <1>3. /\ UNCHANGED <<plan, results, backups, bak, atLock, raced>>
        /\ bak[p] = 0
    BY <1>1, <1>2
    DEF UndoSkip, UndoTruncate, UndoRestore, UndoRemove, UndoFails, StageInv,
        LocalsInv, Undo
  <1>4. /\ idx[p] \in DOMAIN results[p]
        /\ idx[p] \in DOMAIN plan[p]
        /\ idx[p] \in Nat
        /\ g = plan[p][idx[p]].path
        /\ g \in Paths
        /\ \A j \in DOMAIN plan[p] :
             j # idx[p] => plan[p][j].path \in Paths /\ plan[p][j].path # g
    <2>1. idx[p] >= 1
      BY <1>2, LocalFacts
      DEF UndoSkip, UndoTruncate, UndoRestore, UndoRemove, UndoFails, PlaceOK,
          IInv
    <2>2. idx[p] \in DOMAIN results[p]
      BY <1>1, <1>2, <2>1, LocalFacts DEF PlaceOK, IInv
    <2>3. QED
      BY <1>2, <2>2, LocalFacts DEF CurrentOp, IInv
  <1>5. PlanInv(p)' /\ LocalsInv(p)'
    BY <1>1, <1>2, <1>3 DEF StageInv, PlanInv, LocalsInv
  <1>6. BackupInv(p)'
    BY <1>2, <1>3 DEF StageInv, BackupInv, HasBackup
  <1>7. raced \/ \A j \in DOMAIN plan[p] : ToUndo(p, j) \/ Undone(p, j)
    BY <1>1, <1>2 DEF StageInv, TargetsInv, Undo, Holding
  <1>8. CASE UndoSkip(p)
    <2>1. /\ UNCHANGED <<file, pc, rbErr, seen>>
          /\ idx'[p] = idx[p] - 1
          /\ ~results[p][idx[p]].wrote
          /\ pc[p] = "rollback"
      BY <1>2, <1>8 DEF UndoSkip, TypeOK
    <2>2. TargetsInv(p)'
      <3>1. ASSUME NEW j \in DOMAIN plan[p], Undone(p, j)
            PROVE  Undone(p, j)'
        BY <1>3, <2>1, <3>1 DEF Undone, Unbacked
      <3>2. ASSUME NEW j \in DOMAIN plan[p], ToUndo(p, j)
            PROVE  ToUndo(p, j)'
        <4>1. j # idx[p] /\ j <= idx[p] /\ j \in Nat
          BY <1>1, <1>2, <2>1, <3>2 DEF ToUndo
        <4>2. j <= idx'[p]
          BY <1>4, <2>1, <4>1
        <4>3. QED
          BY <1>3, <3>2, <4>2 DEF ToUndo
      <3>3. QED
        BY <1>3, <1>7, <3>1, <3>2 DEF TargetsInv
    <2>3. SeenInv(p)'
      BY <2>1 DEF SeenInv
    <2>4. QED
      BY <1>5, <1>6, <2>2, <2>3 DEF StageInv
  <1>9. CASE UndoTruncate(p)
    <2>1. /\ UNCHANGED <<idx, rbErr>>
          /\ pc[p] = "rollback"
          /\ pc'[p] = "restore"
          /\ results[p][idx[p]].wrote
          /\ \A f \in Paths : f # g => file'[f] = file[f]
      BY <1>2, <1>9 DEF UndoTruncate, TypeOK
    <2>2. PICK b \in backups[g] :
            /\ b.at = results[p][idx[p]].bak
            /\ seen' = [seen EXCEPT ![p] = b.doc]
      BY <1>9 DEF UndoTruncate, BackupOf
    <2>3. b.at # 0
      BY <1>2, <1>4 DEF TypeOK, Backup
    <2>4. PICK c \in backups[g] :
            c.at = results[p][idx[p]].bak /\ (raced \/ c.doc = atLock[g])
      BY <1>2, <1>4, <2>1, <2>2, <2>3 DEF StageInv, BackupInv, HasBackup
    <2>5. b = c
      BY <1>4, <2>2, <2>4 DEF IInv, BackupsInv
    <2>6. seen'[p] = b.doc
      BY <1>2, <2>2 DEF TypeOK
    <2>7. g' = g
      BY <1>3, <2>1 DEF CurrentOp
    <2>8. SeenInv(p)'
      BY <1>3, <2>4, <2>5, <2>6, <2>7 DEF SeenInv
    <2>9. TargetsInv(p)'
      BY <1>1, <1>2, <1>3, <1>4, <1>7, <2>1
      DEF TargetsInv, ToUndo, Undone, Unbacked
    <2>10. QED
      BY <1>5, <1>6, <2>8, <2>9 DEF StageInv
  <1>10. CASE UndoRestore(p)
    <2>1. /\ UNCHANGED rbErr
          /\ pc[p] = "restore"
          /\ pc'[p] = "rollback"
          /\ idx'[p] = idx[p] - 1
          /\ file'[g] = seen[p]
          /\ \A f \in Paths : f # g => file'[f] = file[f]
      BY <1>2, <1>4, <1>10 DEF UndoRestore, TypeOK
    <2>2. raced \/ seen[p] = atLock[g]
      BY <1>2, <2>1 DEF StageInv, SeenInv
    <2>3. TargetsInv(p)'
      <3>1. ASSUME ~raced, NEW j \in DOMAIN plan[p]
            PROVE  (ToUndo(p, j) \/ Undone(p, j))'
        <4>1. CASE j = idx[p]
          BY <1>3, <1>4, <2>1, <2>2, <3>1, <4>1 DEF Undone, Unbacked
        <4>2. CASE j # idx[p] /\ ToUndo(p, j)
          <5>1. j <= idx[p] - 1
            BY <1>1, <1>2, <1>4, <4>2 DEF ToUndo
          <5>2. QED
            BY <1>3, <2>1, <4>2, <5>1 DEF ToUndo
        <4>3. CASE j # idx[p] /\ Undone(p, j)
          BY <1>3, <1>4, <2>1, <4>3 DEF Undone, Unbacked
        <4>4. QED
          BY <1>7, <3>1, <4>1, <4>2, <4>3
      <3>2. QED
        BY <1>3, <3>1 DEF TargetsInv
    <2>4. SeenInv(p)'
      BY <2>1 DEF SeenInv
    <2>5. QED
      BY <1>5, <1>6, <2>3, <2>4 DEF StageInv
  <1>11. CASE UndoRemove(p)
    <2>1. /\ UNCHANGED <<rbErr, pc>>
          /\ pc[p] = "rollback"
          /\ idx'[p] = idx[p] - 1
          /\ results[p][idx[p]].wrote
          /\ results[p][idx[p]].bak = 0
          /\ file'[g] = Absent
          /\ \A f \in Paths : f # g => file'[f] = file[f]
      BY <1>2, <1>4, <1>11 DEF UndoRemove, BackupOf, TypeOK
    <2>2. TargetsInv(p)'
      <3>1. ASSUME ~raced, NEW j \in DOMAIN plan[p]
            PROVE  (ToUndo(p, j) \/ Undone(p, j))'
        <4>1. CASE j = idx[p]
          BY <1>3, <1>4, <2>1, <3>1, <4>1 DEF Undone, Unbacked
        <4>2. CASE j # idx[p] /\ ToUndo(p, j)
          <5>1. j <= idx[p] - 1
            BY <1>1, <1>2, <1>4, <4>2 DEF ToUndo
          <5>2. QED
            BY <1>3, <2>1, <4>2, <5>1 DEF ToUndo
        <4>3. CASE j # idx[p] /\ Undone(p, j)
          BY <1>3, <1>4, <2>1, <4>3 DEF Undone, Unbacked
        <4>4. QED
          BY <1>7, <3>1, <4>1, <4>2, <4>3
      <3>2. QED
        BY <1>3, <3>1 DEF TargetsInv
    <2>3. SeenInv(p)'
      BY <2>1 DEF SeenInv
    <2>4. QED
      BY <1>5, <1>6, <2>2, <2>3 DEF StageInv
  <1>12. CASE UndoFails(p)
    <2>1. rbErr'[p] /\ pc'[p] = "rollback"
      BY <1>2, <1>12 DEF UndoFails, TypeOK
    <2>2. TargetsInv(p)' /\ SeenInv(p)'
      BY <2>1 DEF TargetsInv, Undone, SeenInv
    <2>3. QED
      BY <1>5, <1>6, <2>2 DEF StageInv
  <1>13. QED
    BY <1>8, <1>9, <1>10, <1>11, <1>12

-----------------------------------------------------------------------------
(* The theorems *)

\* Initially no stage has written anything.
LEMMA IInvInit == Init => IInv
  <1> SUFFICES ASSUME Init
               PROVE  IInv
    OBVIOUS
  <1>1. TypeInv /\ LockExclusion
    BY TypeInit, NoProcAssumption DEF Init, LockExclusion, Holding
  <1>2. BackupsInv
    BY DEF Init, BackupsInv
  <1>3. \A p \in Procs : StageInv(p)
    BY DEF Init, StageInv, PlanInv, LocalsInv, BackupInv, SeenInv, TargetsInv,
           Holding
  <1>4. QED
    BY <1>1, <1>2, <1>3 DEF IInv

\* The invariant is inductive.
LEMMA IInvNext == IInv /\ [Next]_vars => IInv'
  <1> SUFFICES ASSUME IInv, [Next]_vars
               PROVE  IInv'
    OBVIOUS
  <1>1. TypeInv' /\ LockExclusion'
    BY TypeNext, LockNext DEF IInv
  <1>2. ASSUME NEW p \in Procs, Start(p) \/ Progress(p) \/ Failure(p)
        PROVE  IInv'
    <2>1. BackupsInv'
      BY <1>2, BackupsStep
    <2>2. \A q \in Procs \ {p} : StageInv(q)'
      BY <1>1, <1>2, OtherStage
    <2>3. StageInv(p)'
      BY <1>1, <1>2, OwnOutside, OwnAcquire, OwnRead, OwnWrite, OwnUndo
      DEF Progress, Failure
    <2>4. QED
      BY <1>1, <2>1, <2>2, <2>3 DEF IInv
  <1>3. CASE Edit
    <2>1. /\ UNCHANGED <<backups, clock, pc, plan, idx, results, seen, bak,
                         rbErr, atLock, holder>>
          /\ raced' = (raced \/ holder # NoProc)
      BY <1>3 DEF Edit, callVars
    <2>2. BackupsInv'
      BY <2>1 DEF IInv, BackupsInv
    <2>3. ASSUME NEW q \in Procs
          PROVE  StageInv(q)'
      <3>1. /\ PlanInv(q) /\ LocalsInv(q) /\ BackupInv(q) /\ SeenInv(q)
            /\ raced \in BOOLEAN
        BY DEF IInv, StageInv, TypeInv, TypeOK
      <3>2. PlanInv(q)' /\ LocalsInv(q)'
        BY <2>1, <3>1 DEF PlanInv, LocalsInv
      <3>3. BackupInv(q)'
        <4>1. CurrentOp(q)' = CurrentOp(q)
          BY <2>1 DEF CurrentOp
        <4>2. QED
          BY <2>1, <3>1, <4>1 DEF BackupInv, HasBackup
      <3>4. SeenInv(q)'
        BY <2>1, <3>1 DEF SeenInv, CurrentOp
      <3>5. pc[q] \in Holding => raced'
        BY <2>1, NoProcAssumption DEF IInv, LockExclusion
      <3>6. TargetsInv(q)'
        BY <2>1, <3>5 DEF TargetsInv
      <3>7. QED
        BY <3>6, <3>2, <3>3, <3>4 DEF StageInv
    <2>4. QED
      BY <1>1, <2>2, <2>3 DEF IInv
  <1>4. CASE UNCHANGED vars
    <2>1. BackupsInv'
      BY <1>4 DEF vars, diskVars, IInv, BackupsInv
    <2>2. \A q \in Procs : StageInv(q)'
      BY <1>4
      DEF vars, diskVars, callVars, histVars, lockHist, IInv, StageInv,
          PlanInv, LocalsInv, BackupInv, HasBackup, SeenInv, TargetsInv,
          ToUndo, Undone, Unbacked, CurrentOp
    <2>3. QED
      BY <1>1, <2>1, <2>2 DEF IInv
  <1>5. QED
    BY <1>2, <1>3, <1>4 DEF Next

\* As long as an invocation may roll back, the backup of every file it has
\* replaced is on disk, with the content from before the stage unless
\* somebody wrote without the lock (ApplyEngine.RollbackPossible).
THEOREM RollbackIsPossible == Spec => []RollbackPossible
  <1>1. IInv => RollbackPossible
    BY DEF IInv, StageInv, BackupInv, RollbackPossible
  <1>2. QED
    BY IInvInit, IInvNext, <1>1, PTL DEF Spec

\* A stage that fails is all or nothing (ApplyEngine.FailedStageRestored).
THEOREM RollbackRestores == Spec => FailedStageRestored
  <1> DEFINE Restored(p) ==
        /\ pc[p] = "rollback"
        /\ pc'[p] = "failed"
        /\ ~rbErr[p]
        /\ ~raced
        => \A i \in DOMAIN plan[p] :
             LET f == plan[p][i].path
             IN  file[f] = atLock[f] \/ Unbacked(p, i)
  <1>1. ASSUME IInv, [Next]_vars, NEW p \in Procs
        PROVE  Restored(p)
    <2> SUFFICES ASSUME pc[p] = "rollback", pc'[p] = "failed", ~rbErr[p], ~raced,
                        NEW i \in DOMAIN plan[p]
                 PROVE  Undone(p, i)
      BY DEF Undone
    <2>1. idx[p] = 0
      <3>1. pc \in [Procs -> Labels]
        BY <1>1 DEF IInv, TypeInv, TypeOK
      <3>2. ApplyFailed(p)
        <4>1. pc'[p] # pc[p]
          OBVIOUS
        <4>2. PICK q \in Procs : Start(q) \/ Progress(q) \/ Failure(q)
          BY <1>1, <4>1 DEF Next, Edit, vars
        <4>3. q = p
          BY <1>1, <4>1, <4>2, OthersKept DEF Kept, IInv, TypeInv
        <4>4. QED
          BY <3>1, <4>2, <4>3
          DEF Start, Progress, Failure, PlanStage, PlanFails, AcquireApplyLock,
              LockTimeout, LockFails, SkipNoop, WriteEqual, ReadExisting,
              PruneBackups, WriteBackupTemp, RenameBackup, RenameTarget,
              ApplyDone, WriteFails, UndoSkip, UndoTruncate, UndoRestore,
              UndoRemove, UndoFails, RefreshShellEnv, SyncPlugins, StageFails,
              Crash, Working, Undoing, NextTarget, Return, Goto, Ended
      <3>3. QED
        BY <3>2 DEF ApplyFailed
    <2>2. ToUndo(p, i) \/ Undone(p, i)
      BY <1>1 DEF IInv, StageInv, TargetsInv, Holding
    <2>3. ~ToUndo(p, i)
      <3>1. DOMAIN results[p] \subseteq Nat \ {0}
        BY <1>1, InsideFacts, LocalFacts DEF Holding, IInv
      <3>2. QED
        BY <2>1, <3>1 DEF ToUndo, Undo
    <2>4. QED
      BY <2>2, <2>3
  <1>2. IInv /\ [Next]_vars => [\A p \in Procs : Restored(p)]_vars
    BY <1>1
  <1>3. QED
    BY IInvInit, IInvNext, <1>2, PTL DEF Spec, FailedStageRestored

-----------------------------------------------------------------------------
(* Backup rotation: a path never has more than MaxBackups backups, however
   many invocations crash or fail in the middle of pruning them. *)

\* pruneBackups leaves at most `keep` backups: the oldest one that stays
\* has all the others above it, and they are fewer than `keep`.
LEMMA NewestBound ==
    ASSUME NEW S, IsFiniteSet(S),
           \A b \in S : b.at \in Nat,
           \A b, c \in S : b.at = c.at => b = c,
           NEW keep \in Nat
    PROVE  /\ Newest(S, keep) \subseteq S
           /\ Cardinality(Newest(S, keep)) <= keep
  <1> DEFINE N == Newest(S, keep)
  <1>1. N \subseteq S
    BY DEF Newest
  <1>2. IsFiniteSet(N)
    BY <1>1, FS_Subset
  <1>3. CASE N = {}
    BY <1>1, <1>3, FS_EmptySet
  <1>4. CASE N # {}
    <2> DEFINE ages == {b.at : b \in N}
    <2>1. ages \in SUBSET Nat
      BY <1>1
    <2>2. PICK n \in N : TRUE
      BY <1>4
    <2>3. PICK oldest \in ages : \A a \in ages : oldest <= a
      <3> DEFINE R == OpToRel(<, Nat)
      <3>1. ages # {}
        BY <2>2
      <3>2. IsWellFoundedOn(R, Nat)
        BY NatLessThanWellFounded
      <3> HIDE DEF R, ages
      <3>3. \E x \in ages : \A y \in ages : <<y, x>> \notin R
        BY <2>1, <3>1, <3>2, WFMin
      <3>4. PICK x \in ages : \A y \in ages : <<y, x>> \notin R
        BY <3>3
      <3>5. ASSUME NEW y \in ages
            PROVE  x <= y
        <4>1. x \in Nat /\ y \in Nat
          BY <2>1
        <4>2. ~(y < x)
          BY <3>4, <4>1 DEF R, OpToRel
        <4>3. QED
          BY <4>1, <4>2
      <3>6. QED
        BY <3>5
    <2>4. PICK m \in N : m.at = oldest
      BY <2>3
    <2> DEFINE above == {c \in S : c.at > m.at}
    <2>5. Cardinality(above) < keep
      BY DEF Newest
    <2>6. IsFiniteSet(above) /\ Cardinality(above) \in Nat
      BY FS_Subset, FS_CardinalityType
    <2>7. N \ {m} \subseteq above
      <3>1. ASSUME NEW c \in N, c # m
            PROVE  c.at > m.at
        <4>1. c.at # m.at
          BY <1>1, <3>1
        <4>2. m.at <= c.at
          BY <2>3, <2>4
        <4>3. c.at \in Nat /\ m.at \in Nat
          BY <1>1
        <4>4. QED
          BY <4>1, <4>2, <4>3
      <3>2. QED
        BY <1>1, <3>1
    <2>8. Cardinality(N \ {m}) <= Cardinality(above)
      BY <2>6, <2>7, FS_Subset
    <2>9. Cardinality(N \ {m}) = Cardinality(N) - 1 /\ Cardinality(N) \in Nat
      BY <1>2, FS_RemoveElement, FS_CardinalityType
    <2>10. Cardinality(N) <= keep
      BY <2>5, <2>6, <2>8, <2>9
    <2>11. QED
      BY <1>1, <2>10
  <1>5. QED
    BY <1>3, <1>4

-----------------------------------------------------------------------------
(* The inductive invariant *)

\* Between pruning and taking the new backup there is room for it.
RoomInv(p) ==
    /\ pc[p] = "prune" => CurrentOp(p).keep > 0
    /\ pc[p] \in {"backupTemp", "backupRename"} =>
         Cardinality(backups[CurrentOp(p).path]) < MaxBackups

FewBackups ==
    \A f \in Paths : IsFiniteSet(backups[f]) /\ Cardinality(backups[f]) <= MaxBackups

RetentionInv == FewBackups /\ \A p \in Procs : RoomInv(p)

\* The operation WriteAtomic works on keeps at most MaxBackups backups.
LEMMA CurrentKeep ==
    ASSUME IInv, NEW p \in Procs, pc[p] \in Writing \ {"write"}
    PROVE  /\ CurrentOp(p).path \in Paths
           /\ CurrentOp(p).keep \in Nat
           /\ CurrentOp(p).keep <= MaxBackups
  <1>1. idx[p] \in DOMAIN plan[p]
    BY PlanFacts, InsideFacts DEF IInv, Writing, Holding
  <1>2. QED
    BY <1>1, PlanFacts DEF IInv, StageInv, PlanInv, CurrentOp

\* Pruning leaves less than MaxBackups backups.
LEMMA PruneBound ==
    ASSUME IInv, RetentionInv, NEW p \in Procs, pc[p] = "prune"
    PROVE  LET f == CurrentOp(p).path
               kept == Newest(backups[f], CurrentOp(p).keep - 1)
           IN  /\ kept \subseteq backups[f]
               /\ IsFiniteSet(kept)
               /\ Cardinality(kept) < MaxBackups
  <1> DEFINE f == CurrentOp(p).path
             k == CurrentOp(p).keep - 1
  <1>1. f \in Paths /\ k \in Nat /\ k < MaxBackups
    BY CurrentKeep, BoundsAssumption DEF RetentionInv, RoomInv, Writing
  <1>2. /\ \A b \in backups[f] : b.at \in Nat
        /\ \A b, c \in backups[f] : b.at = c.at => b = c
        /\ IsFiniteSet(backups[f])
    BY <1>1 DEF IInv, TypeInv, TypeOK, Backup, BackupsInv, RetentionInv, FewBackups
  <1> HIDE DEF f, k
  <1>3. /\ Newest(backups[f], k) \subseteq backups[f]
        /\ Cardinality(Newest(backups[f], k)) <= k
    BY <1>1, <1>2, NewestBound
  <1>4. IsFiniteSet(Newest(backups[f], k)) /\ Cardinality(Newest(backups[f], k)) \in Nat
    BY <1>2, <1>3, FS_Subset, FS_CardinalityType
  <1>5. QED
    BY <1>1, <1>3, <1>4, BoundsAssumption DEF f, k

\* A step of another invocation changes no backups of the lock's holder.
LEMMA OtherRoom ==
    ASSUME IInv, RetentionInv, NEW p \in Procs, NEW q \in Procs \ {p},
           Start(p) \/ Progress(p) \/ Failure(p)
    PROVE  RoomInv(q)'
  <1>1. Kept(q) /\ RoomInv(q)
    BY OthersKept DEF IInv, TypeInv, RetentionInv
  <1>2. CurrentOp(q)' = CurrentOp(q)
    BY <1>1 DEF Kept, CurrentOp
  <1>3. CASE pc[q] \notin Holding
    BY <1>1, <1>3 DEF Kept, RoomInv, Holding
  <1>4. CASE pc[q] \in Holding
    <2>1. holder # NoProc /\ pc[p] \notin Holding
      BY <1>4, NoProcAssumption DEF IInv, LockExclusion
    <2>2. UNCHANGED backups
      BY <2>1, OutsideStep
    <2>3. QED
      BY <1>1, <1>2, <2>2 DEF Kept, RoomInv
  <1>5. QED
    BY <1>3, <1>4

\* A step of an invocation makes room before it adds a backup.
LEMMA RetentionStep ==
    ASSUME IInv, RetentionInv, NEW p \in Procs,
           Start(p) \/ Progress(p) \/ Failure(p)
    PROVE  RetentionInv'
  <1> USE DEF diskVars, callVars, Goto
  <1>1. TypeOK /\ RoomInv(p) /\ FewBackups
    BY DEF IInv, TypeInv, RetentionInv
  <1>2. ASSUME FewBackups', RoomInv(p)'
        PROVE  RetentionInv'
    BY <1>2, OtherRoom DEF RetentionInv
  <1>3. CASE /\ UNCHANGED backups
             /\ pc'[p] \notin {"prune", "backupTemp", "backupRename"}
    BY <1>1, <1>2, <1>3 DEF FewBackups, RoomInv
  <1>4. CASE ReadExisting(p)
    <2>1. UNCHANGED backups
      BY <1>4 DEF ReadExisting
    <2>2. pc'[p] \in {"prune", "rename"}
      BY <1>1, <1>4 DEF ReadExisting, TypeOK
    <2>3. pc'[p] = "prune" => CurrentOp(p).keep > 0
      BY <1>1, <1>4 DEF ReadExisting, TypeOK
    <2>4. CurrentOp(p)' = CurrentOp(p)
      BY <1>4 DEF ReadExisting, CurrentOp
    <2>5. QED
      BY <1>1, <1>2, <2>1, <2>2, <2>3, <2>4 DEF FewBackups, RoomInv
  <1>5. CASE PruneBackups(p)
    <2> DEFINE f == CurrentOp(p).path
               kept == Newest(backups[f], CurrentOp(p).keep - 1)
    <2>1. /\ pc[p] = "prune"
          /\ pc'[p] = "backupTemp"
          /\ backups' = [backups EXCEPT ![f] = kept]
          /\ CurrentOp(p)' = CurrentOp(p)
      BY <1>1, <1>5 DEF PruneBackups, RoomForOne, TypeOK, CurrentOp
    <2>2. IsFiniteSet(kept) /\ Cardinality(kept) < MaxBackups /\ f \in Paths
      BY <2>1, PruneBound, CurrentKeep DEF Writing
    <2>3. Cardinality(kept) \in Nat
      BY <2>2, FS_CardinalityType
    <2> HIDE DEF f, kept
    <2>4. \A g \in Paths : backups'[g] = IF g = f THEN kept ELSE backups[g]
      BY <1>1, <2>1 DEF TypeOK
    <2>5. FewBackups'
      BY <1>1, <2>2, <2>3, <2>4, BoundsAssumption DEF FewBackups
    <2>6. RoomInv(p)'
      BY <2>1, <2>2, <2>4 DEF RoomInv, f
    <2>7. QED
      BY <1>2, <2>5, <2>6
  <1>6. CASE WriteBackupTemp(p)
    <2>1. /\ pc[p] = "backupTemp"
          /\ pc'[p] = "backupRename"
          /\ UNCHANGED backups
          /\ CurrentOp(p)' = CurrentOp(p)
      BY <1>1, <1>6 DEF WriteBackupTemp, TypeOK, CurrentOp
    <2>2. QED
      BY <1>1, <1>2, <2>1 DEF FewBackups, RoomInv
  <1>7. CASE RenameBackup(p)
    <2> DEFINE f == CurrentOp(p).path
               b == [at |-> clock, doc |-> BackupContent(p)]
    <2>1. /\ pc[p] = "backupRename"
          /\ pc'[p] = "rename"
          /\ backups' = [backups EXCEPT ![f] = @ \cup {b}]
      BY <1>1, <1>7 DEF RenameBackup, TypeOK
    <2>2. f \in Paths
      BY <2>1, CurrentKeep DEF Writing
    <2>3. IsFiniteSet(backups[f]) /\ Cardinality(backups[f]) < MaxBackups
      BY <1>1, <2>1, <2>2 DEF FewBackups, RoomInv
    <2> HIDE DEF f, b
    <2>4. /\ IsFiniteSet(backups[f] \cup {b})
          /\ Cardinality(backups[f] \cup {b}) <= MaxBackups
      BY SMTT(30), <2>3, FS_AddElement, FS_CardinalityType, BoundsAssumption
    <2>5. \A g \in Paths :
            backups'[g] = IF g = f THEN backups[f] \cup {b} ELSE backups[g]
      BY <1>1, <2>1, <2>2 DEF TypeOK
    <2>6. FewBackups'
      BY <1>1, <2>4, <2>5 DEF FewBackups
    <2>7. RoomInv(p)'
      BY <2>1 DEF RoomInv
    <2>8. QED
      BY <1>2, <2>6, <2>7
  <1>8. CASE WriteFails(p)
    <2>1. pc'[p] = "rollback"
      BY <1>1, <1>8 DEF WriteFails, TypeOK
    <2>2. \A g \in Paths : backups'[g] \subseteq backups[g]
      BY <1>1, <1>8 DEF WriteFails, TypeOK
    <2>3. ASSUME NEW g \in Paths
          PROVE  IsFiniteSet(backups'[g]) /\ Cardinality(backups'[g]) <= MaxBackups
      <3>1. /\ IsFiniteSet(backups[g])
            /\ Cardinality(backups[g]) <= MaxBackups
            /\ backups'[g] \subseteq backups[g]
        BY <1>1, <2>2 DEF FewBackups
      <3>2. /\ IsFiniteSet(backups'[g])
            /\ Cardinality(backups'[g]) <= Cardinality(backups[g])
        BY <3>1, FS_Subset
      <3>3. Cardinality(backups'[g]) \in Nat /\ Cardinality(backups[g]) \in Nat
        BY <3>1, <3>2, FS_CardinalityType
      <3>4. QED
        BY <3>1, <3>2, <3>3, BoundsAssumption
    <2>4. FewBackups'
      BY <2>3 DEF FewBackups
    <2>5. QED
      BY <1>2, <2>1, <2>4 DEF RoomInv
  <1>9. CASE \/ Start(p) \/ PlanStage(p) \/ AcquireApplyLock(p) \/ StageFails(p)
             \/ SkipNoop(p) \/ WriteEqual(p) \/ RenameTarget(p)
             \/ UndoSkip(p) \/ UndoTruncate(p) \/ UndoRestore(p)
             \/ UndoRemove(p) \/ UndoFails(p)
    BY <1>1, <1>3, <1>9
    DEF Start, PlanStage, AcquireApplyLock, StageFails, SkipNoop, WriteEqual,
        RenameTarget, NextTarget, UndoSkip, UndoTruncate, UndoRestore,
        UndoRemove, UndoFails, Undoing, TypeOK
  <1>10. CASE \/ PlanFails(p) \/ LockTimeout(p) \/ LockFails(p)
              \/ ApplyDone(p) \/ ApplyFailed(p) \/ Crash(p)
    <2>1. UNCHANGED backups
      BY <1>10
      DEF PlanFails, LockTimeout, LockFails, ApplyDone, ApplyFailed, Crash
    <2>2. pc'[p] \in {"failed", "env", "crashed"}
      BY <1>1, <1>10
      DEF PlanFails, LockTimeout, LockFails, ApplyDone, ApplyFailed, Crash,
          Return, TypeOK
    <2>3. QED
      BY <1>3, <2>1, <2>2
  <1>11. CASE RefreshShellEnv(p) \/ SyncPlugins(p)
    <2>1. UNCHANGED backups
      BY <1>11 DEF RefreshShellEnv, SyncPlugins
    <2>2. pc'[p] \in {"plan", "done", "sync"}
      BY <1>1, <1>11, AfterStageFacts
      DEF RefreshShellEnv, SyncPlugins, TypeOK, Ended, IInv
    <2>3. QED
      BY <1>3, <2>1, <2>2
  <1>12. QED
    BY <1>4, <1>5, <1>6, <1>7, <1>8, <1>9, <1>10, <1>11 DEF Progress, Failure

\* Rotation keeps its promise for every MaxBackups, with crashes and failures
\* in the middle of WriteAtomic (ApplyEngine.BackupRetention).
THEOREM RetentionCorrect == Spec => []BackupRetention
  <1>1. Init => RetentionInv
    <2> SUFFICES ASSUME Init
                 PROVE  RetentionInv
      OBVIOUS
    <2>1. FewBackups
      BY FS_EmptySet, BoundsAssumption DEF Init, FewBackups
    <2>2. QED
      BY <2>1 DEF Init, RetentionInv, RoomInv
  <1>2. IInv /\ RetentionInv /\ [Next]_vars => RetentionInv'
    <2> SUFFICES ASSUME IInv, RetentionInv, [Next]_vars
                 PROVE  RetentionInv'
      OBVIOUS
    <2>1. CASE UNCHANGED <<backups, pc, plan, idx>>
      BY <2>1 DEF RetentionInv, FewBackups, RoomInv, CurrentOp
    <2>2. CASE Edit \/ UNCHANGED vars
      BY <2>1, <2>2 DEF Edit, vars, diskVars, callVars
    <2>3. QED
      BY <2>2, RetentionStep DEF Next
  <1>3. RetentionInv => BackupRetention
    BY DEF RetentionInv, FewBackups, BackupRetention
  <1>4. QED
    BY IInvInit, IInvNext, <1>1, <1>2, <1>3, PTL DEF Spec


-----------------------------------------------------------------------------
(* Part 3: stages are transactions *)


-----------------------------------------------------------------------------
(* The inductive invariant *)

\* Every file is as it was when the lock was taken, or removed, or one of
\* the targets that rollback has not come to yet.
FilesInv(p) ==
    pc[p] \in Holding =>
        \/ raced
        \/ rbErr[p]
        \/ \A f \in Paths :
             \/ file[f] \in {atLock[f], Absent}
             \/ \E j \in DOMAIN plan[p] : plan[p][j].path = f /\ ToUndo(p, j)

\* What a plan writes is a whole document.
WholeInv(p) ==
    \A i \in DOMAIN plan[p] : plan[p][i].after \in FileState \ {Absent, Truncated}

FInv == IInv /\ \A p \in Procs : FilesInv(p) /\ WholeInv(p)

-----------------------------------------------------------------------------
(* The invariant is inductive *)

\* A JSON document is neither missing nor truncated.
LEMMA JsonWhole ==
    ASSUME NEW d \in Document
    PROVE  Json(d) \in FileState \ {Absent, Truncated}
  BY FileStateFacts DEF Json, Absent, Truncated

\* So is what PlanX renders.
LEMMA PlanWhole ==
    ASSUME TypeInv, NEW p \in Procs, pc[p] \notin Ended
    PROVE  LET ops == PlanOf(CurrentStage(p))
           IN  \A i \in DOMAIN ops :
                 ops[i].after \in FileState \ {Absent, Truncated}
  <1> DEFINE ts == CurrentStage(p).targets
             ops == PlanOf(CurrentStage(p))
  <1>1. ts \in Seq(Target)
    BY StageType DEF Stage
  <1>2. ops = [i \in DOMAIN ts |-> PlanOp(ts[i])]
    BY DEF PlanOf
  <1>3. ASSUME NEW i \in DOMAIN ts
        PROVE  PlanOp(ts[i]).after \in FileState \ {Absent, Truncated}
    <2>1. ts[i] \in Target
      BY <1>1
    <2>2. ts[i].declared \in Document /\ ts[i].path \in Paths
      BY <2>1 DEF Target
    <2>3. file[ts[i].path] \in FileState
      BY <2>2 DEF TypeInv, TypeOK
    <2>4. file[ts[i].path].has \in Document
      BY <2>3, FileStateFacts
    <2>5. (file[ts[i].path].has \ ts[i].stale) \cup ts[i].declared \in Document
      BY <2>2, <2>4 DEF Document
    <2>6. PlanOp(ts[i]).after = Render(ts[i], file[ts[i].path])
      BY DEF PlanOp
    <2>7. QED
      BY <2>2, <2>5, <2>6, JsonWhole DEF Render
  <1>4. QED
    BY <1>2, <1>3

\* Another invocation acts: it is outside the lock when this one is inside.
LEMMA OtherFiles ==
    ASSUME FInv, NEW p \in Procs, NEW q \in Procs \ {p},
           Start(p) \/ Progress(p) \/ Failure(p)
    PROVE  FilesInv(q)' /\ WholeInv(q)'
  <1>1. Kept(q) /\ FilesInv(q) /\ WholeInv(q) /\ IInv
    BY OthersKept DEF FInv, IInv, TypeInv
  <1>2. WholeInv(q)'
    BY <1>1 DEF WholeInv, Kept
  <1>3. CASE pc[q] \in Holding
    <2>1. holder = q /\ pc[p] \notin Holding /\ holder # NoProc
      BY <1>1, <1>3, NoProcAssumption DEF IInv, LockExclusion
    <2>2. UNCHANGED <<backups, atLock>> /\ (raced' \/ UNCHANGED <<file, raced>>)
      BY <1>1, <2>1, OutsideStep
    <2>3. QED
      BY <1>1, <1>2, <2>2 DEF FilesInv, ToUndo, Kept
  <1>4. CASE pc[q] \notin Holding
    BY <1>1, <1>2, <1>4 DEF FilesInv, Kept
  <1>5. QED
    BY <1>3, <1>4

\* Outside the lock nothing is promised of the files; a plan is rendered
\* before the lock is taken.
LEMMA OwnOutsideFiles ==
    ASSUME FInv, TypeInv', NEW p \in Procs,
           \/ Start(p) \/ PlanStage(p) \/ PlanFails(p) \/ LockTimeout(p)
           \/ LockFails(p) \/ ApplyDone(p) \/ ApplyFailed(p)
           \/ RefreshShellEnv(p) \/ SyncPlugins(p) \/ StageFails(p) \/ Crash(p)
    PROVE  FilesInv(p)' /\ WholeInv(p)'
  <1> USE DEF Goto, callVars
  <1>1. TypeInv /\ TypeOK /\ WholeInv(p)
    BY DEF FInv, IInv, TypeInv
  <1>2. CASE Start(p)
    BY <1>1, <1>2 DEF Start, FilesInv, WholeInv, Holding, TypeOK
  <1>3. CASE PlanStage(p)
    <2>1. pc[p] \notin Ended
      BY <1>3 DEF PlanStage, Ended
    <2>2. plan'[p] = PlanOf(CurrentStage(p)) /\ pc'[p] = "lock"
      BY <1>1, <1>3 DEF PlanStage, TypeOK
    <2>3. QED
      BY <1>1, <2>1, <2>2, PlanWhole DEF FilesInv, WholeInv, Holding
  <1>4. ASSUME NEW l \in Labels \ Holding, Return(p, l)
        PROVE  FilesInv(p)' /\ WholeInv(p)'
    <2>1. pc'[p] = l /\ plan'[p] = << >>
      BY <1>1, <1>4 DEF Return, TypeOK
    <2>2. QED
      BY <2>1 DEF FilesInv, WholeInv
  <1>5. CASE \/ PlanFails(p) \/ LockTimeout(p) \/ LockFails(p)
             \/ ApplyDone(p) \/ ApplyFailed(p) \/ Crash(p)
    <2>1. {"failed", "env", "crashed"} \subseteq Labels \ Holding
      BY DEF Labels, Holding, Ended
    <2>2. QED
      BY <1>4, <1>5, <2>1
      DEF PlanFails, LockTimeout, LockFails, ApplyDone, ApplyFailed, Crash
  <1>6. CASE RefreshShellEnv(p) \/ SyncPlugins(p) \/ StageFails(p)
    <2>1. pc'[p] \in {"plan", "done", "sync", "failed"} /\ plan' = plan
      BY <1>1, <1>6
      DEF RefreshShellEnv, SyncPlugins, StageFails, AfterStage, TypeOK
    <2>2. QED
      BY <1>1, <2>1 DEF FilesInv, WholeInv, Holding
  <1>7. QED
    BY <1>2, <1>3, <1>5, <1>6

\* Apply's loop: what it replaces is noted as something to undo.
LEMMA OwnWriteFiles ==
    ASSUME FInv, TypeInv', NEW p \in Procs,
           \/ AcquireApplyLock(p) \/ SkipNoop(p) \/ WriteEqual(p)
           \/ ReadExisting(p) \/ PruneBackups(p) \/ WriteBackupTemp(p)
           \/ RenameBackup(p) \/ RenameTarget(p) \/ WriteFails(p)
    PROVE  FilesInv(p)' /\ WholeInv(p)'
  <1> DEFINE g == CurrentOp(p).path
  <1> USE DEF Goto, Record, NextTarget, histVars, lockHist, diskVars
  <1>1. /\ TypeInv /\ TypeOK /\ PlaceOK(p) /\ IInv /\ FilesInv(p) /\ WholeInv(p)
        /\ StageInv(p)
    BY DEF FInv, IInv, TypeInv
  <1>2. plan' = plan /\ rbErr' = rbErr
    BY DEF AcquireApplyLock, SkipNoop, WriteEqual, ReadExisting, PruneBackups,
           WriteBackupTemp, RenameBackup, RenameTarget, WriteFails, callVars
  <1>3. WholeInv(p)'
    BY <1>1, <1>2 DEF WholeInv
  <1>4. CASE AcquireApplyLock(p)
    <2>1. file' = file /\ atLock' = file
      BY <1>4 DEF AcquireApplyLock
    <2>2. QED
      BY <1>3, <2>1 DEF FilesInv
  <1>5. CASE \/ ReadExisting(p) \/ PruneBackups(p)
             \/ WriteBackupTemp(p) \/ RenameBackup(p)
    <2>1. /\ pc[p] \in Writing /\ pc'[p] \in Writing
          /\ UNCHANGED <<file, atLock, raced, results>>
      BY <1>1, <1>5
      DEF ReadExisting, PruneBackups, WriteBackupTemp, RenameBackup, Working,
          Writing, callVars, TypeOK
    <2>2. \A j \in DOMAIN plan[p] : ToUndo(p, j) => ToUndo(p, j)'
      BY <2>1 DEF ToUndo, Writing, Undo
    <2>3. QED
      BY <1>1, <1>2, <1>3, <2>1, <2>2 DEF FilesInv, Holding, Writing
  <1>6. ASSUME NEW r \in Result,
               pc[p] \in Writing, pc'[p] \in {"write", "rollback"},
               pc'[p] = "rollback" => idx'[p] = idx[p] - 1,
               results' = [results EXCEPT ![p] = Append(@, r)],
               UNCHANGED <<atLock, raced>>,
               \/ UNCHANGED file
               \/ /\ pc[p] = "rename" /\ pc'[p] = "write" /\ r.wrote
                  /\ file' = [file EXCEPT ![g] = CurrentOp(p).after]
        PROVE  FilesInv(p)'
    <2>1. ~rbErr[p]
      BY <1>1, <1>6 DEF StageInv, LocalsInv, Writing, Undo
    <2>2. /\ DOMAIN results[p] = 1 .. Len(results[p])
          /\ DOMAIN plan[p] = 1 .. Len(plan[p])
          /\ Len(results[p]) \in Nat /\ Len(plan[p]) \in Nat
          /\ idx[p] = Len(results[p]) + 1
      BY <1>1, <1>6, InsideFacts, LocalFacts DEF Holding, Writing, PlaceOK
    <2>3. results[p] \in Seq(Result) /\ results \in [Procs -> Seq(Result)]
      BY <1>1 DEF TypeOK
    <2>4. /\ results'[p] = Append(results[p], r)
          /\ DOMAIN results'[p] = 1 .. (Len(results[p]) + 1)
          /\ \A j \in DOMAIN results[p] : results'[p][j] = results[p][j]
          /\ results'[p][Len(results[p]) + 1] = r
      BY <1>6, <2>2, <2>3
    <2>5. \A j \in DOMAIN plan[p] : ToUndo(p, j) => ToUndo(p, j)'
      BY <1>6, <2>2, <2>4 DEF ToUndo, Undo
    <2>6. CASE UNCHANGED file
      BY <1>1, <1>2, <1>6, <2>1, <2>5, <2>6 DEF FilesInv, Holding, Writing
    <2>7. CASE /\ pc[p] = "rename" /\ pc'[p] = "write" /\ r.wrote
               /\ file' = [file EXCEPT ![g] = CurrentOp(p).after]
      <3>1. PICK k \in DOMAIN plan[p] : k = idx[p]
        BY <1>1, <2>2, <2>7, PlanFacts DEF Writing
      <3>2. ToUndo(p, k)'
        BY <2>2, <2>4, <2>7, <3>1 DEF ToUndo, Undo
      <3>3. plan'[p][k].path = g
        BY <1>2, <3>1 DEF CurrentOp
      <3>4. \A f \in Paths \ {g} : file'[f] = file[f]
        BY <1>1, <2>7 DEF TypeOK
      <3>5. QED
        BY <1>1, <1>2, <1>6, <2>1, <2>5, <2>7, <3>1, <3>2, <3>3, <3>4
        DEF FilesInv, Holding, Writing
    <2>8. QED
      BY <1>6, <2>6, <2>7
  <1>7. CASE SkipNoop(p) \/ WriteEqual(p)
    <2>1. /\ pc[p] = "write" /\ pc'[p] = "write"
          /\ UNCHANGED <<file, atLock, raced>>
          /\ \E r \in Result : results' = [results EXCEPT ![p] = Append(@, r)]
      BY <1>1, <1>7 DEF SkipNoop, WriteEqual, Working, TypeOK, Result
    <2>2. QED
      BY <1>3, <1>6, <2>1 DEF Writing
  <1>8. CASE RenameTarget(p)
    <2>1. /\ pc[p] = "rename" /\ pc'[p] = "write"
          /\ UNCHANGED <<atLock, raced>>
          /\ file' = [file EXCEPT ![g] = CurrentOp(p).after]
          /\ results' = [results EXCEPT ![p] =
                           Append(@, [wrote |-> TRUE, bak |-> bak[p]])]
      BY <1>1, <1>8 DEF RenameTarget, TypeOK
    <2>2. [wrote |-> TRUE, bak |-> bak[p]] \in Result
      BY <1>1 DEF Result, TypeOK
    <2>3. QED
      BY <1>3, <1>6, <2>1, <2>2 DEF Writing
  <1>9. CASE WriteFails(p)
    <2>1. /\ pc[p] \in Writing /\ pc'[p] = "rollback"
          /\ idx'[p] = idx[p] - 1
          /\ UNCHANGED <<file, atLock, raced>>
          /\ results' = [results EXCEPT ![p] =
                           Append(@, [wrote |-> FALSE, bak |-> bak[p]])]
      BY <1>1, <1>9 DEF WriteFails, Working, Writing, RollbackFrom, TypeOK
    <2>2. [wrote |-> FALSE, bak |-> bak[p]] \in Result
      BY <1>1 DEF Result, TypeOK
    <2>3. QED
      BY <1>3, <1>6, <2>1, <2>2
  <1>10. QED
    BY <1>3, <1>4, <1>5, <1>7, <1>8, <1>9

\* Rollback: what is no longer to be undone is put back, removed or
\* reported.
LEMMA OwnUndoFiles ==
    ASSUME FInv, TypeInv', NEW p \in Procs,
           \/ UndoSkip(p) \/ UndoTruncate(p) \/ UndoRestore(p)
           \/ UndoRemove(p) \/ UndoFails(p)
    PROVE  FilesInv(p)' /\ WholeInv(p)'
  <1> DEFINE g == CurrentOp(p).path
  <1> USE DEF Goto, Undoing, histVars, lockHist, diskVars
  <1>1. /\ TypeInv /\ TypeOK /\ PlaceOK(p) /\ IInv /\ FilesInv(p) /\ WholeInv(p)
        /\ StageInv(p)
    BY DEF FInv, IInv, TypeInv
  <1>2. /\ plan' = plan /\ results' = results
        /\ UNCHANGED <<atLock, raced>>
        /\ pc[p] \in Undo /\ pc'[p] \in Undo
    BY <1>1
    DEF UndoSkip, UndoTruncate, UndoRestore, UndoRemove, UndoFails, Undo, TypeOK
  <1>3. WholeInv(p)'
    BY <1>1, <1>2 DEF WholeInv
  <1>4. /\ idx[p] \in DOMAIN plan[p]
        /\ g \in Paths /\ plan[p][idx[p]].path = g
        /\ idx[p] \in Nat
        /\ DOMAIN plan[p] \subseteq Nat
        /\ DOMAIN results[p] \subseteq DOMAIN plan[p]
        /\ \A j \in DOMAIN plan[p] : plan[p][j].path = g => j = idx[p]
    <2>1. Undoing(p) \/ pc[p] = "restore"
      BY DEF UndoSkip, UndoTruncate, UndoRestore, UndoRemove, UndoFails
    <2>2. QED
      BY <1>1, <1>2, <2>1, PlanFacts, InsideFacts, LocalFacts
      DEF CurrentOp, Undo, Holding
  <1>5. CASE UndoSkip(p)
    <2>1. /\ ~results[p][idx[p]].wrote /\ idx'[p] = idx[p] - 1
          /\ UNCHANGED <<file, rbErr>>
      BY <1>1, <1>5 DEF UndoSkip, TypeOK
    <2>2. \A j \in DOMAIN plan[p] : ToUndo(p, j) => ToUndo(p, j)'
      BY <1>2, <1>4, <2>1 DEF ToUndo
    <2>3. QED
      BY <1>1, <1>2, <1>3, <2>1, <2>2 DEF FilesInv, Holding, Undo
  <1>6. CASE UndoTruncate(p)
    <2>1. /\ results[p][idx[p]].wrote /\ idx'[p] = idx[p]
          /\ rbErr' = rbErr
          /\ \A f \in Paths \ {g} : file'[f] = file[f]
          /\ idx[p] \in DOMAIN results[p]
      BY <1>1, <1>6, LocalFacts
      DEF UndoTruncate, TypeOK, PlaceOK, Undo
    <2>2. \A j \in DOMAIN plan[p] : ToUndo(p, j) => ToUndo(p, j)'
      BY <1>2, <2>1 DEF ToUndo
    <2>3. ToUndo(p, idx[p])'
      BY <1>2, <1>4, <2>1 DEF ToUndo
    <2>4. QED
      BY <1>1, <1>2, <1>3, <1>4, <2>1, <2>2, <2>3
      DEF FilesInv, Holding, Undo
  <1>7. ASSUME idx'[p] = idx[p] - 1, rbErr' = rbErr,
               \A f \in Paths \ {g} : file'[f] = file[f],
               raced \/ file'[g] \in {atLock[g], Absent}
        PROVE  FilesInv(p)'
    <2>1. \A j \in DOMAIN plan[p] \ {idx[p]} : ToUndo(p, j) => ToUndo(p, j)'
      BY <1>2, <1>4, <1>7 DEF ToUndo
    <2>2. QED
      BY <1>1, <1>2, <1>4, <1>7, <2>1 DEF FilesInv, Holding, Undo
  <1>8. CASE UndoRestore(p)
    <2>1. /\ idx'[p] = idx[p] - 1 /\ rbErr' = rbErr
          /\ \A f \in Paths \ {g} : file'[f] = file[f]
          /\ file'[g] = seen[p]
      BY <1>1, <1>4, <1>8 DEF UndoRestore, TypeOK
    <2>2. raced \/ seen[p] = atLock[g]
      BY <1>1, <1>8 DEF UndoRestore, StageInv, SeenInv
    <2>3. QED
      BY <1>3, <1>7, <2>1, <2>2
  <1>9. CASE UndoRemove(p)
    BY <1>1, <1>3, <1>4, <1>7, <1>9 DEF UndoRemove, TypeOK
  <1>10. CASE UndoFails(p)
    <2>1. rbErr'[p]
      BY <1>1, <1>10 DEF UndoFails, TypeOK
    <2>2. QED
      BY <1>3, <2>1 DEF FilesInv
  <1>11. QED
    BY <1>5, <1>6, <1>8, <1>9, <1>10

\* Nobody holds the lock at first, and nothing is planned.
LEMMA FInvInit == Init => FInv
  <1> SUFFICES ASSUME Init
               PROVE  FInv
    OBVIOUS
  <1>1. IInv
    BY IInvInit
  <1>2. \A p \in Procs : FilesInv(p) /\ WholeInv(p)
    BY DEF Init, FilesInv, WholeInv, Holding
  <1>3. QED
    BY <1>1, <1>2 DEF FInv

\* Every step keeps the invariant.
LEMMA FInvNext == FInv /\ [Next]_vars => FInv'
  <1> SUFFICES ASSUME FInv, [Next]_vars
               PROVE  FInv'
    OBVIOUS
  <1>1. IInv' /\ TypeInv' /\ IInv
    BY IInvNext DEF FInv, IInv
  <1>2. ASSUME NEW p \in Procs, Start(p) \/ Progress(p) \/ Failure(p)
        PROVE  FInv'
    <2>1. \A q \in Procs \ {p} : FilesInv(q)' /\ WholeInv(q)'
      BY <1>2, OtherFiles
    <2>2. FilesInv(p)' /\ WholeInv(p)'
      BY <1>1, <1>2, OwnOutsideFiles, OwnWriteFiles, OwnUndoFiles
      DEF Progress, Failure
    <2>3. QED
      BY <1>1, <2>1, <2>2 DEF FInv
  <1>3. CASE Edit
    <2>1. /\ UNCHANGED <<pc, plan, holder>>
          /\ raced' = (raced \/ holder # NoProc)
      BY <1>3 DEF Edit, callVars
    <2>2. ASSUME NEW q \in Procs
          PROVE  FilesInv(q)' /\ WholeInv(q)'
      <3>1. pc[q] \in Holding => raced'
        BY <1>1, <2>1, NoProcAssumption DEF IInv, LockExclusion
      <3>2. WholeInv(q)
        BY DEF FInv
      <3>3. QED
        BY <2>1, <3>1, <3>2 DEF FilesInv, WholeInv
    <2>3. QED
      BY <1>1, <2>2 DEF FInv
  <1>4. CASE UNCHANGED vars
    BY <1>1, <1>4
    DEF FInv, FilesInv, WholeInv, ToUndo, vars, diskVars, callVars, histVars,
        lockHist
  <1>5. QED
    BY <1>2, <1>3, <1>4 DEF Next

-----------------------------------------------------------------------------
(* Every step is a step of the transaction, or none *)

\* Nothing that StageTransaction can see has changed but the phase of p.
Unseen == UNCHANGED <<file, holder, atLock, raced>>

\* Only the phase of the invocation that acts can change.
LEMMA PhaseStep ==
    ASSUME TypeOK, NEW p \in Procs, Start(p) \/ Progress(p) \/ Failure(p)
    PROVE  /\ T!Enter(p, PhaseOf(p)')
           /\ PhaseOf(p)' = PhaseOf(p) =>
                UNCHANGED [q \in Procs |-> PhaseOf(q)]
  <1>1. \A q \in Procs \ {p} : PhaseOf(q)' = PhaseOf(q)
    BY OthersKept DEF Kept, PhaseOf
  <1>2. QED
    BY <1>1 DEF T!Enter

\* A step that changes neither the phase nor what is seen is a stutter.
LEMMA StutterStep ==
    ASSUME TypeOK, NEW p \in Procs, Start(p) \/ Progress(p) \/ Failure(p),
           Unseen, PhaseOf(p)' = PhaseOf(p)
    PROVE  UNCHANGED T!vars
  BY PhaseStep DEF T!vars, Unseen

\* The labels of each phase.
LEMMA PhaseFacts ==
    ASSUME NEW p \in Procs
    PROVE  /\ pc[p] = "crashed" => PhaseOf(p) = "dead"
           /\ pc[p] \in Undo /\ rbErr[p] => PhaseOf(p) = "stuck"
           /\ pc[p] \in Undo /\ ~rbErr[p] => PhaseOf(p) = "undoing"
           /\ pc[p] \in Writing => PhaseOf(p) = "changing"
           /\ pc[p] \in Labels \ (Holding \cup {"crashed"}) =>
                PhaseOf(p) = "outside"
  BY DEF PhaseOf, Undo, Writing, Holding, Labels, Ended

\* And so it is of the labels after a step.
LEMMA NextPhaseFacts ==
    ASSUME NEW p \in Procs
    PROVE  /\ pc'[p] = "crashed" => PhaseOf(p)' = "dead"
           /\ pc'[p] \in Undo /\ rbErr'[p] => PhaseOf(p)' = "stuck"
           /\ pc'[p] \in Undo /\ ~rbErr'[p] => PhaseOf(p)' = "undoing"
           /\ pc'[p] \in Writing => PhaseOf(p)' = "changing"
           /\ pc'[p] \in Labels \ (Holding \cup {"crashed"}) =>
                PhaseOf(p)' = "outside"
  BY DEF PhaseOf, Undo, Writing, Holding, Labels, Ended

\* Outside the lock: starting, planning, giving up before the lock is held,
\* and what follows render.Apply.
LEMMA OutsideImplements ==
    ASSUME FInv, FInv', NEW p \in Procs,
           \/ Start(p) \/ PlanStage(p) \/ PlanFails(p) \/ LockTimeout(p)
           \/ LockFails(p) \/ RefreshShellEnv(p) \/ SyncPlugins(p)
           \/ StageFails(p)
    PROVE  [T!Next]_(T!vars)
  <1> USE DEF Goto, diskVars, histVars, lockHist
  <1> DEFINE Out == Labels \ (Holding \cup {"crashed"})
  <1>1. /\ TypeOK /\ IInv
        /\ Start(p) \/ Progress(p) \/ Failure(p)
    BY DEF FInv, IInv, TypeInv, Progress, Failure
  <1>2. CASE Start(p)
    <2>1. /\ Unseen
          /\ pc[p] = "crashed" \/ pc[p] \in Out
          /\ pc'[p] \in Out
      BY <1>1, <1>2
      DEF Start, Unseen, TypeOK, Labels, Ended, Holding
    <2>2. CASE pc[p] = "crashed"
      <3>1. T!Restart(p)
        BY <1>1, <2>1, <2>2, PhaseStep, PhaseFacts, NextPhaseFacts
        DEF T!Restart, Unseen
      <3>2. QED
        BY <3>1 DEF T!Next
    <2>3. CASE pc[p] \in Out
      BY <1>1, <2>1, <2>3, StutterStep, PhaseFacts, NextPhaseFacts
    <2>4. QED
      BY <2>1, <2>2, <2>3
  <1>3. CASE \/ PlanStage(p) \/ PlanFails(p) \/ LockTimeout(p) \/ LockFails(p)
             \/ RefreshShellEnv(p) \/ StageFails(p)
    <2>1. pc[p] \in Out /\ pc'[p] \in Out
      BY <1>1, <1>3
      DEF PlanStage, PlanFails, LockTimeout, LockFails, RefreshShellEnv,
          StageFails, Return, AfterStage, TypeOK, Labels, Ended, Holding
    <2>2. holder # p
      BY <1>1, <2>1 DEF IInv, LockExclusion
    <2>3. Unseen
      BY <1>3, <2>2
      DEF PlanStage, PlanFails, LockTimeout, LockFails, RefreshShellEnv,
          StageFails, Return, Unseen
    <2>4. QED
      BY <1>1, <2>1, <2>3, StutterStep, PhaseFacts, NextPhaseFacts
  <1>4. CASE SyncPlugins(p)
    <2>1. pc[p] \in Out /\ pc'[p] \in Out
      BY <1>1, <1>4
      DEF SyncPlugins, AfterStage, TypeOK, Labels, Ended, Holding
    <2>2. UNCHANGED [q \in Procs |-> PhaseOf(q)]
      BY <1>1, <2>1, PhaseStep, PhaseFacts, NextPhaseFacts
    <2>3. PICK c \in FileState \ {Absent, Truncated} :
            file' = [file EXCEPT ![Doc] = c]
      <3>1. file[Doc] \in FileState
        BY <1>1, InvocationAssumption DEF TypeOK
      <3>2. CurrentStage(p) \in Stage
        BY <1>4, StageType DEF FInv, IInv, SyncPlugins, Ended
      <3>3. file[Doc].has \cup CurrentStage(p).sync \in Document
        BY <3>1, <3>2, FileStateFacts DEF Stage, Document
      <3>4. QED
        BY <1>4, <3>3, JsonWhole DEF SyncPlugins
    <2>4. T!WriteShared
      BY <1>4, <2>2, <2>3 DEF SyncPlugins, T!WriteShared, T!Whole
    <2>5. QED
      BY <2>4 DEF T!Next
  <1>5. QED
    BY <1>2, <1>3, <1>4

\* Under the lock, before anything has failed.
LEMMA WritingImplements ==
    ASSUME FInv, FInv', NEW p \in Procs,
           \/ AcquireApplyLock(p) \/ SkipNoop(p) \/ WriteEqual(p)
           \/ ReadExisting(p) \/ PruneBackups(p) \/ WriteBackupTemp(p)
           \/ RenameBackup(p) \/ RenameTarget(p) \/ WriteFails(p)
           \/ ApplyDone(p)
    PROVE  [T!Next]_(T!vars)
  <1> USE DEF Goto, NextTarget, Record, diskVars, histVars, lockHist
  <1>1. /\ TypeOK /\ IInv /\ TypeInv /\ WholeInv(p)
        /\ Start(p) \/ Progress(p) \/ Failure(p)
    BY DEF FInv, IInv, TypeInv, Progress, Failure
  <1>2. CASE AcquireApplyLock(p)
    <2>1. PhaseOf(p) = "outside" /\ PhaseOf(p)' = "changing"
      <3>1. pc[p] = "lock" /\ pc'[p] = "write"
        BY <1>1, <1>2 DEF AcquireApplyLock, TypeOK
      <3>2. QED
        BY <3>1, PhaseFacts, NextPhaseFacts
        DEF Labels, Holding, Ended, Writing
    <2>2. T!Begin(p)
      BY <1>1, <1>2, <2>1, PhaseStep DEF AcquireApplyLock, FlockFree, T!Begin
    <2>3. QED
      BY <2>2 DEF T!Next
  <1>3. CASE \/ SkipNoop(p) \/ WriteEqual(p) \/ ReadExisting(p)
             \/ PruneBackups(p) \/ WriteBackupTemp(p) \/ RenameBackup(p)
    <2>1. Unseen /\ pc[p] \in Writing /\ pc'[p] \in Writing
      BY <1>1, <1>3
      DEF SkipNoop, WriteEqual, ReadExisting, PruneBackups, WriteBackupTemp,
          RenameBackup, Working, Writing, Unseen, TypeOK
    <2>2. QED
      BY <1>1, <2>1, StutterStep, PhaseFacts, NextPhaseFacts
  <1>4. CASE RenameTarget(p)
    <2>1. pc[p] = "rename" /\ pc'[p] = "write"
      BY <1>1, <1>4 DEF RenameTarget, TypeOK
    <2>2. PhaseOf(p) = "changing" /\ PhaseOf(p)' = "changing"
      BY <2>1, PhaseFacts, NextPhaseFacts DEF Writing
    <2>3. /\ CurrentOp(p).path \in Paths
          /\ CurrentOp(p).after \in FileState \ {Absent, Truncated}
      BY <1>1, <2>1, PlanFacts DEF Writing, WholeInv, CurrentOp
    <2>4. T!Change(p)
      BY <1>1, <1>4, <2>2, <2>3, PhaseStep
      DEF RenameTarget, T!Change, T!Whole
    <2>5. QED
      BY <2>4 DEF T!Next
  <1>5. CASE WriteFails(p)
    <2>1. /\ pc[p] \in Writing /\ pc'[p] = "rollback" /\ rbErr' = rbErr
          /\ Unseen
      BY <1>1, <1>5 DEF WriteFails, Working, Writing, Unseen, TypeOK
    <2>2. ~rbErr[p]
      BY <1>1, <2>1 DEF IInv, StageInv, LocalsInv, Writing, Undo
    <2>3. PhaseOf(p) = "changing" /\ PhaseOf(p)' = "undoing"
      BY <2>1, <2>2, PhaseFacts, NextPhaseFacts DEF Undo
    <2>4. T!GiveUp(p)
      BY <1>1, <2>1, <2>3, PhaseStep DEF T!GiveUp, Unseen
    <2>5. QED
      BY <2>4 DEF T!Next
  <1>6. CASE ApplyDone(p)
    <2>1. pc[p] = "write" /\ pc'[p] = "env"
      BY <1>1, <1>6 DEF ApplyDone, Return, TypeOK
    <2>2. PhaseOf(p) = "changing" /\ PhaseOf(p)' = "outside"
      BY <2>1, PhaseFacts, NextPhaseFacts
      DEF Writing, Labels, Holding, Ended
    <2>3. holder = p
      BY <1>1, <2>1 DEF IInv, LockExclusion, Holding
    <2>4. T!Commit(p)
      BY <1>1, <1>6, <2>2, <2>3, PhaseStep
      DEF ApplyDone, Return, T!Commit, T!Leave
    <2>5. QED
      BY <2>4 DEF T!Next
  <1>7. QED
    BY <1>2, <1>3, <1>4, <1>5, <1>6

\* Rollback.
LEMMA UndoImplements ==
    ASSUME FInv, FInv', NEW p \in Procs,
           \/ UndoSkip(p) \/ UndoTruncate(p) \/ UndoRestore(p)
           \/ UndoRemove(p) \/ UndoFails(p) \/ ApplyFailed(p)
    PROVE  [T!Next]_(T!vars)
  <1> USE DEF Goto, diskVars, histVars, lockHist
  <1>1. /\ TypeOK /\ IInv /\ TypeInv /\ FilesInv(p) /\ StageInv(p)
        /\ Start(p) \/ Progress(p) \/ Failure(p)
    BY DEF FInv, IInv, TypeInv, Progress, Failure
  <1>2. pc[p] \in Undo /\ PhaseOf(p) \in {"undoing", "stuck"}
    <2>1. pc[p] \in Undo
      BY DEF UndoSkip, UndoTruncate, UndoRestore, UndoRemove, UndoFails,
             ApplyFailed, Undoing, Undo
    <2>2. QED
      BY <2>1, PhaseFacts
  <1>3. ASSUME pc'[p] \in Undo, rbErr' = rbErr
        PROVE  PhaseOf(p)' = PhaseOf(p)
    BY <1>2, <1>3, PhaseFacts, NextPhaseFacts
  <1>4. CASE UndoSkip(p)
    <2>1. Unseen /\ pc' = pc /\ rbErr' = rbErr
      BY <1>4 DEF UndoSkip, Unseen
    <2>2. QED
      BY <1>1, <1>2, <1>3, <2>1, StutterStep
  <1>5. CASE UndoTruncate(p) \/ UndoRestore(p) \/ UndoRemove(p)
    <2>1. /\ pc'[p] \in Undo /\ rbErr' = rbErr
          /\ UNCHANGED <<holder, atLock, raced>>
      BY <1>1, <1>5
      DEF UndoTruncate, UndoRestore, UndoRemove, Undoing, Undo, TypeOK
    <2>2. CurrentOp(p).path \in Paths
      BY <1>1, <1>5, PlanFacts
      DEF UndoTruncate, UndoRestore, UndoRemove
    <2>3. PICK c \in FileState :
            /\ file' = [file EXCEPT ![CurrentOp(p).path] = c]
            /\ raced \/ c \in {atLock[CurrentOp(p).path], Absent, Truncated}
      <3>1. CASE UndoTruncate(p)
        BY <3>1, FileStateFacts DEF UndoTruncate
      <3>2. CASE UndoRestore(p)
        <4>1. seen[p] \in FileState
          BY <1>1 DEF TypeOK
        <4>2. raced \/ seen[p] = atLock[CurrentOp(p).path]
          BY <1>1, <3>2 DEF UndoRestore, StageInv, SeenInv
        <4>3. QED
          BY <3>2, <4>1, <4>2 DEF UndoRestore
      <3>3. CASE UndoRemove(p)
        BY <3>3, AbsentType DEF UndoRemove
      <3>4. QED
        BY <1>5, <3>1, <3>2, <3>3
    <2>4. T!Undo(p)
      BY <1>1, <1>2, <1>3, <2>1, <2>2, <2>3, PhaseStep DEF T!Undo
    <2>5. QED
      BY <2>4 DEF T!Next
  <1>6. CASE UndoFails(p)
    <2>1. pc'[p] = "rollback" /\ rbErr'[p] /\ Unseen
      BY <1>1, <1>6 DEF UndoFails, Unseen, TypeOK
    <2>2. PhaseOf(p)' = "stuck"
      BY <2>1, NextPhaseFacts DEF Undo
    <2>3. CASE PhaseOf(p) = "stuck"
      BY <1>1, <2>1, <2>2, <2>3, StutterStep
    <2>4. CASE PhaseOf(p) = "undoing"
      <3>1. T!UndoFails(p)
        BY <1>1, <2>1, <2>2, <2>4, PhaseStep DEF T!UndoFails, Unseen
      <3>2. QED
        BY <3>1 DEF T!Next
    <2>5. QED
      BY <1>2, <2>3, <2>4
  <1>7. CASE ApplyFailed(p)
    <2>1. pc'[p] = "failed" /\ idx[p] = 0
      BY <1>1, <1>7 DEF ApplyFailed, Return, TypeOK
    <2>2. PhaseOf(p)' = "outside"
      BY <2>1, NextPhaseFacts DEF Labels, Holding, Ended
    <2>3. holder = p
      BY <1>1, <1>2 DEF IInv, LockExclusion, Holding, Undo
    <2>4. PhaseOf(p) = "undoing" => raced \/ T!Restored
      <3>1. PhaseOf(p) = "undoing" => ~rbErr[p]
        BY <1>2, PhaseFacts
      <3>2. DOMAIN results[p] \subseteq Nat \ {0}
        BY <1>1, <1>2, InsideFacts, LocalFacts DEF Holding, Undo
      <3>3. \A j \in DOMAIN plan[p] : ~ToUndo(p, j)
        BY <1>2, <2>1, <3>2 DEF ToUndo
      <3>4. QED
        BY <1>1, <1>2, <3>1, <3>3 DEF FilesInv, T!Restored, Holding, Undo
    <2>5. T!Abort(p)
      BY <1>1, <1>2, <1>7, <2>2, <2>3, <2>4, PhaseStep
      DEF ApplyFailed, Return, T!Abort, T!Leave
    <2>6. QED
      BY <2>5 DEF T!Next
  <1>8. QED
    BY <1>4, <1>5, <1>6, <1>7

\* A killed invocation.
LEMMA CrashImplements ==
    ASSUME FInv, FInv', NEW p \in Procs, Crash(p)
    PROVE  [T!Next]_(T!vars)
  <1>1. TypeOK /\ Failure(p)
    BY DEF FInv, IInv, TypeInv, Failure
  <1>2. pc'[p] = "crashed"
    BY <1>1 DEF Crash, Return, Goto, TypeOK
  <1>3. T!Die(p)
    BY <1>1, <1>2, PhaseStep, NextPhaseFacts
    DEF Crash, Return, T!Die, diskVars, histVars, lockHist
  <1>4. QED
    BY <1>3 DEF T!Next

\* The user or OpenCode writes opencode.json.
LEMMA EditImplements ==
    ASSUME FInv, FInv', Edit
    PROVE  [T!Next]_(T!vars)
  <1>1. TypeOK
    BY DEF FInv, IInv, TypeInv
  <1>2. UNCHANGED [q \in Procs |-> PhaseOf(q)]
    BY DEF Edit, callVars, PhaseOf
  <1>3. PICK c \in FileState \ {Absent, Truncated} :
          file' = [file EXCEPT ![Doc] = c]
    <2>1. file[Doc].has \in Document
      BY <1>1, FileStateFacts, InvocationAssumption DEF TypeOK
    <2>2. PICK e \in Entries :
            \/ file' = [file EXCEPT ![Doc] = Json(@.has \cup {e})]
            \/ file' = [file EXCEPT ![Doc] = Json(@.has \ {e})]
      BY DEF Edit
    <2>3. /\ file[Doc].has \cup {e} \in Document
          /\ file[Doc].has \ {e} \in Document
      BY <2>1 DEF Document
    <2>4. QED
      BY <2>2, <2>3, JsonWhole
  <1>4. T!WriteShared
    BY <1>2, <1>3 DEF Edit, T!WriteShared, T!Whole
  <1>5. QED
    BY <1>4 DEF T!Next

\* The initial files are any, and nobody is in a stage.
LEMMA InitImplements == Init => T!Init
  <1> SUFFICES ASSUME Init
               PROVE  T!Init
    OBVIOUS
  <1>1. TypeOK
    BY TypeInit DEF TypeInv
  <1>2. [q \in Procs |-> PhaseOf(q)] = [q \in Procs |-> "outside"]
    BY PhaseFacts DEF Init, Labels, Ended, Holding
  <1>3. QED
    BY <1>1, <1>2 DEF Init, TypeOK, T!Init

\* Every step of ApplyEngine is one of StageTransaction, or a stutter.
LEMMA NextImplements ==
    FInv /\ FInv' /\ [Next]_vars => [T!Next]_(T!vars)
  <1> SUFFICES ASSUME FInv, FInv', [Next]_vars
               PROVE  [T!Next]_(T!vars)
    OBVIOUS
  <1>1. ASSUME NEW p \in Procs, Start(p) \/ Progress(p) \/ Failure(p)
        PROVE  [T!Next]_(T!vars)
    BY <1>1, OutsideImplements, WritingImplements, UndoImplements,
       CrashImplements
    DEF Progress, Failure
  <1>2. CASE Edit
    BY <1>2, EditImplements
  <1>3. CASE UNCHANGED vars
    BY <1>3
    DEF vars, diskVars, callVars, histVars, lockHist, T!vars, PhaseOf
  <1>4. QED
    BY <1>1, <1>2, <1>3 DEF Next

\* Whatever fails or dies and whoever interferes, what the invocations do to
\* the files under the lock is a transaction
\* (ApplyTransaction.StagesAreTransactions).
THEOREM StagesImplementTransactions == Spec => StagesAreTransactions
  BY FInvInit, FInvNext, InitImplements, NextImplements, PTL
  DEF Spec, StagesAreTransactions, T!Spec

=============================================================================
