---------------------------- MODULE WatchdogProofs ----------------------------
(***************************************************************************)
(* The counter of the pane's state file bounds the restarts of a session,  *)
(* for any number of sessions, any OCA_WATCHDOG_MAX_BUMPS and any number   *)
(* of resets, and also when `reset` is killed in the middle.               *)
(***************************************************************************)
EXTENDS Watchdog, TLAPS

\* Every restart of the session that has the pane is counted in the file.
\* The file of another session may take its place: the counter is lost, but
\* then the session never gets the pane again without a reset of its count.
CountInv ==
    /\ BumpsBounded
    /\ \A s \in Sessions \ created : bumped[s] = 0
    /\ paneFile.kind = "state" => bumped[paneFile.session] <= paneFile.bumps

BInv == WatchdogTypeOK /\ CountInv

-----------------------------------------------------------------------------
(* The files that are written *)

\* The states that the programs write are states.
LEMMA WrittenFiles ==
    /\ NoFile \in PaneFiles /\ NoFile.kind = "none"
    /\ Truncated \in PaneFiles /\ Truncated.kind = "corrupt"
    /\ \A s \in Sessions :
         [kind |-> "state", session |-> s, bumps |-> 0,
          status |-> "absent"] \in PaneFiles
    /\ \A f \in PaneFiles :
         /\ HasBumps(f) => Bumped(f) \in PaneFiles
         /\ Exhausted(f) \in PaneFiles
         /\ ResetState(f) \in PaneFiles
  <1> USE WatchdogAssumption DEF PaneFiles
  <1>1. NoFile \in PaneFiles /\ NoFile.kind = "none"
    BY DEF NoFile
  <1>2. Truncated \in PaneFiles /\ Truncated.kind = "corrupt"
    BY DEF NoFile, Truncated
  <1>3. \A s \in Sessions :
          [kind |-> "state", session |-> s, bumps |-> 0,
           status |-> "absent"] \in PaneFiles
    OBVIOUS
  <1>4. ASSUME NEW f \in PaneFiles
        PROVE  /\ HasBumps(f) => Bumped(f) \in PaneFiles
               /\ Exhausted(f) \in PaneFiles
               /\ ResetState(f) \in PaneFiles
    <2>1. ASSUME HasBumps(f)
          PROVE  Bumped(f) \in PaneFiles
      <3>1. f.bumps + 1 \in 0..MaxBumps
        BY <1>4, <2>1 DEF HasBumps
      <3>2. QED
        BY <1>4, <3>1 DEF Bumped
    <2>2. Exhausted(f) \in PaneFiles
      BY <1>4 DEF Exhausted
    <2>3. ResetState(f) \in PaneFiles
      BY <1>4 DEF ResetState
    <2>4. QED
      BY <2>1, <2>2, <2>3
  <1>5. QED
    BY <1>1, <1>2, <1>3, <1>4

\* They change the fields that they name, and no others.
LEMMA WrittenFields ==
    \A f \in PaneFiles :
        /\ Bumped(f).kind = f.kind /\ Bumped(f).session = f.session
        /\ Bumped(f).bumps = f.bumps + 1
        /\ Exhausted(f).kind = f.kind /\ Exhausted(f).session = f.session
        /\ Exhausted(f).bumps = f.bumps
        /\ ResetState(f).kind = "state" /\ ResetState(f).session = f.session
        /\ ResetState(f).bumps = 0
  BY DEF PaneFiles, Bumped, Exhausted, ResetState

-----------------------------------------------------------------------------
(* Type correctness *)

\* At first there is no session and no file.
LEMMA TypeInit == WatchdogInit => WatchdogTypeOK
  BY WrittenFiles, WatchdogAssumption
  DEF WatchdogInit, WatchdogTypeOK, NoRestart, NoReset, NoSession

\* The plugin's steps keep the types.
LEMMA PluginTypes ==
    ASSUME WatchdogTypeOK, NEW s \in Sessions,
           \/ SessionCreated(s) \/ SessionDeleted(s) \/ SessionBusy(s)
           \/ SessionIdle(s) \/ IdleTimeout(s) \/ MessagePartUpdated
           \/ TuiExits \/ TuiStarts
    PROVE  WatchdogTypeOK'
  <1> USE WatchdogAssumption DEF WatchdogTypeOK
  <1>1. CASE SessionCreated(s)
    BY <1>1, WrittenFiles DEF SessionCreated, AtomicWrite
  <1>2. CASE SessionDeleted(s)
    BY <1>2, WrittenFiles DEF SessionDeleted, AtomicWrite
  <1>3. CASE SessionBusy(s) \/ SessionIdle(s) \/ IdleTimeout(s)
    BY <1>3 DEF SessionBusy, SessionIdle, IdleTimeout
  <1>4. CASE MessagePartUpdated \/ TuiExits \/ TuiStarts
    BY <1>4 DEF MessagePartUpdated, TuiExits, TuiStarts
  <1>5. QED
    BY <1>1, <1>2, <1>3, <1>4

\* So does the watchdog's, since it only counts when there are bumps left.
LEMMA CheckTypes ==
    ASSUME WatchdogTypeOK, NEW s \in Sessions, CheckHang(s)
    PROVE  WatchdogTypeOK'
  <1> USE WatchdogAssumption DEF WatchdogTypeOK
  <1>1. paneFile.kind = "state" /\ paneFile \in PaneFiles
    BY DEF CheckHang, Hung
  <1>2. CASE HasBumps(paneFile)
    <2>1. /\ Bumped(paneFile) \in PaneFiles
          /\ Bumped(paneFile).session = paneFile.session
      BY <1>1, <1>2, WrittenFiles, WrittenFields
    <2>2. restart' = [pc |-> "read", session |-> NoSession]
      BY <1>2 DEF CheckHang, NoRestart
    <2>3. /\ UNCHANGED <<tui, created, tracked, silent, resets>>
          /\ paneFile' = Bumped(paneFile)
          /\ reset' = [reset EXCEPT !.replaced = @ \/ reset.pc = "truncated"]
          /\ bumped' = [bumped EXCEPT ![s] = @ + 1]
      BY <1>2 DEF CheckHang, AtomicWrite
    <2>4. bumped' \in [Sessions -> Nat]
      BY <2>3
    <2>5. QED
      BY <1>1, <2>1, <2>2, <2>3, <2>4
  <1>3. CASE ~HasBumps(paneFile)
    <2>1. /\ Exhausted(paneFile) \in PaneFiles
          /\ Exhausted(paneFile).session = paneFile.session
      BY <1>1, WrittenFiles, WrittenFields
    <2>2. QED
      BY <1>1, <1>3, <2>1 DEF CheckHang, AtomicWrite
  <1>4. QED
    BY <1>2, <1>3

\* And the two commands'.
LEMMA CommandTypes ==
    ASSUME WatchdogTypeOK, RestartStep \/ ResetReads \/ ResetStep
    PROVE  WatchdogTypeOK'
  <1> USE WatchdogAssumption DEF WatchdogTypeOK
  <1>1. NoRestart \in [pc : {"none", "read", "check", "respawn"},
                       session : {NoSession} \cup Sessions]
    BY DEF NoRestart
  <1>2. /\ NoReset \in [pc : {"none", "read", "truncated"},
                        read : PaneFiles, replaced : BOOLEAN]
        /\ NoReset.pc = "none"
    BY WrittenFiles DEF NoReset
  <1>3. CASE RestartStep
    BY <1>1, <1>3
    DEF RestartStep, RestartReads, RestartContinues, PaneChecked, Respawn,
        RestartFails, RespawnPane, PaneFiles
  <1>4. CASE ResetReads
    BY <1>4 DEF ResetReads
  <1>5. CASE ResetTruncates
    BY <1>5, WrittenFiles DEF ResetTruncates
  <1>6. CASE ResetWrites
    <2>1. reset.read \in PaneFiles /\ reset.read.session \in created
      BY <1>6 DEF ResetWrites
    <2>2. /\ ResetState(reset.read) \in PaneFiles
          /\ ResetState(reset.read).session \in created
      BY <2>1, WrittenFiles, WrittenFields
    <2>3. bumped' \in [Sessions -> Nat]
      BY <1>6 DEF ResetWrites
    <2>4. QED
      BY <1>2, <1>6, <2>2, <2>3 DEF ResetWrites
  <1>7. CASE ResetKilled
    BY <1>2, <1>7 DEF ResetKilled
  <1>8. QED
    BY <1>3, <1>4, <1>5, <1>6, <1>7 DEF ResetStep

\* Every step keeps the types.
LEMMA TypeNext == WatchdogTypeOK /\ [WatchdogNext]_watchdogVars => WatchdogTypeOK'
  <1> SUFFICES ASSUME WatchdogTypeOK, [WatchdogNext]_watchdogVars
               PROVE  WatchdogTypeOK'
    OBVIOUS
  <1>1. CASE MessagePartUpdated \/ TuiExits \/ TuiStarts
    BY <1>1 DEF WatchdogTypeOK, MessagePartUpdated, TuiExits, TuiStarts
  <1>2. CASE UNCHANGED watchdogVars
    BY <1>2 DEF WatchdogTypeOK, watchdogVars
  <1>3. QED
    BY <1>1, <1>2, PluginTypes, CheckTypes, CommandTypes DEF WatchdogNext

\* What the fields of the pane's file and of the two commands hold
\* (Watchdog.WatchdogTypeOK).
THEOREM WatchdogTypeCorrect == WatchdogSpec => []WatchdogTypeOK
  BY TypeInit, TypeNext, PTL DEF WatchdogSpec

-----------------------------------------------------------------------------
(* The bound *)

\* Nothing is counted at first.
LEMMA CountInit == WatchdogInit => CountInv
  BY WatchdogAssumption
  DEF WatchdogInit, CountInv, BumpsBounded, NoFile

\* Every step keeps the count of the session that has the pane.
LEMMA CountNext == BInv /\ [WatchdogNext]_watchdogVars => CountInv'
  <1> SUFFICES ASSUME BInv, [WatchdogNext]_watchdogVars
               PROVE  CountInv'
    OBVIOUS
  <1> USE WatchdogAssumption DEF BInv, CountInv, BumpsBounded
  <1>1. /\ bumped \in [Sessions -> Nat] /\ created \subseteq Sessions
        /\ paneFile \in PaneFiles /\ paneFile.bumps \in 0..MaxBumps
        /\ paneFile.kind = "state" => paneFile.session \in created
    BY DEF WatchdogTypeOK, PaneFiles
  <1>2. ASSUME UNCHANGED <<bumped, created, paneFile>>
        PROVE  CountInv'
    BY <1>1, <1>2
  <1>3. ASSUME NEW s \in Sessions, SessionCreated(s)
        PROVE  CountInv'
    <2>1. /\ paneFile'.session = s /\ paneFile'.bumps = 0
          /\ bumped' = bumped /\ bumped[s] = 0
          /\ created' = created \cup {s}
      BY <1>3 DEF SessionCreated, AtomicWrite
    <2>2. QED
      BY <1>1, <2>1
  <1>4. ASSUME NEW s \in Sessions, SessionDeleted(s)
        PROVE  CountInv'
    BY <1>1, <1>4, WrittenFiles DEF SessionDeleted, AtomicWrite
  <1>5. ASSUME NEW s \in Sessions, CheckHang(s)
        PROVE  CountInv'
    <2>1. paneFile.kind = "state" /\ paneFile.session = s
      BY <1>5 DEF CheckHang, Hung
    <2>2. CASE HasBumps(paneFile)
      <3>1. /\ paneFile' = Bumped(paneFile) /\ created' = created
            /\ bumped' = [bumped EXCEPT ![s] = @ + 1]
        BY <1>5, <2>2 DEF CheckHang, AtomicWrite
      <3>2. bumped[s] + 1 <= MaxBumps
        BY <1>1, <2>1, <2>2 DEF HasBumps
      <3>3. QED
        BY <1>1, <2>1, <3>1, <3>2, WrittenFields
    <2>3. CASE ~HasBumps(paneFile)
      BY <1>1, <1>5, <2>3, WrittenFields DEF CheckHang, AtomicWrite
    <2>4. QED
      BY <2>2, <2>3
  <1>6. CASE ResetTruncates
    BY <1>1, <1>6, WrittenFiles DEF ResetTruncates
  <1>7. CASE ResetWrites
    <2>1. /\ reset.read \in PaneFiles /\ reset.read.session \in Sessions
          /\ reset.read.session \in created
      BY <1>7 DEF ResetWrites, WatchdogTypeOK
    <2>2. QED
      BY <1>1, <1>7, <2>1, WrittenFields DEF ResetWrites
  <1>8. QED
    BY <1>2, <1>3, <1>4, <1>5, <1>6, <1>7
    DEF WatchdogNext, RestartStep, ResetStep, SessionBusy, SessionIdle,
        IdleTimeout, MessagePartUpdated, TuiExits, TuiStarts, RestartReads,
        RestartContinues, PaneChecked, Respawn, RespawnPane, RestartFails,
        ResetReads, ResetKilled, watchdogVars

\* The watchdog restarts a session no more often than it may, until somebody
\* resets the counter (Watchdog.BumpsBounded).
THEOREM BumpsAreBounded == WatchdogSpec => []BumpsBounded
  <1>1. WatchdogInit => BInv
    BY TypeInit, CountInit DEF BInv
  <1>2. BInv /\ [WatchdogNext]_watchdogVars => BInv'
    BY TypeNext, CountNext DEF BInv
  <1>3. BInv => BumpsBounded
    BY DEF BInv, CountInv
  <1>4. QED
    BY <1>1, <1>2, <1>3, PTL DEF WatchdogSpec

=============================================================================
