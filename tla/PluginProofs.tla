----------------------------- MODULE PluginProofs -----------------------------
(***************************************************************************)
(* What the commands of PluginLifecycle do to stack.toml, to HEAD and to   *)
(* the build markers, for every number of them, whatever overlaps, fails   *)
(* and is edited: pins keep each other's refs, nothing but what the user   *)
(* has asked for is ever checked out, what maintenance has merged stays,   *)
(* and the rebuilds it has merged for, or begun, and not ended are found.  *)
(***************************************************************************)
EXTENDS PluginLifecycle, TLAPS, FiniteSetTheorems

-----------------------------------------------------------------------------
(* The inductive invariant *)

HistoryOK ==
    /\ asked \in [Plugins -> SUBSET Commits]
    /\ pinned \in [Plugins -> Refs]

\* What HEAD may be put at: the branch, or what was asked for before.
KnownRefs(p) == {Trunk} \cup asked[p]

CheckoutsInv ==
    \A p \in Plugins :
      repo[p].there => /\ repo[p].trunk \in asked[p]
                       /\ repo[p].origin \in Commits
                       /\ repo[p].at \in KnownRefs(p)

\* What a command is about to check out is in a checkout.
Present ==
    \A c \in Callers : pc[c] \in {"fetch", "checkout"} => repo[At(c)].there

\* Every ref in stack.toml, in a command that has loaded it, or about to be
\* written, was asked for.
RefsInv ==
    \A p \in Plugins :
      /\ file[p] \in KnownRefs(p)
      /\ \A c \in Callers :
           refs[c][p] \in KnownRefs(p) /\ next[c][p] \in KnownRefs(p)

\* A pin at work has the lock, so that what it has read is still there when it
\* writes.
PinInv(c) ==
    /\ op[c] = "pin" /\ pc[c] \notin Ended \cup {"lock"} => lock = c
    /\ \A i \in DOMAIN todo[c] : todo[c][i][1] = "pin" => op[c] = "pin"
    /\ pc[c] \in {"read", "rename"} => sha[c] \in asked[At(c)]
    /\ pc[c] = "rename" => next[c] = EditRef(c, At(c))

TypeInv == TypeOK /\ HistoryOK
RepoInv == CheckoutsInv /\ RefsInv /\ Present
PInv == TypeInv /\ RepoInv /\ PinsSurvive /\ \A c \in Callers : PinInv(c)

-----------------------------------------------------------------------------
(* Sequences of steps *)

\* The plugin that a command with work ahead is at.
LEMMA AtType ==
    ASSUME TypeOK, NEW c \in Callers, todo[c] # << >>
    PROVE  /\ At(c) \in Plugins /\ Step(c) \in Steps
           /\ 1 \in DOMAIN todo[c] /\ todo[c][1] = <<Step(c), At(c)>>
  <1>1. todo[c] \in Seq(Steps \X Plugins)
    BY DEF TypeOK
  <1>2. 1 \in DOMAIN todo[c]
    BY <1>1
  <1>3. todo[c][1] \in Steps \X Plugins
    BY <1>1, <1>2
  <1>4. QED
    BY <1>2, <1>3 DEF At, Step

\* The rest of the work is work, and none of its steps is new.
LEMMA TailType ==
    ASSUME TypeOK, NEW c \in Callers, todo[c] # << >>
    PROVE  /\ Tail(todo[c]) \in Seq(Steps \X Plugins)
           /\ \A i \in DOMAIN Tail(todo[c]) :
                i + 1 \in DOMAIN todo[c] /\ Tail(todo[c])[i] = todo[c][i + 1]
  <1>1. todo[c] \in Seq(Steps \X Plugins)
    BY DEF TypeOK
  <1>2. QED
    BY <1>1

\* Work and the two parts of a maintenance plan are sequences of steps.
LEMMA WorkType ==
    ASSUME NEW o \in AllOperations \ {"maintain"}
    PROVE  /\ Work(o) \in Seq(Steps \X Plugins)
           /\ \A i \in DOMAIN Work(o) :
                /\ Work(o)[i][1] = "pin" => o = "pin"
                /\ Work(o)[i][1] \notin {"merge", "rebuild"}
  <1>1. \A s \in Steps :
          [i \in DOMAIN Order |-> <<s, Order[i]>>] \in Seq(Steps \X Plugins)
    <2>1. Order \in Seq(Plugins) /\ DOMAIN Order = 1..Len(Order) /\ Len(Order) \in Nat
      BY PluginAssumption
    <2>2. \A i \in DOMAIN Order : Order[i] \in Plugins
      BY <2>1
    <2>3. QED
      BY <2>1, <2>2
  <1>2. CASE o = "apply"
    BY <1>1, <1>2 DEF Work, Steps
  <1>3. CASE o = "pin"
    BY <1>1, <1>3 DEF Work, Steps
  <1>4. CASE o \in {"update", "force"}
    BY <1>1, <1>4 DEF Work, Steps
  <1>5. QED
    BY <1>2, <1>3, <1>4 DEF AllOperations

LEMMA PluginsFinite == IsFiniteSet(Plugins)
  <1>1. DOMAIN Order = 1..Len(Order) /\ Len(Order) \in Nat
    BY PluginAssumption
  <1>2. IsFiniteSet(1..Len(Order))
    BY <1>1, FS_Interval
  <1>3. Order \in Surjection(1..Len(Order), Plugins)
    <2>1. Order \in [1..Len(Order) -> Plugins]
      BY <1>1, PluginAssumption
    <2>2. Plugins = {Order[i] : i \in 1..Len(Order)}
      BY <1>1, PluginAssumption DEF Range
    <2>3. QED
      BY <2>1, <2>2 DEF Surjection
  <1>4. QED
    BY <1>2, <1>3, FS_Surjection

\* What a maintenance plan has: the merge that is due, and rebuilds.
Due(S, merge) == {x \in {<<"merge", Advance>>} : merge} \cup {"rebuild"} \X S

LEMMA MaintenanceWork ==
    ASSUME NEW S \in SUBSET Plugins, NEW stale \in SetToSeqs(S), NEW merge \in BOOLEAN
    PROVE  (IF merge THEN << <<"merge", Advance>> >> ELSE << >>)
           \o [i \in DOMAIN stale |-> <<"rebuild", stale[i]>>] \in Seq(Due(S, merge))
  <1> DEFINE first == IF merge THEN << <<"merge", Advance>> >> ELSE << >>
             second == [i \in DOMAIN stale |-> <<"rebuild", stale[i]>>]
  <1>1. Cardinality(S) \in Nat
    BY PluginsFinite, FS_Subset, FS_CardinalityType
  <1>2. stale \in [1..Cardinality(S) -> S]
    BY DEF SetToSeqs
  <1>3. second \in Seq(Due(S, merge))
    BY <1>1, <1>2 DEF Due
  <1>4. first \in Seq(Due(S, merge))
    <2>1. merge => <<"merge", Advance>> \in Due(S, merge)
      BY DEF Due
    <2>2. merge => << <<"merge", Advance>> >> \in Seq(Due(S, merge))
      <3>1. \A D : \A x \in D : << x >> \in Seq(D)
        OBVIOUS
      <3>2. QED
        BY <2>1, <3>1
    <2>3. << >> \in Seq(Due(S, merge))
      OBVIOUS
    <2>4. QED
      BY <2>2, <2>3
  <1>5. first \o second \in Seq(Due(S, merge))
    BY <1>3, <1>4
  <1>6. QED
    BY <1>5

LEMMA MaintenanceType ==
    ASSUME NEW S \in SUBSET Plugins, NEW stale \in SetToSeqs(S), NEW merge \in BOOLEAN
    PROVE  LET work == (IF merge THEN << <<"merge", Advance>> >> ELSE << >>)
                       \o [i \in DOMAIN stale |-> <<"rebuild", stale[i]>>]
           IN  /\ work \in Seq(Steps \X Plugins)
               /\ \A i \in DOMAIN work :
                    /\ work[i][1] # "pin"
                    /\ work[i] \in Due(S, merge)
  <1>1. Due(S, merge) \subseteq ({"merge", "rebuild"} \X Plugins)
    BY PluginAssumption DEF Due
  <1>2. \A w \in Seq(Due(S, merge)) :
          /\ w \in Seq(Steps \X Plugins)
          /\ \A i \in DOMAIN w : w[i] \in Due(S, merge) /\ w[i][1] # "pin"
    BY <1>1 DEF Steps
  <1>3. QED
    BY <1>2, MaintenanceWork

-----------------------------------------------------------------------------
(* Type correctness *)

\* The commits that Git may put HEAD at are commits.
LEMMA RefsAreCommits ==
    ASSUME TypeInv, NEW p \in Plugins
    PROVE  /\ KnownRefs(p) \subseteq Refs
           /\ KnownRefs(p) \ {Trunk} \subseteq Commits
           /\ Trunk \notin Commits /\ None \notin Commits
           /\ Published[remote] \in Commits
  BY GitAssumption DEF TypeInv, TypeOK, HistoryOK, KnownRefs, Refs

Checkout1 == [there : BOOLEAN, trunk : {None} \cup Commits,
              origin : {None} \cup Commits, at : {None, Trunk} \cup Commits,
              dirty : BOOLEAN]

\* What a command that moves on leaves of its work.
LEMMA DropType ==
    ASSUME TypeOK, NEW c \in Callers, todo[c] # << >>, Drop(c)
    PROVE  /\ todo' \in [Callers -> Seq(Steps \X Plugins)]
           /\ pc' \in [Callers -> Labels]
           /\ pc'[c] = "next"
           /\ \A d \in Callers \ {c} : pc'[d] = pc[d] /\ todo'[d] = todo[d]
  BY TailType DEF TypeOK, Drop, Goto, Labels

\* A command that is not at one of these labels has a plugin to work on.
LEMMA AtWork ==
    ASSUME TypeOK, NEW c \in Callers,
           \/ pc[c] \notin Ended \cup {"lock", "next"}
           \/ pc[c] = "next" /\ todo[c] # << >>
    PROVE  /\ todo[c] # << >>
           /\ At(c) \in Plugins /\ Step(c) \in Steps
  BY AtType DEF TypeOK

\* A checkout that moves to a commit keeps its type.
LEMMA MoveType ==
    ASSUME TypeOK, NEW p \in Plugins, NEW r \in Checkout1,
           r.there => HeadOf(r) \in Commits, repo' = [repo EXCEPT ![p] = r]
    PROVE  /\ repo' \in [Plugins -> Checkout1]
           /\ \A q \in Plugins : repo'[q].there => HeadAt(q)' \in Commits
  BY DEF TypeOK, HeadAt, HeadOf, Checkout1

LEMMA TypeInit == Init => TypeInv
  <1> SUFFICES ASSUME Init PROVE TypeInv
    OBVIOUS
  <1>1. Published[1] \in Commits /\ 1 \in 1..Len(Published)
    BY GitAssumption
  <1>2. remote \in 1..Len(Published) /\ file \in [Plugins -> Refs]
    BY <1>1 DEF Init, Refs
  <1>3. repo \in [Plugins -> Checkout1]
        /\ \A p \in Plugins : repo[p].there => HeadAt(p) \in Commits
    BY <1>1 DEF Init, Checkout1, CloneAt, Absent, HeadAt, HeadOf
  <1>4. todo \in [Callers -> Seq(Steps \X Plugins)]
    BY DEF Init
  <1>5. HistoryOK
    BY <1>1, <1>2 DEF Init, HistoryOK
  <1>6. pc \in [Callers -> Labels] /\ op \in [Callers -> AllOperations]
    BY DEF Init, Labels, Ended, AllOperations
  <1>7. lock \notin Callers
    BY GitAssumption DEF Init
  <1>8. MaxRuns \in Nat /\ dist \in SUBSET Plugins
    BY PluginAssumption DEF Init
  <1>9. QED
    BY <1>2, <1>3, <1>4, <1>5, <1>6, <1>7, <1>8
    DEF Init, TypeInv, TypeOK, Checkout1, Ended

\* The steps that touch a command only: its place, work and what it knows.
LEMMA LocalType ==
    ASSUME TypeInv, NEW c \in Callers,
           \/ Quit(c) \/ Begin(c) \/ BeginMaintain(c) \/ AcquireApplyLock(c)
           \/ Finish(c) \/ Inspect(c) \/ SkipPinned(c) \/ CheckMerge(c)
    PROVE  TypeInv'
  <1> USE DEF Goto, gitVars, localVars, histVars
  <1>1. TypeOK /\ HistoryOK /\ None \notin Callers
    BY GitAssumption DEF TypeInv
  <1>2. \A l \in Labels : [pc EXCEPT ![c] = l] \in [Callers -> Labels]
    BY <1>1 DEF TypeOK
  <1>3. CASE Quit(c)
    BY <1>1, <1>2, <1>3
    DEF Quit, Release, TypeInv, TypeOK, HistoryOK, HeadAt, Labels, Ended
  <1>4. ASSUME NEW o \in Operations, NEW work \in Seq(Steps \X Plugins),
               Start(c, o, work)
        PROVE  TypeInv'
    <2>1. o \in AllOperations
      BY PluginAssumption
    <2>2. runs'[c] \in 0..MaxRuns
      BY <1>1, <1>4, PluginAssumption DEF Start, TypeOK
    <2>3. QED
      BY <1>1, <1>2, <1>4, <2>1, <2>2
      DEF Start, TypeInv, TypeOK, HistoryOK, HeadAt, Labels, Ended
  <1>5. CASE Begin(c)
    <2>1. PICK o \in Operations \ {"maintain"} : Start(c, o, Work(o))
      BY <1>5 DEF Begin
    <2>2. Work(o) \in Seq(Steps \X Plugins)
      BY <2>1, WorkType, PluginAssumption
    <2>3. QED
      BY <1>4, <2>1, <2>2
  <1>6. CASE BeginMaintain(c)
    <2> DEFINE S == {p \in Plugins : repo[p].there /\ ~Fresh(p)}
    <2>1. PICK released \in BOOLEAN, stale \in SetToSeqs(S) :
            Start(c, "maintain",
                  (IF released /\ repo[Advance].there
                   THEN << <<"merge", Advance>> >> ELSE << >>)
                  \o [i \in DOMAIN stale |-> <<"rebuild", stale[i]>>])
      BY <1>6 DEF BeginMaintain
    <2>2. repo[Advance].there \in BOOLEAN
      BY <1>1, PluginAssumption DEF TypeOK
    <2>3. "maintain" \in Operations
      BY <2>1 DEF Start
    <2>4. S \in SUBSET Plugins /\ (released /\ repo[Advance].there) \in BOOLEAN
      BY <2>2
    <2>5. ((IF released /\ repo[Advance].there
            THEN << <<"merge", Advance>> >> ELSE << >>)
           \o [i \in DOMAIN stale |-> <<"rebuild", stale[i]>>])
          \in Seq(Steps \X Plugins)
      BY <2>4, MaintenanceType
    <2>6. QED
      BY <1>4, <2>1, <2>3, <2>5
  <1>7. CASE AcquireApplyLock(c)
    BY <1>1, <1>2, <1>7
    DEF AcquireApplyLock, TypeInv, TypeOK, HistoryOK, HeadAt, Labels, Ended
  <1>8. CASE Finish(c)
    BY <1>1, <1>2, <1>8
    DEF Finish, Release, TypeInv, TypeOK, HistoryOK, HeadAt, Labels, Ended
  <1>9. CASE Inspect(c)
    BY <1>1, <1>2, <1>9
    DEF Inspect, At1, TypeInv, TypeOK, HistoryOK, HeadAt, Labels, Ended
  <1>10. CASE SkipPinned(c)
    <2>1. todo[c] # << >>
      BY <1>10 DEF SkipPinned, At1
    <2>2. QED
      BY <1>1, <1>10, <2>1, DropType
      DEF SkipPinned, At1, TypeInv, TypeOK, HistoryOK, HeadAt, Ended
  <1>11. CASE CheckMerge(c)
    BY <1>1, <1>2, <1>11
    DEF CheckMerge, At1, TypeInv, TypeOK, HistoryOK, HeadAt, Labels, Ended
  <1>12. QED
    BY <1>3, <1>5, <1>6, <1>7, <1>8, <1>9, <1>10, <1>11

\* The steps that touch a checkout: what HEAD is put at is a commit.
LEMMA CheckoutType ==
    ASSUME TypeInv, RepoInv, NEW c \in Callers,
           Clone(c) \/ Fetch(c) \/ Checkout(c) \/ Merge(c)
    PROVE  TypeInv'
  <1> USE DEF Goto, gitVars, localVars, histVars
  <1> DEFINE p == At(c)
  <1>1. TypeOK /\ HistoryOK
    BY DEF TypeInv
  <1>2. \A l \in Labels : [pc EXCEPT ![c] = l] \in [Callers -> Labels]
    BY <1>1 DEF TypeOK
  <1>3. todo[c] # << >> /\ p \in Plugins
    BY <1>1, AtWork DEF Clone, Fetch, Checkout, Merge, At1, Ended
  <1>4. repo[p] \in Checkout1 /\ refs[c][p] \in Refs
    BY <1>1, <1>3 DEF TypeOK, Checkout1
  <1>5. /\ Published[remote] \in Commits /\ Trunk \notin Commits
        /\ asked[p] \subseteq Commits
    BY <1>1, <1>3, RefsAreCommits DEF HistoryOK
  <1>6. CASE Clone(c)
    <2>1. CloneAt(Published[remote]) \in Checkout1
          /\ HeadOf(CloneAt(Published[remote])) \in Commits
      BY <1>5 DEF CloneAt, Checkout1, HeadOf
    <2>2. repo' \in [Plugins -> Checkout1]
          /\ \A q \in Plugins : repo'[q].there => HeadAt(q)' \in Commits
      BY <1>1, <1>3, <1>6, <2>1 DEF Clone, TypeOK, Checkout1, HeadAt
    <2>3. asked' \in [Plugins -> SUBSET Commits] /\ dist' \in SUBSET Plugins
      BY <1>1, <1>3, <1>5, <1>6 DEF Clone, HistoryOK, TypeOK
    <2>4. QED
      BY <1>1, <1>2, <1>3, <1>6, <2>2, <2>3
      DEF Clone, TypeInv, TypeOK, HistoryOK, Checkout1, Labels, Ended
  <1>7. CASE Fetch(c)
    <2>1. repo' \in [Plugins -> Checkout1]
          /\ \A q \in Plugins : repo'[q].there => HeadAt(q)' \in Commits
      BY <1>1, <1>3, <1>5, <1>7 DEF Fetch, TypeOK, Checkout1, HeadAt, HeadOf
    <2>2. QED
      BY <1>1, <1>2, <1>3, <1>7, <2>1
      DEF Fetch, TypeInv, TypeOK, HistoryOK, Checkout1, Labels, Ended
  <1>8. ASSUME NEW r \in Checkout1, repo' = [repo EXCEPT ![p] = r],
               repo[p].there => HeadOf(r) \in Commits, r.there = repo[p].there
        PROVE  /\ repo' \in [Plugins -> Checkout1]
               /\ \A q \in Plugins : repo'[q].there => HeadAt(q)' \in Commits
    BY <1>1, <1>3, <1>8, MoveType
  <1>9. CASE Checkout(c)
    <2> DEFINE ref == refs[c][p]
               r == IF Step(c) = "update" THEN UpdateRef(repo[p], ref)
                    ELSE CheckoutRef(repo[p], ref)
    <2>1. repo[p].there =>
            repo[p].trunk \in Commits /\ repo[p].origin \in Commits
      BY <1>3, <1>5 DEF RepoInv, CheckoutsInv
    <2>2. ref \in {Trunk} \cup Commits
      BY <1>4 DEF Refs
    <2>3. r \in Checkout1 /\ r.there = repo[p].there
          /\ (repo[p].there => HeadOf(r) \in Commits)
      BY <1>4, <1>5, <2>1, <2>2 DEF UpdateRef, CheckoutRef, HeadOf, Checkout1
    <2>4. repo' = [repo EXCEPT ![p] = r]
      BY <1>9 DEF Checkout
    <2>5. repo' \in [Plugins -> Checkout1]
          /\ (\A q \in Plugins : repo'[q].there => HeadAt(q)' \in Commits)
      BY <1>8, <2>3, <2>4
    <2>6. asked' \in [Plugins -> SUBSET Commits]
      <3>1. repo[p].there
        BY <1>9 DEF Checkout, RepoInv, Present
      <3>2. HeadOf(r) \in Commits
        BY <2>3, <3>1
      <3>3. asked' = IF Step(c) = "update"
                     THEN [asked EXCEPT ![p] = @ \cup {HeadOf(r)}] ELSE asked
        BY <1>9 DEF Checkout
      <3>4. QED
        BY <1>1, <1>3, <3>2, <3>3 DEF HistoryOK
    <2>7. QED
      BY <1>1, <1>2, <1>3, <1>9, <2>5, <2>6
      DEF Checkout, TypeInv, TypeOK, HistoryOK, Checkout1, Labels, Ended
  <1>10. CASE Merge(c)
    <2> DEFINE k == IF FastForward(HeadOf(repo[p]), Change) THEN Change
                    ELSE HeadOf(repo[p])
               r == IF repo[p].at = Trunk THEN [repo[p] EXCEPT !.trunk = k]
                    ELSE [repo[p] EXCEPT !.at = k]
    <2>1. Change \in Commits
      BY GitAssumption
    <2>2. repo[p].there => HeadOf(repo[p]) \in Commits
      BY <1>1, <1>3 DEF TypeOK, HeadAt
    <2>3. k \in {None} \cup Commits \cup {None}
      BY <1>4, <1>5, <2>1 DEF Checkout1, HeadOf
    <2>4. r \in Checkout1 /\ r.there = repo[p].there
          /\ (repo[p].there => HeadOf(r) \in Commits)
      BY <1>4, <1>5, <2>1, <2>2, <2>3 DEF HeadOf, Checkout1
    <2>5. repo' = [repo EXCEPT ![p] = r]
      BY <1>10 DEF Merge, HeadAt
    <2>6. repo' \in [Plugins -> Checkout1]
          /\ (\A q \in Plugins : repo'[q].there => HeadAt(q)' \in Commits)
      BY <1>8, <2>4, <2>5
    <2>7. asked' \in [Plugins -> SUBSET Commits]
      BY <1>1, <1>3, <1>10, <2>1 DEF Merge, HistoryOK
    <2>8. QED
      BY <1>1, <1>10, <2>6, <2>7, <1>3, DropType
      DEF Merge, TypeInv, TypeOK, HistoryOK, Checkout1, Ended
  <1>11. QED
    BY <1>6, <1>7, <1>9, <1>10

\* The steps of a build and of a pin, and those of others.
LEMMA OtherType ==
    ASSUME TypeInv, NEW c \in Callers, PinInv(c),
           \/ BuildStarts(c) \/ BuildEnds(c) \/ WriteBuildMarker(c)
           \/ CapturePin(c) \/ ReadStack(c) \/ WritePin(c)
    PROVE  TypeInv'
  <1> USE DEF Goto, gitVars, localVars, histVars
  <1> DEFINE p == At(c)
  <1>1. TypeOK /\ HistoryOK
    BY DEF TypeInv
  <1>2. \A l \in Labels : [pc EXCEPT ![c] = l] \in [Callers -> Labels]
    BY <1>1 DEF TypeOK
  <1>3. todo[c] # << >> /\ p \in Plugins
    BY <1>1, AtWork
    DEF BuildStarts, BuildEnds, WriteBuildMarker, CapturePin, ReadStack,
        WritePin, At1, Ended
  <1>4. HeadAt(p) \in {None} \cup Commits
    BY <1>1, <1>3, GitAssumption DEF TypeOK, HeadAt, HeadOf
  <1>5. CASE BuildStarts(c)
    BY <1>1, <1>2, <1>3, <1>4, <1>5
    DEF BuildStarts, At1, TypeInv, TypeOK, HistoryOK, HeadAt, Labels, Ended
  <1>6. CASE BuildEnds(c)
    <2>1. dist' \in SUBSET Plugins
      BY <1>1, <1>3, <1>6 DEF BuildEnds, TypeOK
    <2>2. CASE Step(c) = "rebuild"
      <3>1. pc' = [pc EXCEPT ![c] = "mark"] /\ todo' = todo
        BY <1>6, <2>2 DEF BuildEnds
      <3>2. QED
        BY <1>1, <1>2, <1>3, <1>6, <2>1, <3>1
        DEF BuildEnds, TypeInv, TypeOK, HistoryOK, HeadAt, Labels, Ended
    <2>3. CASE Step(c) # "rebuild"
      BY <1>1, <1>3, <1>6, <2>1, <2>3, DropType
      DEF BuildEnds, TypeInv, TypeOK, HistoryOK, HeadAt, Ended
    <2>4. QED
      BY <2>2, <2>3
  <1>7. CASE WriteBuildMarker(c)
    BY <1>1, <1>3, <1>4, <1>7, DropType
    DEF WriteBuildMarker, MarkedCommit, TypeInv, TypeOK, HistoryOK, HeadAt, Ended
  <1>8. CASE CapturePin(c)
    <2>1. sha' \in [Callers -> {None} \cup Commits]
      BY <1>1, <1>4, <1>8 DEF CapturePin, TypeOK
    <2>2. CASE refs[c][p] = HeadAt(p)
      BY <1>1, <1>3, <1>8, <2>1, <2>2, DropType
      DEF CapturePin, At1, TypeInv, TypeOK, HistoryOK, HeadAt, Ended
    <2>3. CASE refs[c][p] # HeadAt(p)
      <3>1. pc' = [pc EXCEPT ![c] = "read"] /\ todo' = todo
        BY <1>8, <2>3 DEF CapturePin
      <3>2. lock = c
        BY <1>1, <1>3, <1>8, AtType DEF CapturePin, At1, PinInv, Ended
      <3>3. QED
        BY <1>1, <1>2, <1>3, <1>8, <2>1, <3>1, <3>2
        DEF CapturePin, At1, TypeInv, TypeOK, HistoryOK, HeadAt, Labels, Ended
    <2>4. QED
      BY <2>2, <2>3
  <1>9. CASE ReadStack(c)
    <2>1. sha[c] \in Commits
      BY <1>1, <1>3, <1>9 DEF ReadStack, PinInv, HistoryOK
    <2>2. next' \in [Callers -> [Plugins -> Refs]]
      BY <1>1, <1>3, <1>9, <2>1 DEF ReadStack, EditRef, TypeOK, Refs
    <2>3. lock = c
      BY <1>1, <1>9 DEF ReadStack, TypeOK
    <2>4. QED
      BY <1>1, <1>2, <1>3, <1>9, <2>2, <2>3
      DEF ReadStack, TypeInv, TypeOK, HistoryOK, HeadAt, Labels, Ended
  <1>10. CASE WritePin(c)
    <2>1. sha[c] \in Refs
      BY <1>1, <1>3, <1>10 DEF WritePin, PinInv, HistoryOK, Refs
    <2>2. file' \in [Plugins -> Refs] /\ pinned' \in [Plugins -> Refs]
      BY <1>1, <1>3, <1>10, <2>1 DEF WritePin, TypeOK, HistoryOK
    <2>3. QED
      BY <1>1, <1>3, <1>10, <2>2, DropType
      DEF WritePin, TypeInv, TypeOK, HistoryOK, HeadAt, Ended
  <1>11. QED
    BY <1>5, <1>6, <1>7, <1>8, <1>9, <1>10

\* The remote and the user.
LEMMA OutsideType ==
    ASSUME TypeInv,
           Publish \/ \E p \in Edited : EditCheckout(p)
    PROVE  TypeInv'
  <1> USE DEF localVars, histVars
  <1>1. TypeOK /\ HistoryOK
    BY DEF TypeInv
  <1>2. CASE Publish
    <2>1. Len(Published) \in Nat
      BY GitAssumption
    <2>2. remote' \in 1..Len(Published)
      BY <1>1, <1>2, <2>1 DEF Publish, TypeOK
    <2>3. QED
      BY <1>1, <1>2, <2>2 DEF Publish, TypeInv, TypeOK, HistoryOK, HeadAt
  <1>3. ASSUME NEW p \in Edited, EditCheckout(p)
        PROVE  TypeInv'
    <2>1. p \in Plugins
      BY PluginAssumption
    <2>2. repo' \in [Plugins -> Checkout1]
          /\ \A q \in Plugins : repo'[q].there => HeadAt(q)' \in Commits
      <3> DEFINE r == [repo[p] EXCEPT !.dirty = ~@]
      <3>1. repo[p] \in Checkout1
        BY <1>1, <2>1 DEF TypeOK, Checkout1
      <3>2. (~repo[p].dirty) \in BOOLEAN
        OBVIOUS
      <3>3. r \in Checkout1
        BY <3>1, <3>2 DEF Checkout1
      <3>4. r.there = repo[p].there /\ r.at = repo[p].at /\ r.trunk = repo[p].trunk
        BY <3>1 DEF Checkout1
      <3>5. repo' = [repo EXCEPT ![p] = r]
        BY <1>3 DEF EditCheckout
      <3>6. QED
        BY <1>1, <2>1, <3>3, <3>4, <3>5 DEF TypeOK, Checkout1, HeadAt, HeadOf
    <2>3. QED
      BY <1>1, <1>3, <2>2
      DEF EditCheckout, TypeInv, TypeOK, HistoryOK, Checkout1
  <1>4. QED
    BY <1>2, <1>3

LEMMA TypeNext ==
    ASSUME TypeInv, RepoInv, \A c \in Callers : PinInv(c), [Next]_vars
    PROVE  TypeInv'
  <1>1. CASE UNCHANGED vars
    BY <1>1
    DEF vars, gitVars, localVars, histVars, TypeInv, TypeOK, HistoryOK, HeadAt
  <1>2. ASSUME NEW c \in Callers, Command(c)
        PROVE  TypeInv'
    BY <1>2, LocalType, CheckoutType, OtherType DEF Command
  <1>3. QED
    BY <1>1, <1>2, OutsideType DEF Next
-----------------------------------------------------------------------------
(* HEAD and refs *)

\* What was asked for stays asked for.
LEMMA AskedGrows ==
    ASSUME TypeInv, [Next]_vars
    PROVE  \A p \in Plugins : asked[p] \subseteq asked'[p]
  <1> USE DEF gitVars, localVars, histVars
  <1>1. asked \in [Plugins -> SUBSET Commits]
    BY DEF TypeInv, HistoryOK
  <1>2. CASE UNCHANGED asked
    BY <1>2
  <1>3. ASSUME NEW c \in Callers, Clone(c) \/ Checkout(c) \/ Merge(c)
        PROVE  \A p \in Plugins : asked[p] \subseteq asked'[p]
    BY <1>1, <1>3 DEF Clone, Checkout, Merge
  <1>4. ASSUME NEW c \in Callers, Command(c)
        PROVE  UNCHANGED asked \/ Clone(c) \/ Checkout(c) \/ Merge(c)
    BY <1>4
    DEF Command, Begin, BeginMaintain, Start, AcquireApplyLock, Finish, Inspect,
        SkipPinned, Fetch, BuildStarts, BuildEnds, WriteBuildMarker, CapturePin,
        ReadStack, WritePin, CheckMerge, Quit
  <1>5. QED
    BY <1>2, <1>3, <1>4 DEF Next, vars, Publish, EditCheckout

\* HEAD is put at a commit that was asked for, and the branch as well.
LEMMA CheckoutsNext ==
    ASSUME TypeInv, RepoInv, TypeInv', [Next]_vars
    PROVE  CheckoutsInv'
  <1> USE DEF gitVars, localVars, histVars
  <1>1. /\ \A p \in Plugins : asked[p] \subseteq asked'[p]
        /\ CheckoutsInv /\ RefsInv /\ Present /\ TypeOK /\ HistoryOK
    BY AskedGrows DEF RepoInv, TypeInv
  <1>2. CASE UNCHANGED repo
    BY <1>1, <1>2 DEF CheckoutsInv, KnownRefs
  <1>3. ASSUME NEW p \in Plugins, NEW r \in Checkout1,
               repo' = [repo EXCEPT ![p] = r],
               r.there => /\ r.trunk \in asked'[p]
                          /\ r.origin \in Commits
                          /\ r.at \in KnownRefs(p)'
        PROVE  CheckoutsInv'
    BY <1>1, <1>3 DEF CheckoutsInv, KnownRefs, TypeOK, Checkout1
  <1>4. \A p \in Plugins : repo[p] \in Checkout1
    BY <1>1 DEF TypeOK, Checkout1
  <1>5. ASSUME NEW c \in Callers, Clone(c) \/ Fetch(c) \/ Checkout(c) \/ Merge(c)
        PROVE  CheckoutsInv'
    <2> DEFINE p == At(c)
    <2>1. todo[c] # << >> /\ p \in Plugins
      BY <1>1, <1>5, AtWork DEF Clone, Fetch, Checkout, Merge, At1, Ended
    <2>2. Published[remote] \in Commits /\ Trunk \notin Commits
      BY <2>1, RefsAreCommits
    <2>3. CASE Clone(c)
      <3>1. CloneAt(Published[remote]) \in Checkout1
        BY <2>2 DEF CloneAt, Checkout1
      <3>2. Published[remote] \in asked'[p]
        BY <1>1, <2>1, <2>3 DEF Clone, HistoryOK
      <3>3. QED
        BY <1>3, <2>1, <2>2, <2>3, <3>1, <3>2 DEF Clone, CloneAt, KnownRefs
    <2>4. CASE Fetch(c)
      <3> DEFINE r == [repo[p] EXCEPT !.origin = Published[remote]]
      <3>1. r \in Checkout1 /\ repo' = [repo EXCEPT ![p] = r]
        BY <1>4, <2>1, <2>2, <2>4 DEF Fetch, Checkout1
      <3>2. r.there = repo[p].there /\ r.trunk = repo[p].trunk
            /\ r.origin = Published[remote] /\ r.at = repo[p].at
        BY <1>4, <2>1 DEF Checkout1
      <3>3. QED
        BY <1>1, <1>3, <2>1, <2>2, <3>1, <3>2 DEF CheckoutsInv, KnownRefs
    <2>5. CASE Checkout(c)
      <3> DEFINE ref == refs[c][p]
                 r == IF Step(c) = "update" THEN UpdateRef(repo[p], ref)
                      ELSE CheckoutRef(repo[p], ref)
      <3>1. repo[p].there
        BY <2>5, <1>1 DEF Checkout, Present
      <3>2. repo[p].trunk \in asked[p] /\ repo[p].origin \in Commits
        BY <1>1, <2>1, <3>1 DEF CheckoutsInv
      <3>3. ref \in {Trunk} \cup asked[p] /\ asked[p] \subseteq Commits
        BY <1>1, <2>1 DEF RefsInv, KnownRefs, HistoryOK
      <3>4. r \in Checkout1 /\ r.trunk = repo[p].trunk /\ r.origin = repo[p].origin
            /\ r.at = IF Step(c) = "update" /\ ref = Trunk THEN repo[p].origin ELSE ref
        BY <1>4, <2>1, <3>2, <3>3 DEF UpdateRef, CheckoutRef, Checkout1
      <3>5. repo' = [repo EXCEPT ![p] = r]
            /\ (Step(c) = "update" => HeadOf(r) \in asked'[p])
        BY <1>1, <2>1, <2>5 DEF Checkout, HistoryOK
      <3>6. r.at \in {Trunk} \cup asked'[p]
        BY <1>1, <2>1, <2>2, <3>2, <3>3, <3>4, <3>5 DEF HeadOf
      <3>7. QED
        BY <1>1, <1>3, <2>1, <3>2, <3>4, <3>5, <3>6 DEF KnownRefs
    <2>6. CASE Merge(c)
      <3> DEFINE k == IF FastForward(HeadOf(repo[p]), Change) THEN Change
                      ELSE HeadOf(repo[p])
                 r == IF repo[p].at = Trunk THEN [repo[p] EXCEPT !.trunk = k]
                      ELSE [repo[p] EXCEPT !.at = k]
      <3>1. repo' = [repo EXCEPT ![p] = r] /\ Change \in asked'[p]
        BY <1>1, <2>1, <2>6 DEF Merge, HeadAt, HistoryOK
      <3>2. Change \in Commits /\ HeadOf(repo[p]) \in {None} \cup Commits
            /\ asked'[p] \subseteq Commits
        BY <1>1, <1>4, <2>1, GitAssumption, RefsAreCommits
        DEF HeadOf, Checkout1, TypeInv, HistoryOK
      <3>3. r \in Checkout1 /\ r.there = repo[p].there /\ r.origin = repo[p].origin
            /\ r.trunk = (IF repo[p].at = Trunk THEN k ELSE repo[p].trunk)
            /\ r.at = (IF repo[p].at = Trunk THEN Trunk ELSE k)
        BY <1>4, <2>1, <3>2 DEF Checkout1
      <3>4. repo[p].there => k \in asked'[p]
        BY <1>1, <2>1, <3>1 DEF CheckoutsInv, KnownRefs, HeadOf
      <3>5. QED
        BY <1>1, <1>3, <2>1, <3>1, <3>3, <3>4 DEF CheckoutsInv, KnownRefs
    <2>7. QED
      BY <1>5, <2>3, <2>4, <2>5, <2>6
  <1>6. ASSUME NEW p \in Edited, EditCheckout(p)
        PROVE  CheckoutsInv'
    <2>1. p \in Plugins
      BY PluginAssumption
    <2>2. QED
      BY <1>1, <1>6, <2>1 DEF EditCheckout, CheckoutsInv, KnownRefs, TypeOK
  <1>7. ASSUME NEW c \in Callers, Command(c)
        PROVE  UNCHANGED repo \/ Clone(c) \/ Fetch(c) \/ Checkout(c) \/ Merge(c)
    BY <1>7
    DEF Command, Begin, BeginMaintain, Start, AcquireApplyLock, Finish, Inspect,
        SkipPinned, BuildStarts, BuildEnds, WriteBuildMarker, CapturePin,
        ReadStack, WritePin, CheckMerge, Quit
  <1>8. QED
    BY <1>2, <1>5, <1>6, <1>7 DEF Next, vars, Publish

\* Refs are read from stack.toml, written back, or captured from HEAD.
LEMMA RefsNext ==
    ASSUME TypeInv, RepoInv, \A c \in Callers : PinInv(c), [Next]_vars
    PROVE  RefsInv'
  <1> USE DEF gitVars, localVars, histVars
  <1>1. /\ \A p \in Plugins : asked[p] \subseteq asked'[p]
        /\ RefsInv /\ TypeOK
    BY AskedGrows DEF RepoInv, TypeInv
  <1>2. CASE UNCHANGED <<file, refs, next>>
    BY <1>1, <1>2 DEF RefsInv, KnownRefs
  <1>3. ASSUME NEW c \in Callers, Begin(c) \/ BeginMaintain(c)
        PROVE  RefsInv'
    <2>1. /\ refs' = [refs EXCEPT ![c] = file]
          /\ UNCHANGED <<file, next>>
      BY <1>3 DEF Begin, BeginMaintain, Start
    <2>2. QED
      BY <1>1, <2>1 DEF RefsInv, KnownRefs, TypeOK
  <1>4. ASSUME NEW c \in Callers, ReadStack(c)
        PROVE  RefsInv'
    <2>1. todo[c] # << >> /\ At(c) \in Plugins
      BY <1>1, <1>4, AtWork DEF ReadStack, Ended
    <2>2. sha[c] \in asked[At(c)]
      BY <1>4 DEF ReadStack, PinInv
    <2>3. UNCHANGED <<file, refs>> /\ next' = [next EXCEPT ![c] = EditRef(c, At(c))]
      BY <1>4 DEF ReadStack
    <2>4. \A p \in Plugins : EditRef(c, At(c))[p] \in KnownRefs(p)
      BY <1>1, <2>1, <2>2 DEF EditRef, RefsInv, KnownRefs, TypeOK
    <2>5. QED
      BY <1>1, <2>3, <2>4 DEF RefsInv, KnownRefs, TypeOK
  <1>5. ASSUME NEW c \in Callers, WritePin(c)
        PROVE  RefsInv'
    <2>1. file' = next[c] /\ UNCHANGED <<refs, next>>
      BY <1>5 DEF WritePin
    <2>2. QED
      BY <1>1, <2>1 DEF RefsInv, KnownRefs
  <1>6. ASSUME NEW c \in Callers, Command(c)
        PROVE  \/ UNCHANGED <<file, refs, next>>
               \/ Begin(c) \/ BeginMaintain(c) \/ ReadStack(c) \/ WritePin(c)
    BY <1>6
    DEF Command, AcquireApplyLock, Finish, Inspect, Clone, SkipPinned, Fetch,
        Checkout, BuildStarts, BuildEnds, WriteBuildMarker, CapturePin,
        CheckMerge, Merge, Quit
  <1>7. QED
    BY <1>2, <1>3, <1>4, <1>5, <1>6 DEF Next, vars, Publish, EditCheckout

\* Other commands leave a command's place, work, captured commit and edit.
LEMMA OthersLocal ==
    ASSUME TypeOK, NEW d \in Callers, NEW c \in Callers \ {d}, Command(d)
    PROVE  /\ pc'[c] = pc[c] /\ todo'[c] = todo[c] /\ op'[c] = op[c]
           /\ sha'[c] = sha[c] /\ next'[c] = next[c]
  BY DEF Command, Begin, BeginMaintain, Start, AcquireApplyLock, Finish, Clone,
         Inspect, Fetch, SkipPinned, Checkout, BuildStarts, BuildEnds,
         WriteBuildMarker, CapturePin, ReadStack, WritePin, CheckMerge, Merge,
         Quit, Goto, Drop, TypeOK, localVars

\* A checkout stays.
LEMMA CheckoutsStay ==
    ASSUME TypeInv, [Next]_vars
    PROVE  \A p \in Plugins : repo[p].there => repo'[p].there
  <1> USE DEF gitVars, localVars, histVars
  <1>1. TypeOK
    BY DEF TypeInv
  <1>2. \A p \in Plugins : repo[p] \in Checkout1
    BY <1>1 DEF TypeOK, Checkout1
  <1>3. ASSUME NEW c \in Callers, Clone(c) \/ Fetch(c) \/ Checkout(c) \/ Merge(c)
        PROVE  \A p \in Plugins : repo[p].there => repo'[p].there
    <2>1. todo[c] # << >> /\ At(c) \in Plugins
      BY <1>1, <1>3, AtWork DEF Clone, Fetch, Checkout, Merge, At1, Ended
    <2>2. CASE Clone(c)
      BY <1>1, <2>1, <2>2 DEF Clone, CloneAt, TypeOK
    <2>3. CASE Fetch(c)
      BY <1>1, <1>2, <2>1, <2>3 DEF Fetch, TypeOK, Checkout1
    <2>4. CASE Checkout(c)
      BY <1>1, <1>2, <2>1, <2>4
      DEF Checkout, UpdateRef, CheckoutRef, TypeOK, Checkout1
    <2>5. CASE Merge(c)
      BY <1>1, <1>2, <2>1, <2>5 DEF Merge, TypeOK, Checkout1
    <2>6. QED
      BY <1>3, <2>2, <2>3, <2>4, <2>5
  <1>4. ASSUME NEW p \in Edited, EditCheckout(p)
        PROVE  \A q \in Plugins : repo[q].there => repo'[q].there
    BY <1>1, <1>2, <1>4, PluginAssumption DEF EditCheckout, TypeOK, Checkout1
  <1>5. ASSUME NEW c \in Callers, Command(c)
        PROVE  \/ UNCHANGED repo
               \/ Clone(c) \/ Fetch(c) \/ Checkout(c) \/ Merge(c)
    BY <1>5
    DEF Command, Begin, BeginMaintain, Start, AcquireApplyLock, Finish,
        Inspect, SkipPinned, BuildStarts, BuildEnds, WriteBuildMarker,
        CapturePin, ReadStack, WritePin, CheckMerge, Quit
  <1>6. QED
    BY <1>3, <1>4, <1>5 DEF Next, vars, Publish

\* A command that was going to change a checkout has seen it.
LEMMA PresentNext ==
    ASSUME TypeInv, RepoInv, [Next]_vars
    PROVE  Present'
  <1> USE DEF gitVars, localVars, histVars
  <1>1. TypeOK /\ Present
    BY DEF TypeInv, RepoInv
  <1>2. \A p \in Plugins : repo[p] \in Checkout1
    BY <1>1 DEF TypeOK, Checkout1
  <1>3. \A p \in Plugins : repo[p].there => repo'[p].there
    BY CheckoutsStay
  <1>4. ASSUME NEW c \in Callers, NEW d \in Callers, Command(d),
               pc'[c] \in {"fetch", "checkout"}
        PROVE  repo'[At(c)'].there
    <2>1. CASE pc[c] = pc'[c] /\ todo[c] = todo'[c]
      <3>1. todo[c] # << >> /\ At(c) \in Plugins
        BY <1>1, <1>4, <2>1, AtWork DEF Ended
      <3>2. QED
        BY <1>1, <1>3, <1>4, <2>1, <3>1 DEF Present, At
    <2>2. CASE c = d /\ (Inspect(c) \/ Fetch(c))
      <3>1. todo[c] # << >> /\ At(c) \in Plugins /\ todo' = todo
        BY <1>1, <2>2, AtWork DEF Inspect, Fetch, At1, Ended
      <3>2. repo[At(c)].there
        BY <1>1, <1>4, <2>2 DEF Inspect, Fetch, At1, Goto, TypeOK, Present
      <3>3. QED
        BY <1>3, <3>1, <3>2 DEF At
    <2>3. \/ c # d /\ pc[c] = pc'[c] /\ todo[c] = todo'[c]
          \/ c = d /\ (Inspect(c) \/ Fetch(c))
      <3>1. CASE c # d
        BY <1>1, <1>4, <3>1, OthersLocal
      <3>2. CASE c = d
        <4>1. \/ Inspect(c) \/ Fetch(c)
              \/ \E l : l \notin {"fetch", "checkout"} /\ Goto(c, l)
          BY <1>4, <3>2
          DEF Command, Begin, BeginMaintain, Start, AcquireApplyLock, Finish, Clone,
              SkipPinned, Checkout, BuildStarts, BuildEnds, WriteBuildMarker,
              CapturePin, ReadStack, WritePin, CheckMerge, Merge, Quit, Drop, Ended
        <4>2. QED
          BY <1>1, <1>4, <3>2, <4>1 DEF Goto, TypeOK
      <3>3. QED
        BY <3>1, <3>2
    <2>4. QED
      BY <2>1, <2>2, <2>3
  <1>5. CASE UNCHANGED <<pc, todo>>
    <2>1. \A c \in Callers : pc[c] \in {"fetch", "checkout"} => At(c) \in Plugins
      BY <1>1, AtWork DEF Ended
    <2>2. QED
      BY <1>1, <1>3, <1>5, <2>1 DEF Present, At
  <1>6. QED
    BY <1>4, <1>5 DEF Present, Next, vars, Publish, EditCheckout
-----------------------------------------------------------------------------
(* Pins *)

\* Nor do they write stack.toml or take the lock while a pin has it.
LEMMA OthersPin ==
    ASSUME TypeInv, TypeInv', PinsSurvive, \A c \in Callers : PinInv(c),
           NEW d \in Callers, NEW c \in Callers \ {d}, Command(d)
    PROVE  PinInv(c)'
  <1> USE DEF gitVars, localVars, histVars
  <1>1. TypeOK /\ None \notin Callers /\ PinInv(c) /\ PinInv(d)
    BY GitAssumption DEF TypeInv
  <1>2. /\ pc'[c] = pc[c] /\ todo'[c] = todo[c] /\ op'[c] = op[c]
        /\ sha'[c] = sha[c] /\ next'[c] = next[c]
    BY <1>1, OthersLocal
  <1>3. lock = c => lock' = c
    BY <1>1
    DEF Command, Begin, BeginMaintain, Start, AcquireApplyLock, Finish, Clone,
        Inspect, Fetch, SkipPinned, Checkout, BuildStarts, BuildEnds,
        WriteBuildMarker, CapturePin, ReadStack, WritePin, CheckMerge, Merge,
        Quit, Release
  <1>4. lock = c => file' = file
    <2>1. lock = c => ~WritePin(d)
      BY <1>1 DEF WritePin, TypeOK
    <2>2. QED
      BY <2>1
      DEF Command, Begin, BeginMaintain, Start, AcquireApplyLock, Finish, Clone,
          Inspect, Fetch, SkipPinned, Checkout, BuildStarts, BuildEnds,
          WriteBuildMarker, CapturePin, ReadStack, CheckMerge, Merge, Quit
  <1>5. \A p \in Plugins : asked[p] \subseteq asked'[p]
    BY AskedGrows DEF Next
  <1>6. pc[c] \in {"read", "rename"} => lock = c /\ At(c) \in Plugins
    BY <1>1, AtWork DEF TypeOK, Ended
  <1>7. QED
    BY <1>1, <1>2, <1>3, <1>4, <1>5, <1>6 DEF PinInv, EditRef, At

\* A pin holds the lock from its start to its end.
LEMMA OwnPin ==
    ASSUME TypeInv, TypeInv', RepoInv, PinsSurvive, NEW c \in Callers, PinInv(c),
           Command(c)
    PROVE  PinInv(c)'
  <1> USE DEF gitVars, localVars, histVars, Goto
  <1>1. TypeOK /\ HistoryOK
    BY DEF TypeInv
  <1>2. ASSUME Drop(c), UNCHANGED <<op, lock>>, pc[c] \notin Ended \cup {"lock"},
               todo[c] # << >>
        PROVE  PinInv(c)'
    <2>1. \A i \in DOMAIN todo'[c] : todo'[c][i][1] = "pin" => op[c] = "pin"
      BY <1>1, <1>2, TailType DEF Drop, TypeOK, PinInv
    <2>2. pc'[c] = "next"
      BY <1>1, <1>2 DEF Drop, TypeOK
    <2>3. QED
      BY <1>2, <2>1, <2>2 DEF PinInv
  <1>3. ASSUME NEW l \in Labels \ {"read", "rename"}, Goto(c, l),
               UNCHANGED <<op, lock, todo>>, pc[c] \notin Ended \cup {"lock"}
        PROVE  PinInv(c)'
    BY <1>1, <1>3 DEF PinInv, TypeOK
  <1>4. CASE Begin(c) \/ BeginMaintain(c)
    <2>1. ASSUME NEW o \in Operations, NEW work,
                 \A i \in DOMAIN work : work[i][1] = "pin" => o = "pin",
                 Start(c, o, work)
          PROVE  PinInv(c)'
      BY <1>1, <2>1 DEF Start, PinInv, TypeOK
    <2>2. CASE Begin(c)
      <3>1. PICK o \in Operations \ {"maintain"} : Start(c, o, Work(o))
        BY <2>2 DEF Begin
      <3>2. QED
        BY <2>1, <3>1, WorkType, PluginAssumption
    <2>3. CASE BeginMaintain(c)
      <3> DEFINE S == {p \in Plugins : repo[p].there /\ ~Fresh(p)}
      <3>1. PICK released \in BOOLEAN, stale \in SetToSeqs(S) :
              Start(c, "maintain",
                    (IF released /\ repo[Advance].there
                     THEN << <<"merge", Advance>> >> ELSE << >>)
                    \o [i \in DOMAIN stale |-> <<"rebuild", stale[i]>>])
        BY <2>3 DEF BeginMaintain
      <3>2. "maintain" \in Operations
        BY <3>1 DEF Start
      <3>3. S \in SUBSET Plugins /\ (released /\ repo[Advance].there) \in BOOLEAN
        BY <1>1, PluginAssumption DEF TypeOK
      <3>4. \A i \in DOMAIN ((IF released /\ repo[Advance].there
                             THEN << <<"merge", Advance>> >> ELSE << >>)
                            \o [j \in DOMAIN stale |-> <<"rebuild", stale[j]>>]) :
              ((IF released /\ repo[Advance].there
                THEN << <<"merge", Advance>> >> ELSE << >>)
               \o [j \in DOMAIN stale |-> <<"rebuild", stale[j]>>])[i][1] # "pin"
        BY <3>3, MaintenanceType
      <3>5. QED
        BY <2>1, <3>1, <3>2, <3>4
    <2>4. QED
      BY <1>4, <2>2, <2>3
  <1>5. CASE AcquireApplyLock(c)
    BY <1>1, <1>5 DEF AcquireApplyLock, PinInv, TypeOK
  <1>6. CASE Finish(c) \/ Quit(c)
    BY <1>1, <1>6 DEF Finish, Quit, PinInv, TypeOK, Ended
  <1>7. CASE \/ Inspect(c) \/ Clone(c) \/ Fetch(c) \/ Checkout(c)
             \/ BuildStarts(c) \/ CheckMerge(c)
    <2>1. \E l \in {"fetch", "clone", "build", "checkout", "building", "merge"} :
            Goto(c, l)
      BY <1>7 DEF Inspect, Clone, Fetch, Checkout, BuildStarts, CheckMerge
    <2>2. UNCHANGED <<op, lock, todo>> /\ pc[c] \notin Ended \cup {"lock"}
      BY <1>7
      DEF Inspect, Clone, Fetch, Checkout, BuildStarts, CheckMerge, At1, Ended
    <2>3. QED
      BY <1>3, <2>1, <2>2 DEF Labels
  <1>8. CASE SkipPinned(c) \/ WriteBuildMarker(c) \/ WritePin(c) \/ Merge(c)
    <2>1. todo[c] # << >> /\ pc[c] \notin Ended \cup {"lock"}
      BY <1>1, <1>8, AtWork
      DEF SkipPinned, WriteBuildMarker, WritePin, Merge, At1, Ended
    <2>2. QED
      BY <1>2, <1>8, <2>1 DEF SkipPinned, WriteBuildMarker, WritePin, Merge
  <1>9. CASE BuildEnds(c)
    <2>1. todo[c] # << >> /\ pc[c] \notin Ended \cup {"lock"}
      BY <1>1, <1>9, AtWork DEF BuildEnds, Ended
    <2>2. QED
      BY <1>2, <1>3, <1>9, <2>1 DEF BuildEnds, Labels
  <1>10. CASE CapturePin(c)
    <2>1. /\ todo[c] # << >> /\ pc[c] = "next" /\ At(c) \in Plugins
          /\ repo[At(c)].there
      BY <1>1, <1>10, AtWork DEF CapturePin, At1
    <2>2. CASE refs[c][At(c)] = HeadAt(At(c))
      BY <1>2, <1>10, <2>1, <2>2 DEF CapturePin, Ended
    <2>3. CASE refs[c][At(c)] # HeadAt(At(c))
      <3>1. sha'[c] \in asked'[At(c)]
        <4>1. sha'[c] = HeadAt(At(c)) /\ asked' = asked
          BY <1>1, <1>10 DEF CapturePin, TypeOK
        <4>2. HeadAt(At(c)) \in asked[At(c)]
          BY <2>1 DEF RepoInv, CheckoutsInv, KnownRefs, HeadAt, HeadOf
        <4>3. QED
          BY <4>1, <4>2
      <3>2. pc'[c] = "read" /\ UNCHANGED <<op, lock, todo>>
        BY <1>1, <1>10, <2>3 DEF CapturePin, TypeOK
      <3>3. QED
        BY <2>1, <3>1, <3>2 DEF PinInv, Ended, At
    <2>4. QED
      BY <2>2, <2>3
  <1>11. CASE ReadStack(c)
    <2>1. UNCHANGED <<op, lock, todo, sha, file, asked>> /\ pc'[c] = "rename"
          /\ next'[c] = EditRef(c, At(c))
      BY <1>1, <1>11 DEF ReadStack, TypeOK
    <2>2. QED
      BY <1>11, <2>1 DEF ReadStack, PinInv, EditRef, At, Ended
  <1>12. QED
    BY <1>4, <1>5, <1>6, <1>7, <1>8, <1>9, <1>10, <1>11 DEF Command

\* What a pin writes is what is there, with its own ref.
LEMMA PinsNext ==
    ASSUME TypeInv, PinsSurvive, \A c \in Callers : PinInv(c), [Next]_vars
    PROVE  PinsSurvive'
  <1> USE DEF gitVars, localVars, histVars
  <1>1. ASSUME NEW c \in Callers, WritePin(c)
        PROVE  PinsSurvive'
    BY <1>1 DEF WritePin, PinInv, EditRef, PinsSurvive
  <1>2. ASSUME NEW c \in Callers, Command(c)
        PROVE  WritePin(c) \/ UNCHANGED <<file, pinned>>
    BY <1>2
    DEF Command, Begin, BeginMaintain, Start, AcquireApplyLock, Finish, Clone,
        Inspect, Fetch, SkipPinned, Checkout, BuildStarts, BuildEnds,
        WriteBuildMarker, CapturePin, ReadStack, CheckMerge, Merge, Quit
  <1>3. QED
    BY <1>1, <1>2 DEF Next, vars, Publish, EditCheckout, PinsSurvive
-----------------------------------------------------------------------------
(* Theorems *)

LEMMA PInvInit == Init => PInv
  <1> SUFFICES ASSUME Init PROVE PInv
    OBVIOUS
  <1>1. TypeInv
    BY TypeInit
  <1>2. CheckoutsInv
    BY <1>1 DEF Init, CheckoutsInv, KnownRefs, CloneAt, Absent, TypeInv, HistoryOK
  <1>3. RefsInv /\ Present /\ PinsSurvive
    BY DEF Init, RefsInv, KnownRefs, Present, PinsSurvive
  <1>4. \A c \in Callers : PinInv(c)
    BY DEF Init, PinInv, Ended
  <1>5. QED
    BY <1>1, <1>2, <1>3, <1>4 DEF PInv, RepoInv

LEMMA PInvNext == PInv /\ [Next]_vars => PInv'
  <1> SUFFICES ASSUME PInv, [Next]_vars PROVE PInv'
    OBVIOUS
  <1>1. TypeInv /\ RepoInv /\ PinsSurvive /\ \A c \in Callers : PinInv(c)
    BY DEF PInv
  <1>2. TypeInv'
    BY <1>1, TypeNext
  <1>3. RepoInv'
    BY <1>1, <1>2, CheckoutsNext, RefsNext, PresentNext DEF RepoInv
  <1>4. PinsSurvive'
    BY <1>1, PinsNext
  <1>5. \A c \in Callers : PinInv(c)'
    <2>1. CASE UNCHANGED vars
      BY <1>1, <2>1 DEF vars, gitVars, localVars, histVars, PinInv, EditRef, At
    <2>2. CASE Publish \/ \E p \in Edited : EditCheckout(p)
      BY <1>1, <2>2 DEF Publish, EditCheckout, localVars, histVars, PinInv, EditRef, At
    <2>3. ASSUME NEW d \in Callers, Command(d)
          PROVE  \A c \in Callers : PinInv(c)'
      BY <1>1, <1>2, <2>3, OthersPin, OwnPin
    <2>4. QED
      BY <2>1, <2>2, <2>3 DEF Next
  <1>6. QED
    BY <1>2, <1>3, <1>4, <1>5 DEF PInv

\* The inductive invariant: refs and commits that were asked for, and pins that
\* have the lock while they work (pin.go, prepare.go, update.go).
THEOREM PInvCorrect == Spec => []PInv
  BY PInvInit, PInvNext, PTL DEF Spec

\* Every variable has its type at all times, and who writes stack.toml has the
\* lock.
THEOREM PluginTypeCorrect == Spec => []TypeOK
  <1>1. PInv => TypeOK
    BY DEF PInv, TypeInv
  <1>2. QED
    BY <1>1, PInvCorrect, PTL

\* However many pins overlap and wherever they are interrupted, stack.toml has
\* the refs that were pinned last (pin.go, WritePin).
THEOREM PinsAreKept == Spec => []PinsSurvive
  <1>1. PInv => PinsSurvive
    BY DEF PInv
  <1>2. QED
    BY <1>1, PInvCorrect, PTL

\* An apply never puts HEAD at a commit that nothing but its fetch has brought,
\* whatever refs pins write in between (prepare.go, update.go).
THEOREM UpdatesAreAskedFor == Spec => []NoSilentUpdate
  <1>1. PInv => NoSilentUpdate
    BY DEF PInv, RepoInv, CheckoutsInv, KnownRefs, NoSilentUpdate, HeadAt, HeadOf
  <1>2. QED
    BY <1>1, PInvCorrect, PTL
-----------------------------------------------------------------------------
(* Maintenance: the second inductive invariant, on top of the first *)

Working(c) == pc[c] \notin Ended

\* Nobody works next to a command that is run alone.
RunsAlone ==
    \A c \in Callers : Working(c) =>
      /\ op[c] \in Operations
      /\ op[c] \in Alone => \A d \in Callers \ {c} : ~Working(d)

\* Merges and rebuilds are maintenance, of checkouts that are there, and a merge
\* is of a branch.
WorkInv(c) ==
    /\ \A i \in DOMAIN todo[c] :
         /\ todo[c][i][1] \in {"merge", "rebuild"} =>
              op[c] = "maintain" /\ repo[todo[c][i][2]].there
         /\ todo[c][i][1] = "merge" => todo[c][i][2] = Advance
    /\ pc[c] \in {"build", "building", "mark", "merge"} => repo[At(c)].there
    /\ pc[c] = "merge" => Step(c) = "merge" /\ repo[At(c)].at = Trunk
    /\ pc[c] = "mark" => Step(c) = "rebuild"

MergeInv == MergesStay /\ (merged # {} => repo[Advance].there)
WInv == RunsAlone /\ \A c \in Callers : WorkInv(c)
MInv == PInv /\ WInv /\ MergeInv

\* "v1 uses offline quiescence + build marker" (the maintenance change's
\* agreement.md:35): nobody runs another command next to `maintain`.  The code
\* does not see to it: CheckSessionGate looks for opencode only.
MaintainsAlone == "maintain" \in Operations => "maintain" \in Alone

\* A command that is at work was started with what nobody runs next to it.
LEMMA RunsAloneNext ==
    ASSUME TypeOK, RunsAlone, [Next]_vars
    PROVE  RunsAlone'
  <1> USE DEF gitVars, localVars, histVars
  <1>1. CASE UNCHANGED <<pc, op>>
    BY <1>1 DEF RunsAlone, Working
  <1>2. ASSUME NEW c \in Callers, NEW o, NEW work, Start(c, o, work)
        PROVE  RunsAlone'
    BY <1>2 DEF Start, MayStart, RunsAlone, Working, Goto, TypeOK
  <1>3. ASSUME NEW c \in Callers, NEW l \in Labels, Goto(c, l), Working(c), UNCHANGED op
        PROVE  RunsAlone'
    BY <1>3 DEF RunsAlone, Working, Goto, TypeOK
  <1>4. ASSUME NEW c \in Callers, Command(c)
        PROVE  RunsAlone'
    <2>1. CASE Begin(c) \/ BeginMaintain(c)
      BY <1>2, <2>1 DEF Begin, BeginMaintain
    <2>2. CASE ~(Begin(c) \/ BeginMaintain(c))
      <3>1. Working(c) /\ UNCHANGED op
        BY <1>4, <2>2
        DEF Command, AcquireApplyLock, Finish, Inspect, Clone, SkipPinned, Fetch,
            Checkout, BuildStarts, BuildEnds, WriteBuildMarker, CapturePin,
            ReadStack, WritePin, CheckMerge, Merge, Quit, Working, Ended, At1
      <3>2. \E l \in Labels : Goto(c, l)
        BY <1>4, <2>2
        DEF Command, AcquireApplyLock, Finish, Inspect, Clone, SkipPinned, Fetch,
            Checkout, BuildStarts, BuildEnds, WriteBuildMarker, CapturePin,
            ReadStack, WritePin, CheckMerge, Merge, Quit, Drop, Labels, Ended
      <3>3. QED
        BY <1>3, <3>1, <3>2
    <2>3. QED
      BY <2>1, <2>2
  <1>5. QED
    BY <1>1, <1>4 DEF Next, vars, Publish, EditCheckout

\* While one maintains, the others are at rest.
LEMMA OthersRest ==
    ASSUME MaintainsAlone, RunsAlone, NEW c \in Callers, Working(c), op[c] = "maintain"
    PROVE  \A d \in Callers \ {c} : ~Working(d)
  BY DEF MaintainsAlone, RunsAlone

\* Who merges or marks maintains.
LEMMA Maintaining ==
    ASSUME TypeOK, NEW c \in Callers, WorkInv(c), pc[c] \in {"mark", "merge"}
    PROVE  /\ op[c] = "maintain" /\ Working(c) /\ At(c) \in Plugins
           /\ pc[c] = "merge" => At(c) = Advance
  <1>1. todo[c] # << >>
    BY DEF TypeOK, Ended
  <1>2. 1 \in DOMAIN todo[c] /\ todo[c][1] = <<Step(c), At(c)>> /\ At(c) \in Plugins
    BY <1>1, AtType
  <1>3. Step(c) \in {"merge", "rebuild"}
    BY DEF WorkInv
  <1>4. QED
    BY <1>2, <1>3 DEF WorkInv, Working, Ended

\* The other commands leave a command's work as it is.
LEMMA OthersWork ==
    ASSUME MaintainsAlone, TypeInv, WInv, NEW d \in Callers, NEW c \in Callers \ {d},
           Command(d)
    PROVE  WorkInv(c)'
  <1> USE DEF gitVars, localVars, histVars
  <1>1. TypeOK /\ RunsAlone /\ WorkInv(c) /\ WorkInv(d)
    BY DEF TypeInv, WInv
  <1>2. /\ pc'[c] = pc[c] /\ todo'[c] = todo[c] /\ op'[c] = op[c]
    BY <1>1, OthersLocal
  <1>3. \A p \in Plugins : repo[p].there => repo'[p].there
    BY CheckoutsStay DEF Next
  <1>4. \A i \in DOMAIN todo[c] : todo[c][i][2] \in Plugins
    <2>1. todo[c] \in Seq(Steps \X Plugins)
      BY <1>1 DEF TypeOK
    <2>2. QED
      BY <2>1
  <1>5. pc[c] \in {"build", "building", "mark", "merge"} => At(c) \in Plugins
    BY <1>1, AtWork DEF Ended
  <1>6. pc[c] = "merge" => repo'[At(c)].at = repo[At(c)].at
    <2>1. SUFFICES ASSUME pc[c] = "merge" PROVE UNCHANGED repo
      OBVIOUS
    <2>2. ~Working(d)
      BY <1>1, <2>1, Maintaining, OthersRest
    <2>3. QED
      BY <2>2 DEF Command, Begin, BeginMaintain, Start, AcquireApplyLock, Finish, Inspect,
        Clone, SkipPinned, Fetch, Checkout, BuildStarts, BuildEnds, WriteBuildMarker,
        CapturePin, ReadStack, WritePin, CheckMerge, Merge, Quit, Working, Ended, At1
  <1>7. QED
    BY <1>1, <1>2, <1>3, <1>4, <1>5, <1>6 DEF WorkInv, At, Step

\* A command's own steps: what it was started with, less what is done.
LEMMA OwnWork ==
    ASSUME TypeInv, RepoInv, NEW c \in Callers, WorkInv(c), Command(c)
    PROVE  WorkInv(c)'
  <1> USE DEF gitVars, localVars, histVars, Goto
  <1>1. TypeOK /\ HistoryOK
    BY DEF TypeInv
  <1>2. \A p \in Plugins : repo[p].there => repo'[p].there
    BY CheckoutsStay DEF Next
  <1>3. todo[c] \in Seq(Steps \X Plugins)
    BY <1>1 DEF TypeOK
  <1>4. \A i \in DOMAIN todo[c] : todo[c][i][2] \in Plugins
    BY <1>3
  <1>5. ASSUME Drop(c), UNCHANGED op, todo[c] # << >>
        PROVE  WorkInv(c)'
    <2>1. \A i \in DOMAIN todo'[c] : i + 1 \in DOMAIN todo[c] /\ todo'[c][i] = todo[c][i + 1]
      BY <1>1, <1>5, TailType DEF Drop, TypeOK
    <2>2. pc'[c] = "next"
      BY <1>1, <1>5 DEF Drop, TypeOK
    <2>3. QED
      BY <1>2, <1>4, <1>5, <2>1, <2>2 DEF WorkInv
  <1>6. ASSUME NEW l \in Labels, Goto(c, l), UNCHANGED <<op, todo>>,
               l \in {"build", "building", "mark", "merge"} => repo'[At(c)].there,
               l = "merge" => Step(c) = "merge" /\ repo'[At(c)].at = Trunk,
               l = "mark" => Step(c) = "rebuild"
        PROVE  WorkInv(c)'
    BY <1>1, <1>2, <1>4, <1>6 DEF WorkInv, TypeOK, At, Step
  <1>7. CASE Begin(c)
    <2>1. PICK o \in Operations \ {"maintain"} : Start(c, o, Work(o))
      BY <1>7 DEF Begin
    <2>2. \A i \in DOMAIN Work(o) : Work(o)[i][1] \notin {"merge", "rebuild"}
      BY <2>1, WorkType, PluginAssumption
    <2>3. todo'[c] = Work(o) /\ pc'[c] \in {"lock", "next"}
      BY <1>1, <2>1 DEF Start, TypeOK
    <2>4. QED
      BY <2>2, <2>3 DEF WorkInv
  <1>8. CASE BeginMaintain(c)
    <2> DEFINE S == {p \in Plugins : repo[p].there /\ ~Fresh(p)}
    <2>1. PICK released \in BOOLEAN, stale \in SetToSeqs(S) :
            Start(c, "maintain",
                  (IF released /\ repo[Advance].there
                   THEN << <<"merge", Advance>> >> ELSE << >>)
                  \o [i \in DOMAIN stale |-> <<"rebuild", stale[i]>>])
      BY <1>8 DEF BeginMaintain
    <2>2. repo[Advance].there \in BOOLEAN
      BY <1>1, PluginAssumption DEF TypeOK
    <2>3. todo'[c] = (IF released /\ repo[Advance].there
                      THEN << <<"merge", Advance>> >> ELSE << >>)
                     \o [i \in DOMAIN stale |-> <<"rebuild", stale[i]>>]
          /\ pc'[c] = "next" /\ op'[c] = "maintain" /\ repo' = repo
      BY <1>1, <2>1 DEF Start, TypeOK
    <2>4. S \in SUBSET Plugins /\ (released /\ repo[Advance].there) \in BOOLEAN
      BY <2>2
    <2>5. \A i \in DOMAIN todo'[c] : todo'[c][i] \in Due(S, released /\ repo[Advance].there)
      BY <2>3, <2>4, MaintenanceType
    <2>6. \A x \in Due(S, released /\ repo[Advance].there) :
            repo[x[2]].there /\ (x[1] = "merge" => x[2] = Advance)
      BY DEF Due
    <2>7. QED
      BY <2>3, <2>5, <2>6 DEF WorkInv
  <1>9. CASE AcquireApplyLock(c) \/ Finish(c) \/ Inspect(c) \/ Fetch(c)
             \/ ReadStack(c)
    <2>1. \E l \in {"next", "done", "fetch", "clone", "checkout", "rename"} : Goto(c, l)
      BY <1>9 DEF AcquireApplyLock, Finish, Inspect, Fetch, ReadStack
    <2>2. UNCHANGED <<op, todo>>
      BY <1>9 DEF AcquireApplyLock, Finish, Inspect, Fetch, ReadStack
    <2>3. QED
      BY <1>6, <2>1, <2>2 DEF Labels, Ended
  <1>10. CASE Quit(c)
    <2>1. todo'[c] = << >> /\ pc'[c] = "failed"
      BY <1>1, <1>10 DEF Quit, TypeOK
    <2>2. QED
      BY <2>1 DEF WorkInv
  <1>11. CASE SkipPinned(c) \/ WriteBuildMarker(c) \/ WritePin(c) \/ Merge(c)
    <2>1. todo[c] # << >>
      BY <1>1, <1>11, AtWork DEF SkipPinned, WriteBuildMarker, WritePin, Merge, At1, Ended
    <2>2. QED
      BY <1>5, <1>11, <2>1 DEF SkipPinned, WriteBuildMarker, WritePin, Merge
  <1>12. CASE Clone(c) \/ Checkout(c)
    <2>1. todo[c] # << >> /\ At(c) \in Plugins
      BY <1>1, <1>12, AtWork DEF Clone, Checkout, Ended
    <2>2. repo'[At(c)].there
      BY <1>1, <1>2, <1>12, <2>1 DEF Clone, CloneAt, Checkout, RepoInv, Present, TypeOK
    <2>3. QED
      BY <1>6, <1>12, <2>2 DEF Clone, Checkout, Labels
  <1>13. CASE BuildStarts(c)
    <2>1. todo[c] # << >> /\ At(c) \in Plugins /\ 1 \in DOMAIN todo[c]
          /\ todo[c][1] = <<Step(c), At(c)>>
      BY <1>1, <1>13, AtWork, AtType DEF BuildStarts, At1, Ended
    <2>2. repo[At(c)].there
      BY <1>13, <2>1 DEF BuildStarts, At1, WorkInv
    <2>3. QED
      BY <1>2, <1>6, <1>13, <2>1, <2>2 DEF BuildStarts, Labels
  <1>14. CASE BuildEnds(c)
    <2>1. todo[c] # << >> /\ At(c) \in Plugins /\ repo[At(c)].there
      BY <1>1, <1>14, AtWork DEF BuildEnds, Ended, WorkInv
    <2>2. QED
      BY <1>2, <1>5, <1>6, <1>14, <2>1 DEF BuildEnds, Labels
  <1>15. CASE CapturePin(c)
    <2>1. todo[c] # << >>
      BY <1>1, <1>15, AtWork DEF CapturePin, At1
    <2>2. QED
      BY <1>5, <1>6, <1>15, <2>1 DEF CapturePin, Labels
  <1>16. CASE CheckMerge(c)
    <2>1. todo[c] # << >> /\ 1 \in DOMAIN todo[c] /\ todo[c][1] = <<Step(c), At(c)>>
          /\ Step(c) = "merge"
      BY <1>1, <1>16, AtWork, AtType DEF CheckMerge, At1
    <2>2. repo[At(c)].there /\ repo[At(c)].at = Trunk
      BY <1>16, <2>1 DEF CheckMerge, OnExpectedBranch, WorkInv
    <2>3. QED
      BY <1>6, <1>16, <2>1, <2>2 DEF CheckMerge, Labels
  <1>17. QED
    BY <1>7, <1>8, <1>9, <1>10, <1>11, <1>12, <1>13, <1>14, <1>15, <1>16 DEF Command

LEMMA WorkNext ==
    ASSUME MaintainsAlone, TypeInv, RepoInv, WInv, [Next]_vars
    PROVE  WInv'
  <1> USE DEF gitVars, localVars, histVars
  <1>1. RunsAlone' /\ TypeOK
    BY RunsAloneNext DEF WInv, TypeInv
  <1>2. CASE UNCHANGED vars
    BY <1>1, <1>2 DEF vars, WInv, WorkInv, At, Step
  <1>3. ASSUME NEW d \in Callers, Command(d)
        PROVE  WInv'
    BY <1>1, <1>3, OthersWork, OwnWork DEF WInv
  <1>4. CASE Publish
    BY <1>1, <1>4 DEF Publish, WInv, WorkInv, At, Step
  <1>5. ASSUME NEW p \in Edited, EditCheckout(p)
        PROVE  WInv'
    <2>1. \A q \in Plugins : repo'[q].there = repo[q].there /\ repo'[q].at = repo[q].at
      BY <1>1, <1>5, PluginAssumption DEF EditCheckout, TypeOK
    <2>2. \A c \in Callers : \A i \in DOMAIN todo[c] : todo[c][i][2] \in Plugins
      <3>1. \A w \in Seq(Steps \X Plugins) : \A i \in DOMAIN w : w[i][2] \in Plugins
        OBVIOUS
      <3>2. QED
        BY <1>1, <3>1 DEF TypeOK
    <2>3. \A c \in Callers :
            pc[c] \in {"build", "building", "mark", "merge"} => At(c) \in Plugins
      BY <1>1, AtWork DEF Ended
    <2>4. UNCHANGED <<pc, op, todo>>
      BY <1>5 DEF EditCheckout
    <2>5. QED
      BY <1>1, <2>1, <2>2, <2>3, <2>4 DEF WInv, WorkInv, At, Step
  <1>6. QED
    BY <1>2, <1>3, <1>4, <1>5 DEF Next

\* What is merged stays: only a merge moves the branch, and it moves it on.
LEMMA MergesNext ==
    ASSUME MaintainsAlone, TypeInv, WInv, MergeInv, [Next]_vars
    PROVE  MergeInv'
  <1> USE DEF gitVars, localVars, histVars
  <1>1. TypeOK /\ Advance \in Plugins /\ Change \in Commits
    BY PluginAssumption, GitAssumption DEF TypeInv
  <1>2. \A p \in Plugins : repo[p] \in Checkout1
    BY <1>1 DEF TypeOK, Checkout1
  <1>3. ASSUME repo'[Advance].trunk = repo[Advance].trunk \/ merged = {},
               repo[Advance].there => repo'[Advance].there, UNCHANGED merged
        PROVE  MergeInv'
    BY <1>3 DEF MergeInv, MergesStay
  <1>4. repo[Advance].there => repo'[Advance].there
    BY <1>1, CheckoutsStay
  <1>5. ASSUME NEW c \in Callers, Clone(c)
        PROVE  MergeInv'
    <2>1. todo[c] # << >> /\ At(c) \in Plugins
      BY <1>1, <1>5, AtWork DEF Clone, Ended
    <2>2. repo'[Advance].trunk = repo[Advance].trunk \/ merged = {}
      BY <1>1, <1>5, <2>1 DEF Clone, MergeInv, TypeOK
    <2>3. QED
      BY <1>3, <1>4, <1>5, <2>2 DEF Clone
  <1>6. ASSUME NEW c \in Callers, Fetch(c) \/ Checkout(c)
        PROVE  MergeInv'
    <2>1. todo[c] # << >> /\ At(c) \in Plugins
      BY <1>1, <1>6, AtWork DEF Fetch, Checkout, At1, Ended
    <2>2. repo'[Advance].trunk = repo[Advance].trunk
      <3>1. CASE Fetch(c)
        BY <1>1, <1>2, <2>1, <3>1 DEF Fetch, TypeOK, Checkout1
      <3>2. CASE Checkout(c)
        BY <1>1, <1>2, <2>1, <3>2
        DEF Checkout, UpdateRef, CheckoutRef, TypeOK, Checkout1
      <3>3. QED
        BY <1>6, <3>1, <3>2
    <2>3. QED
      BY <1>3, <1>4, <1>6, <2>2 DEF Fetch, Checkout
  <1>7. ASSUME NEW c \in Callers, Merge(c)
        PROVE  MergeInv'
    <2> DEFINE r == repo[Advance]
               k == IF FastForward(r.trunk, Change) THEN Change ELSE r.trunk
    <2>1. At(c) = Advance /\ r.at = Trunk /\ r.there
      BY <1>1, <1>7, Maintaining DEF Merge, WInv, WorkInv
    <2>2. HeadAt(Advance) = r.trunk
      BY <2>1 DEF HeadAt, HeadOf
    <2>3. repo' = [repo EXCEPT ![Advance] = [r EXCEPT !.trunk = k]]
      BY <1>7, <2>1, <2>2 DEF Merge
    <2>4. repo'[Advance].trunk = k /\ repo'[Advance].there
      BY <1>1, <1>2, <2>1, <2>3 DEF TypeOK, Checkout1
    <2>5. Change = k \/ Change \in Before[k]
      BY <1>7, <2>1, <2>2 DEF Merge
    <2>6. \A m \in merged : m = k \/ m \in Before[k]
      BY <1>1, AncestorAssumption DEF MergeInv, MergesStay, FastForward
    <2>7. merged' = merged \cup {Change}
      BY <1>7 DEF Merge
    <2>8. QED
      BY <2>4, <2>5, <2>6, <2>7 DEF MergeInv, MergesStay
  <1>8. ASSUME NEW p \in Edited, EditCheckout(p)
        PROVE  MergeInv'
    <2>1. repo'[Advance].trunk = repo[Advance].trunk
      BY <1>1, <1>8, PluginAssumption DEF EditCheckout, TypeOK
    <2>2. QED
      BY <1>3, <1>4, <1>8, <2>1 DEF EditCheckout
  <1>9. CASE UNCHANGED <<repo, merged>>
    BY <1>3, <1>9
  <1>10. ASSUME NEW c \in Callers, Command(c)
         PROVE  \/ UNCHANGED <<repo, merged>>
                \/ Clone(c) \/ Fetch(c) \/ Checkout(c) \/ Merge(c)
    BY <1>10
    DEF Command, Begin, BeginMaintain, Start, AcquireApplyLock, Finish, Inspect,
        SkipPinned, BuildStarts, BuildEnds, WriteBuildMarker, CapturePin,
        ReadStack, WritePin, CheckMerge, Quit
  <1>11. QED
    BY <1>5, <1>6, <1>7, <1>8, <1>9, <1>10 DEF Next, vars, Publish

LEMMA MInvInit == Init => MInv
  <1> SUFFICES ASSUME Init PROVE MInv
    OBVIOUS
  <1>1. PInv
    BY PInvInit
  <1>2. WInv
    BY DEF Init, WInv, RunsAlone, WorkInv, Working, Ended
  <1>3. MergeInv
    BY DEF Init, MergeInv, MergesStay
  <1>4. QED
    BY <1>1, <1>2, <1>3 DEF MInv

LEMMA MInvNext == MaintainsAlone /\ MInv /\ [Next]_vars => MInv'
  <1> SUFFICES ASSUME MaintainsAlone, MInv, [Next]_vars PROVE MInv'
    OBVIOUS
  <1>1. PInv /\ TypeInv /\ RepoInv /\ WInv /\ MergeInv
    BY DEF MInv, PInv
  <1>2. PInv'
    BY <1>1, PInvNext
  <1>3. WInv'
    BY <1>1, WorkNext
  <1>4. MergeInv'
    BY <1>1, MergesNext
  <1>5. QED
    BY <1>2, <1>3, <1>4 DEF MInv

\* executeMerge and requireExpectedBranch: no later checkout, update, pin or
\* merge takes the branch back behind a change that maintenance has merged.
THEOREM MergesAreKept ==
    ASSUME MaintainsAlone
    PROVE  Spec => []MergesStay
  <1>1. MInv /\ [Next]_vars => MInv'
    BY MInvNext
  <1>2. MInv => MergesStay
    BY DEF MInv, MergeInv
  <1>3. QED
    BY <1>1, <1>2, MInvInit, PTL DEF Spec
-----------------------------------------------------------------------------
(* Rebuilds: what is due is seen by the next plan *)

\* A released change is merged before the remote has it.
ChangeIsLocal == \A i \in DOMAIN Published : Published[i] # Change

\* Only its merge brings the change, and markers name what was asked for.
NovelInv ==
    /\ Change \in asked[Advance] => Change \in merged
    /\ repo[Advance].there => repo[Advance].origin # Change
    /\ \A p \in Plugins : marker[p] \in {None} \cup asked[p]

\* A plan has each rebuild once, and what it has yet to rebuild is stale: no
\* other command, nor a step of the plan but the merge, moves a checkout.
PlanInv(c) ==
    /\ pc[c] \in Ended => todo[c] = << >>
    /\ op[c] = "maintain" =>
         /\ pc[c] \notin {"clone", "fetch", "checkout", "build"}
         /\ pc[c] = "building" => Step(c) = "rebuild"
         /\ \A i \in DOMAIN todo[c] :
              /\ todo[c][i][1] \in {"merge", "rebuild"}
              /\ \A j \in DOMAIN todo[c] : todo[c][i] = todo[c][j] => i = j
              /\ todo[c][i][1] = "rebuild"
                 /\ (i # 1 \/ pc[c] \notin {"building", "mark"})
                   => ~Fresh(todo[c][i][2])

\* The marker does not vouch for what is owed.
OwedInv ==
    /\ owed \in [Plugins -> SUBSET Commits]
    /\ \A p \in Plugins :
         /\ marker[p] # None => repo[p].there /\ (p \in Compiled => p \in dist)
         /\ p \in dist => marker[p] \notin owed[p]
         /\ \A c \in Callers : pc[c] = "mark" /\ At(c) = p =>
              HeadAt(p) \notin owed[p] /\ (p \in Compiled => p \in dist)

RInv == MInv /\ NovelInv /\ OwedInv /\ \A c \in Callers : PlanInv(c)

\* While one maintains, no other takes a step, nor starts.
LEMMA NoOtherSteps ==
    ASSUME MaintainsAlone, TypeOK, RunsAlone,
           NEW c \in Callers, Working(c), op[c] = "maintain",
           NEW d \in Callers \ {c}
    PROVE  ~Command(d)
  <1>1. ~Working(d) /\ "maintain" \in Alone
    BY DEF MaintainsAlone, RunsAlone
  <1>2. ASSUME NEW o, NEW work, Start(d, o, work)
        PROVE  FALSE
    BY <1>1, <1>2 DEF Start, MayStart, Working
  <1>3. ~Begin(d) /\ ~BeginMaintain(d)
    BY <1>2 DEF Begin, BeginMaintain
  <1>4. QED
    BY <1>1, <1>3
    DEF Command, AcquireApplyLock, Finish, Inspect, Clone, SkipPinned, Fetch,
        Checkout, BuildStarts, BuildEnds, WriteBuildMarker, CapturePin, ReadStack,
        WritePin, CheckMerge, Merge, Quit, Working, Ended, At1

\* The steps that change a checkout, an output or a marker.
LEMMA Quiet ==
    ASSUME NEW c \in Callers, Command(c)
    PROVE  \/ UNCHANGED <<repo, dist, marker, owed, merged, asked>>
           \/ Clone(c) \/ Fetch(c) \/ Checkout(c) \/ BuildStarts(c)
           \/ BuildEnds(c) \/ WriteBuildMarker(c) \/ Merge(c)
  BY DEF Command, Begin, BeginMaintain, Start, AcquireApplyLock, Finish, Inspect,
         SkipPinned, CapturePin, ReadStack, WritePin, CheckMerge, Quit, gitVars,
         localVars, histVars

\* A merge that moves HEAD moves it to a change that no marker names.
LEMMA MergeIsNew ==
    ASSUME TypeOK, NovelInv, MergeInv, NEW c \in Callers, WorkInv(c), Merge(c),
           FastForward(HeadAt(At(c)), Change)
    PROVE  marker[Advance] # Change /\ At(c) = Advance /\ repo[Advance].there
  <1>1. /\ At(c) = Advance /\ repo[Advance].there /\ Advance \in Plugins
        /\ HeadAt(Advance) = repo[Advance].trunk
    BY Maintaining DEF Merge, WorkInv, HeadAt, HeadOf
  <1>2. repo[Advance].trunk \in Before[Change] /\ Change \in Commits
    BY <1>1, GitAssumption DEF FastForward
  <1>3. Change \notin Before[Change]
        /\ Before[repo[Advance].trunk] \subseteq Before[Change]
    BY <1>2, AncestorAssumption
  <1>4. Change \notin merged
    BY <1>2, <1>3 DEF MergeInv, MergesStay
  <1>5. QED
    BY <1>1, <1>2, <1>4, GitAssumption DEF NovelInv

LEMMA NovelNext ==
    ASSUME ChangeIsLocal, PInv, NovelInv, WInv, [Next]_vars
    PROVE  NovelInv'
  <1> USE DEF gitVars, localVars, histVars
  <1>1. /\ TypeOK /\ HistoryOK /\ CheckoutsInv /\ RefsInv /\ Present
        /\ Advance \in Plugins /\ Change \in Commits
        /\ \A p \in Plugins : asked[p] \subseteq asked'[p]
    BY PluginAssumption, GitAssumption, AskedGrows DEF PInv, TypeInv, RepoInv
  <1>2. \A p \in Plugins : repo[p] \in Checkout1
    BY <1>1 DEF TypeOK, Checkout1
  <1>3. Published[remote] # Change /\ Published[remote] \in Commits
    BY <1>1, GitAssumption DEF ChangeIsLocal, TypeOK
  <1>4. CASE UNCHANGED <<repo, marker, asked, merged>>
    BY <1>4 DEF NovelInv
  <1>5. ASSUME NEW c \in Callers, Clone(c) \/ Fetch(c)
        PROVE  NovelInv'
    <2>1. At(c) \in Plugins
      BY <1>1, <1>5, AtWork DEF Clone, Fetch, At1, Ended
    <2>2. \A p \in Plugins : asked'[p] \subseteq asked[p] \cup {Published[remote]}
      BY <1>1, <1>5, <2>1 DEF Clone, Fetch, HistoryOK
    <2>3. repo'[Advance].there => repo'[Advance].origin # Change
      <3>1. CASE At(c) = Advance
        BY <1>1, <1>2, <1>3, <1>5, <3>1 DEF Clone, Fetch, CloneAt, TypeOK, Checkout1
      <3>2. CASE At(c) # Advance
        BY <1>1, <1>5, <2>1, <3>2 DEF Clone, Fetch, NovelInv, TypeOK
      <3>3. QED
        BY <3>1, <3>2
    <2>4. UNCHANGED <<marker, merged>>
      BY <1>5 DEF Clone, Fetch
    <2>5. QED
      BY <1>1, <1>3, <2>2, <2>3, <2>4 DEF NovelInv
  <1>6. ASSUME NEW c \in Callers, Checkout(c)
        PROVE  NovelInv'
    <2> DEFINE p == At(c)
               ref == refs[c][p]
               r == IF Step(c) = "update" THEN UpdateRef(repo[p], ref)
                    ELSE CheckoutRef(repo[p], ref)
    <2>1. p \in Plugins /\ repo[p].there
      BY <1>1, <1>6, AtWork DEF Checkout, Present, Ended
    <2>2. ref \in {Trunk} \cup asked[p] /\ asked[p] \subseteq Commits
          /\ Trunk \notin Commits /\ repo[p].origin \in Commits
      BY <1>1, <2>1, GitAssumption DEF RefsInv, KnownRefs, HistoryOK, CheckoutsInv
    <2>3. Step(c) = "update" => HeadOf(r) \in asked[p] \cup {repo[p].origin}
      BY <1>2, <2>1, <2>2 DEF UpdateRef, HeadOf, Checkout1
    <2>4. asked' = IF Step(c) = "update"
                   THEN [asked EXCEPT ![p] = @ \cup {HeadOf(r)}] ELSE asked
      BY <1>6 DEF Checkout
    <2>5. \A q \in Plugins : asked'[q] \subseteq asked[q] \cup
                               (IF q = p THEN {repo[p].origin} ELSE {})
      BY <1>1, <2>1, <2>3, <2>4 DEF HistoryOK
    <2>6. r.origin = repo[p].origin /\ r.there = repo[p].there
      BY <1>2, <2>1 DEF UpdateRef, CheckoutRef, Checkout1
    <2>7. repo' = [repo EXCEPT ![p] = r] /\ UNCHANGED <<marker, merged>>
      BY <1>6 DEF Checkout
    <2>8. repo'[Advance].there => repo'[Advance].origin # Change
      BY <1>1, <2>1, <2>6, <2>7 DEF NovelInv, TypeOK
    <2>9. Change \in asked'[Advance] => Change \in merged'
      BY <1>1, <2>1, <2>5, <2>7 DEF NovelInv
    <2>10. QED
      BY <1>1, <2>7, <2>8, <2>9 DEF NovelInv
  <1>7. ASSUME NEW c \in Callers, Merge(c)
        PROVE  NovelInv'
    <2>1. At(c) = Advance
      BY <1>1, <1>7, Maintaining DEF Merge, WInv
    <2>2. Change \in merged' /\ marker' = marker
      BY <1>7 DEF Merge
    <2>3. repo'[Advance].origin = repo[Advance].origin
          /\ repo'[Advance].there = repo[Advance].there
      BY <1>1, <1>2, <1>7, <2>1 DEF Merge, TypeOK, Checkout1
    <2>4. QED
      BY <1>1, <2>2, <2>3 DEF NovelInv
  <1>8. ASSUME NEW c \in Callers, WriteBuildMarker(c)
        PROVE  NovelInv'
    <2>1. At(c) \in Plugins /\ repo[At(c)].there
      BY <1>1, <1>8, AtWork DEF WriteBuildMarker, WInv, WorkInv, Ended
    <2>2. HeadAt(At(c)) \in asked[At(c)]
      BY <1>1, <2>1 DEF CheckoutsInv, KnownRefs, HeadAt, HeadOf
    <2>3. UNCHANGED <<repo, asked, merged>>
          /\ marker' = [marker EXCEPT ![At(c)] = HeadAt(At(c))]
      BY <1>8 DEF WriteBuildMarker, MarkedCommit
    <2>4. QED
      BY <1>1, <2>1, <2>2, <2>3 DEF NovelInv, TypeOK
  <1>9. ASSUME NEW p \in Edited, EditCheckout(p)
        PROVE  NovelInv'
    <2>1. p \in Plugins
      BY PluginAssumption
    <2>2. repo'[Advance].origin = repo[Advance].origin
          /\ repo'[Advance].there = repo[Advance].there
      BY <1>1, <1>2, <1>9, <2>1 DEF EditCheckout, TypeOK, Checkout1
    <2>3. QED
      BY <1>9, <2>2 DEF EditCheckout, NovelInv
  <1>10. ASSUME NEW c \in Callers, BuildStarts(c) \/ BuildEnds(c)
         PROVE  UNCHANGED <<repo, marker, asked, merged>>
    BY <1>10 DEF BuildStarts, BuildEnds
  <1>11. QED
    BY <1>4, <1>5, <1>6, <1>7, <1>8, <1>9, <1>10, Quiet DEF Next, vars, Publish

\* A sequence with one more element in front.
LEMMA InFront ==
    ASSUME NEW T, NEW x \in T, NEW s \in Seq(T)
    PROVE  /\ DOMAIN (<< x >> \o s) = 1..(Len(s) + 1)
           /\ (<< x >> \o s)[1] = x
           /\ \A i \in 2..(Len(s) + 1) : (<< x >> \o s)[i] = s[i - 1]
  <1>1. << x >> \in Seq(T) /\ Len(<< x >>) = 1 /\ Len(s) \in Nat
    OBVIOUS
  <1>2. QED
    BY <1>1

\* A maintenance plan has each of its steps once.
LEMMA PlanOnce ==
    ASSUME NEW S \in SUBSET Plugins, NEW stale \in SetToSeqs(S), NEW merge \in BOOLEAN
    PROVE  LET work == (IF merge THEN << <<"merge", Advance>> >> ELSE << >>)
                       \o [i \in DOMAIN stale |-> <<"rebuild", stale[i]>>]
           IN  \A i, j \in DOMAIN work : work[i] = work[j] => i = j
  <1> DEFINE first == IF merge THEN << <<"merge", Advance>> >> ELSE << >>
             second == [i \in DOMAIN stale |-> <<"rebuild", stale[i]>>]
             work == first \o second
  <1>1. Cardinality(S) \in Nat
    BY PluginsFinite, FS_Subset, FS_CardinalityType
  <1>2. /\ stale \in [1..Cardinality(S) -> S]
        /\ \A i, j \in 1..Cardinality(S) : i # j => stale[i] # stale[j]
    BY DEF SetToSeqs
  <1>3. /\ second \in Seq({"rebuild"} \X S) /\ Len(second) = Cardinality(S)
        /\ DOMAIN second = 1..Cardinality(S)
        /\ \A i \in 1..Cardinality(S) :
             second[i] = <<"rebuild", stale[i]>> /\ second[i][2] = stale[i]
    BY <1>1, <1>2
  <1>4. \A i, j \in 1..Cardinality(S) : second[i] = second[j] => i = j
    <2>1. \A i, j \in 1..Cardinality(S) :
            second[i] = second[j] => stale[i] = stale[j]
      BY <1>3
    <2>2. QED
      BY <1>2, <2>1
  <1>5. CASE merge
    <2>1. first = << <<"merge", Advance>> >>
      BY <1>5
    <2>2. /\ DOMAIN work = 1..(Cardinality(S) + 1)
          /\ work[1] = <<"merge", Advance>>
          /\ \A i \in 2..(Cardinality(S) + 1) : work[i] = second[i - 1]
      <3> HIDE DEF second
      <3>1. second \in Seq({"merge", "rebuild"} \X Plugins)
            /\ <<"merge", Advance>> \in {"merge", "rebuild"} \X Plugins
        BY <1>3, PluginAssumption
      <3>2. QED
        BY <1>3, <2>1, <3>1, InFront
    <2>3. \A i \in 2..(Cardinality(S) + 1) :
            i - 1 \in 1..Cardinality(S) /\ work[i] = <<"rebuild", stale[i - 1]>>
      BY <1>1, <1>3, <2>2
    <2>4. \A i \in 2..(Cardinality(S) + 1) : work[i] # work[1]
      <3> HIDE DEF work, second, first
      <3>1. work[1][1] = "merge"
        BY <2>2
      <3>2. \A i \in 2..(Cardinality(S) + 1) : work[i][1] = "rebuild"
        BY <2>3
      <3>3. QED
        BY <3>1, <3>2
    <2>5. \A i, j \in 2..(Cardinality(S) + 1) : work[i] = work[j] => i = j
      <3> HIDE DEF work, second, first
      <3>1. \A i, j \in 2..(Cardinality(S) + 1) :
              work[i] = work[j] => i - 1 = j - 1
        BY <1>4, <2>2, <2>3
      <3>2. QED
        BY <1>1, <3>1
    <2>6. \A i \in DOMAIN work : i = 1 \/ i \in 2..(Cardinality(S) + 1)
      BY <1>1, <2>2
    <2>7. QED
      BY <2>4, <2>5, <2>6
  <1>6. CASE ~merge
    <2>1. first = << >>
      BY <1>6
    <2>2. work = second
      BY <1>3, <2>1
    <2>3. QED
      BY <1>3, <1>4, <2>2
  <1>7. QED
    BY <1>5, <1>6

\* The others do nothing to a plan: while there is one, they take no step.
LEMMA OthersPlan ==
    ASSUME MaintainsAlone, TypeInv, WInv, NEW d \in Callers, NEW c \in Callers \ {d},
           Command(d), PlanInv(c)
    PROVE  PlanInv(c)'
  <1>1. TypeOK /\ RunsAlone
    BY DEF TypeInv, WInv
  <1>2. /\ pc'[c] = pc[c] /\ todo'[c] = todo[c] /\ op'[c] = op[c]
    BY <1>1, OthersLocal
  <1>3. CASE op[c] = "maintain"
    <2>1. ~Working(c)
      BY <1>1, <1>3, NoOtherSteps
    <2>2. todo[c] = << >> /\ pc[c] \in Ended
      BY <2>1 DEF PlanInv, Working
    <2>3. QED
      BY <1>2, <2>2 DEF PlanInv, Ended
  <1>4. CASE op[c] # "maintain"
    BY <1>2, <1>4 DEF PlanInv
  <1>5. QED
    BY <1>3, <1>4

\* A command that ends has nothing ahead.
LEMMA EndsEmpty ==
    ASSUME TypeOK, NEW c \in Callers, PlanInv(c), Command(c)
    PROVE  pc'[c] \in Ended => todo'[c] = << >>
  <1> USE DEF gitVars, localVars, histVars
  <1>1. CASE Finish(c)
    BY <1>1 DEF Finish
  <1>2. CASE Quit(c)
    BY <1>2 DEF Quit, TypeOK
  <1>3. CASE ~Finish(c) /\ ~Quit(c)
    <2>1. \E l \in Labels \ Ended : Goto(c, l)
      BY <1>3
      DEF Command, Begin, BeginMaintain, Start, AcquireApplyLock, Inspect, Clone,
          SkipPinned, Fetch, Checkout, BuildStarts, BuildEnds, WriteBuildMarker,
          CapturePin, ReadStack, WritePin, CheckMerge, Merge, Drop, Labels, Ended
    <2>2. QED
      BY <2>1 DEF Goto, TypeOK
  <1>4. QED
    BY <1>1, <1>2, <1>3

\* The plan itself, and its steps.
LEMMA OwnPlan ==
    ASSUME MaintainsAlone, TypeInv, WInv, NovelInv, MergeInv, NEW c \in Callers,
           Command(c), PlanInv(c)
    PROVE  PlanInv(c)'
  <1> USE DEF gitVars, localVars, histVars, Goto
  <1> DEFINE fresh(p) == marker'[p] = HeadOf(repo'[p]) /\ p \in dist'
  <1>1. TypeOK /\ WorkInv(c) /\ todo[c] \in Seq(Steps \X Plugins)
    BY DEF TypeInv, WInv, TypeOK
  <1>2. pc'[c] \in Ended => todo'[c] = << >>
    BY <1>1, EndsEmpty
  <1>3. CASE op'[c] # "maintain"
    BY <1>2, <1>3 DEF PlanInv
  <1>4. CASE BeginMaintain(c)
    <2> DEFINE S == {p \in Plugins : repo[p].there /\ ~Fresh(p)}
               merge(released) == released /\ repo[Advance].there
               work(released, stale) ==
                 (IF merge(released) THEN << <<"merge", Advance>> >> ELSE << >>)
                 \o [i \in DOMAIN stale |-> <<"rebuild", stale[i]>>]
    <2>1. PICK released \in BOOLEAN, stale \in SetToSeqs(S) :
            Start(c, "maintain", work(released, stale))
      BY <1>4 DEF BeginMaintain
    <2>2. merge(released) \in BOOLEAN /\ S \in SUBSET Plugins
      BY <1>1, PluginAssumption DEF TypeOK
    <2>3. /\ todo'[c] = work(released, stale) /\ pc'[c] = "next"
          /\ UNCHANGED <<repo, dist, marker>>
      BY <1>1, <2>1 DEF Start, TypeOK
    <2>4. /\ \A i \in DOMAIN todo'[c] : todo'[c][i] \in Due(S, merge(released))
          /\ \A i, j \in DOMAIN todo'[c] : todo'[c][i] = todo'[c][j] => i = j
      <3> HIDE DEF S, merge
      <3>1. \A i \in DOMAIN work(released, stale) :
              work(released, stale)[i] \in Due(S, merge(released))
        BY <2>2, MaintenanceType
      <3>2. \A i, j \in DOMAIN work(released, stale) :
              work(released, stale)[i] = work(released, stale)[j] => i = j
        BY <2>2, PlanOnce
      <3>3. QED
        BY <2>3, <3>1, <3>2
    <2>5. \A x \in Due(S, merge(released)) :
            x[1] \in {"merge", "rebuild"} /\ (x[1] = "rebuild" => ~Fresh(x[2]))
      BY DEF Due
    <2>6. \A p : fresh(p) <=> Fresh(p)
      BY <2>3 DEF Fresh, HeadAt
    <2>7. \A i \in DOMAIN todo'[c] :
            /\ todo'[c][i][1] \in {"merge", "rebuild"}
            /\ todo'[c][i][1] = "rebuild" => ~fresh(todo'[c][i][2])
      BY <2>4, <2>5, <2>6
    <2>8. QED
      <3> HIDE DEF work, S, merge
      <3>1. QED
        BY <1>2, <2>3, <2>4, <2>7 DEF PlanInv, Fresh, HeadAt
  <1>5. CASE op'[c] = "maintain" /\ ~BeginMaintain(c)
    <2>1. op[c] = "maintain" /\ ~Begin(c)
      <3>1. ~Begin(c)
        BY <1>1, <1>5 DEF Begin, Start, TypeOK
      <3>2. QED
        BY <1>5, <3>1
        DEF Command, AcquireApplyLock, Finish, Inspect, Clone, SkipPinned, Fetch,
            Checkout, BuildStarts, BuildEnds, WriteBuildMarker, CapturePin,
            ReadStack, WritePin, CheckMerge, Merge, Quit
    <2>2. todo[c] # << >> =>
            /\ 1 \in DOMAIN todo[c] /\ todo[c][1] = <<Step(c), At(c)>>
            /\ Step(c) \in {"merge", "rebuild"} /\ At(c) \in Plugins
      <3>1. todo[c] # << >> => 1 \in DOMAIN todo[c] /\ todo[c][1] = <<Step(c), At(c)>>
                               /\ At(c) \in Plugins
        BY <1>1, AtType
      <3>2. QED
        BY <2>1, <3>1 DEF PlanInv
    <2>3. /\ ~Inspect(c) /\ ~Clone(c) /\ ~SkipPinned(c) /\ ~Fetch(c) /\ ~Checkout(c)
          /\ ~CapturePin(c)
      BY <2>1, <2>2
      DEF PlanInv, Inspect, Clone, SkipPinned, Fetch, Checkout, CapturePin, At1
    <2>4. ASSUME Drop(c), op' = op, todo[c] # << >>,
                 \A i \in DOMAIN todo[c] \ {1} :
                   todo[c][i][1] = "rebuild" /\ ~Fresh(todo[c][i][2])
                     => ~fresh(todo[c][i][2])
          PROVE  PlanInv(c)'
      <3>1. pc'[c] = "next"
        BY <1>1, <2>4 DEF Drop, TypeOK
      <3>2. todo'[c] = Tail(todo[c])
        BY <1>1, <2>4 DEF Drop, TypeOK
      <3>3. \A i \in DOMAIN todo'[c] :
              i + 1 \in DOMAIN todo[c] \ {1} /\ todo'[c][i] = todo[c][i + 1] /\ i \in Nat
        BY <1>1, <2>4, <3>2
      <3>4. \A i, j \in DOMAIN todo'[c] : todo'[c][i] = todo'[c][j] => i = j
        <4>1. \A i, j \in DOMAIN todo'[c] : todo'[c][i] = todo'[c][j] => i + 1 = j + 1
          BY <2>1, <3>3 DEF PlanInv
        <4>2. QED
          BY <3>3, <4>1
      <3>5. \A i \in DOMAIN todo'[c] :
              /\ todo'[c][i][1] \in {"merge", "rebuild"}
              /\ todo'[c][i][1] = "rebuild" => ~fresh(todo'[c][i][2])
        <4>1. SUFFICES ASSUME NEW i \in DOMAIN todo'[c]
                       PROVE  /\ todo'[c][i][1] \in {"merge", "rebuild"}
                              /\ todo'[c][i][1] = "rebuild" => ~fresh(todo'[c][i][2])
          OBVIOUS
        <4>2. /\ i + 1 \in DOMAIN todo[c] /\ i + 1 # 1
              /\ todo'[c][i] = todo[c][i + 1]
          BY <3>3
        <4>3. QED
          BY <2>1, <2>4, <4>2 DEF PlanInv
      <3>6. QED
        BY <1>2, <3>1, <3>4, <3>5 DEF PlanInv, Fresh, HeadAt
    <2>5. ASSUME NEW l \in Labels, pc' = [pc EXCEPT ![c] = l], UNCHANGED <<op, todo>>,
                 UNCHANGED <<repo, dist, marker>>,
                 l \notin {"clone", "fetch", "checkout", "build"},
                 l = "building" => Step(c) = "rebuild",
                 pc[c] \in {"building", "mark"} => l \in {"building", "mark"}
          PROVE  PlanInv(c)'
      <3>1. pc'[c] = l
        BY <1>1, <2>5 DEF TypeOK
      <3>2. QED
        BY <1>2, <2>1, <2>5, <3>1 DEF PlanInv, Step, Fresh, HeadAt
    <2>6. CASE AcquireApplyLock(c) \/ Finish(c) \/ ReadStack(c) \/ CheckMerge(c)
      BY <2>5, <2>6
      DEF AcquireApplyLock, Finish, ReadStack, CheckMerge, At1, Labels, Ended
    <2>7. CASE Quit(c)
      <3>1. todo'[c] = << >> /\ pc'[c] = "failed"
        BY <1>1, <2>7 DEF Quit, TypeOK
      <3>2. QED
        BY <3>1 DEF PlanInv, Ended
    <2>8. CASE WritePin(c)
      <3>1. todo[c] # << >>
        BY <1>1, <2>8, AtWork DEF WritePin, Ended
      <3>2. Drop(c) /\ UNCHANGED <<op, repo, dist, marker>>
        BY <2>8 DEF WritePin
      <3>3. \A p : fresh(p) <=> Fresh(p)
        BY <3>2 DEF Fresh, HeadAt
      <3>4. QED
        BY <2>4, <3>1, <3>2, <3>3
    <2>9. CASE BuildStarts(c)
      <3>1. Step(c) = "rebuild" /\ pc[c] = "next"
        BY <2>1, <2>9 DEF BuildStarts, PlanInv, At1
      <3>2. QED
        BY <2>5, <2>9, <3>1 DEF BuildStarts, Labels
    <2>10. CASE BuildEnds(c)
      <3>1. pc[c] = "building" /\ Step(c) = "rebuild" /\ todo[c] # << >>
        BY <1>1, <2>1, <2>10, AtWork DEF BuildEnds, PlanInv, Ended
      <3>2. /\ pc'[c] = "mark" /\ UNCHANGED <<repo, marker, todo, op>>
            /\ dist' \subseteq dist \cup {At(c)}
        BY <1>1, <2>10, <3>1 DEF BuildEnds, TypeOK
      <3>3. \A i \in DOMAIN todo[c] \ {1} : todo[c][i][1] = "rebuild" =>
              todo[c][i][2] # At(c)
        <4>1. SUFFICES ASSUME NEW i \in DOMAIN todo[c] \ {1}, todo[c][i][1] = "rebuild",
                              todo[c][i][2] = At(c)
                       PROVE  FALSE
          OBVIOUS
        <4>2. todo[c][i] = <<"rebuild", At(c)>>
          <5>1. todo[c][i] \in Steps \X Plugins
            BY <1>1
          <5>2. QED
            BY <4>1, <5>1
        <4>3. QED
          BY <2>1, <2>2, <3>1, <4>2 DEF PlanInv
      <3>4. \A p : p # At(c) /\ fresh(p) => Fresh(p)
        BY <3>2 DEF Fresh, HeadAt
      <3>5. QED
        BY <1>2, <2>1, <3>1, <3>2, <3>3, <3>4 DEF PlanInv, Fresh, HeadAt
    <2>11. CASE WriteBuildMarker(c)
      <3>1. pc[c] = "mark" /\ Step(c) = "rebuild" /\ todo[c] # << >>
        BY <1>1, <2>11, AtWork DEF WriteBuildMarker, WorkInv, Ended
      <3>2. /\ Drop(c) /\ UNCHANGED <<repo, dist, op>>
            /\ \A p \in Plugins : p # At(c) => marker'[p] = marker[p]
        BY <1>1, <2>2, <2>11, <3>1 DEF WriteBuildMarker, TypeOK
      <3>3. \A i \in DOMAIN todo[c] \ {1} : todo[c][i][1] = "rebuild" =>
              todo[c][i][2] # At(c) /\ todo[c][i][2] \in Plugins
        <4>1. SUFFICES ASSUME NEW i \in DOMAIN todo[c] \ {1}, todo[c][i][1] = "rebuild"
                       PROVE  todo[c][i][2] # At(c) /\ todo[c][i][2] \in Plugins
          OBVIOUS
        <4>2. todo[c][i] \in Steps \X Plugins
          BY <1>1
        <4>3. todo[c][i] = <<"rebuild", todo[c][i][2]>> /\ todo[c][i][2] \in Plugins
          BY <4>1, <4>2
        <4>4. todo[c][i] # todo[c][1]
          BY <2>1, <2>2, <3>1 DEF PlanInv
        <4>5. QED
          BY <2>2, <3>1, <4>3, <4>4
      <3>4. \A p \in Plugins : p # At(c) => (fresh(p) <=> Fresh(p))
        BY <3>2 DEF Fresh, HeadAt
      <3>5. QED
        BY <2>4, <3>1, <3>2, <3>3, <3>4
    <2>12. CASE Merge(c)
      <3>1. todo[c] # << >> /\ pc[c] = "merge" /\ At(c) = Advance /\ repo[Advance].there
            /\ repo[Advance].at = Trunk /\ Advance \in Plugins
        BY <1>1, <2>12, Maintaining, AtWork DEF Merge, WorkInv, Ended
      <3>2. Drop(c) /\ UNCHANGED <<dist, marker, op>>
            /\ \A p \in Plugins : p # Advance => repo'[p] = repo[p]
        BY <1>1, <2>12, <3>1 DEF Merge, TypeOK
      <3>3. \A p \in Plugins : p # Advance => (fresh(p) <=> Fresh(p))
        BY <3>2 DEF Fresh, HeadAt
      <3>4. ~Fresh(Advance) => ~fresh(Advance)
        <4> DEFINE k == IF FastForward(HeadAt(Advance), Change) THEN Change
                        ELSE HeadAt(Advance)
        <4>1. repo' = [repo EXCEPT ![Advance] = [repo[Advance] EXCEPT !.trunk = k]]
          BY <2>12, <3>1 DEF Merge
        <4>2. repo[Advance] \in Checkout1
          BY <1>1, <3>1 DEF TypeOK, Checkout1
        <4>3. HeadAt(Advance)' = k
          BY <1>1, <3>1, <4>1, <4>2 DEF HeadAt, HeadOf, TypeOK, Checkout1
        <4>4. FastForward(HeadAt(Advance), Change) => marker[Advance] # Change
          BY <1>1, <2>12, <3>1, MergeIsNew
        <4>5. QED
          BY <3>2, <4>3, <4>4 DEF Fresh, HeadAt
      <3>5. \A i \in DOMAIN todo[c] : todo[c][i][2] \in Plugins
        <4>1. \A w \in Seq(Steps \X Plugins) : \A i \in DOMAIN w : w[i][2] \in Plugins
          OBVIOUS
        <4>2. QED
          BY <1>1, <4>1
      <3>6. QED
        BY <2>4, <3>1, <3>2, <3>3, <3>4, <3>5
    <2>13. QED
      BY <1>5, <2>1, <2>3, <2>6, <2>7, <2>8, <2>9, <2>10, <2>11, <2>12 DEF Command
  <1>6. QED
    BY <1>3, <1>4, <1>5

LEMMA PlanNext ==
    ASSUME MaintainsAlone, TypeInv, WInv, NovelInv, MergeInv,
           \A c \in Callers : PlanInv(c), [Next]_vars
    PROVE  \A c \in Callers : PlanInv(c)'
  <1> USE DEF gitVars, localVars, histVars
  <1>1. TypeOK
    BY DEF TypeInv
  <1>2. CASE UNCHANGED vars
    BY <1>2 DEF vars, PlanInv, Fresh, HeadAt, Step
  <1>3. CASE Publish
    BY <1>3 DEF Publish, PlanInv, Fresh, HeadAt, Step
  <1>4. ASSUME NEW q \in Edited, EditCheckout(q)
        PROVE  \A c \in Callers : PlanInv(c)'
    <2>1. \A p \in Plugins : HeadAt(p)' = HeadAt(p)
      BY <1>1, <1>4, PluginAssumption DEF EditCheckout, HeadAt, HeadOf, TypeOK
    <2>2. \A c \in Callers : \A i \in DOMAIN todo[c] : todo[c][i][2] \in Plugins
      <3>1. \A w \in Seq(Steps \X Plugins) : \A i \in DOMAIN w : w[i][2] \in Plugins
        OBVIOUS
      <3>2. QED
        BY <1>1, <3>1 DEF TypeOK
    <2>3. UNCHANGED <<dist, marker, pc, op, todo>>
      BY <1>4 DEF EditCheckout
    <2>4. QED
      BY <2>1, <2>2, <2>3 DEF PlanInv, Fresh, Step
  <1>5. ASSUME NEW d \in Callers, Command(d)
        PROVE  \A c \in Callers : PlanInv(c)'
    BY <1>5, OthersPlan, OwnPlan
  <1>6. QED
    BY <1>2, <1>3, <1>4, <1>5 DEF Next

\* A rebuild is owed until it has ended, and marked only then.
LEMMA OwedNext ==
    ASSUME MaintainsAlone, PInv, WInv, NovelInv, MergeInv, OwedInv,
           \A c \in Callers : PlanInv(c), [Next]_vars
    PROVE  OwedInv'
  <1> USE DEF gitVars, localVars, histVars, Goto
  <1>1. /\ TypeInv /\ TypeOK /\ RunsAlone /\ \A c \in Callers : WorkInv(c)
        /\ None \notin Commits
    BY GitAssumption DEF PInv, TypeInv, WInv
  <1>2. \A p \in Plugins : repo[p].there => repo'[p].there
    BY <1>1, CheckoutsStay
  <1>3. \A c \in Callers : pc[c] = "mark" => At(c) \in Plugins
    BY <1>1, AtWork DEF Ended
  <1>4. ASSUME \A p \in Plugins : HeadAt(p)' = HeadAt(p),
               UNCHANGED <<dist, marker, owed>>,
               \A c \in Callers : pc'[c] = "mark" => pc[c] = "mark" /\ todo'[c] = todo[c]
        PROVE  OwedInv'
    BY <1>2, <1>3, <1>4 DEF OwedInv, HeadAt, HeadOf, At
  <1>5. CASE UNCHANGED vars
    BY <1>4, <1>5 DEF vars, HeadAt
  <1>6. CASE Publish
    BY <1>4, <1>6 DEF Publish, HeadAt
  <1>7. ASSUME NEW q \in Edited, EditCheckout(q)
        PROVE  OwedInv'
    <2>1. \A p \in Plugins : HeadAt(p)' = HeadAt(p)
      BY <1>1, <1>7, PluginAssumption DEF EditCheckout, HeadAt, HeadOf, TypeOK
    <2>2. QED
      BY <1>4, <1>7, <2>1 DEF EditCheckout
  <1>8. ASSUME NEW c \in Callers, Command(c)
        PROVE  OwedInv'
    <2> DEFINE p == At(c)
    <2>1. WorkInv(c) /\ PlanInv(c) /\ todo[c] \in Seq(Steps \X Plugins)
      BY <1>1 DEF TypeOK
    <2>2. \A d \in Callers \ {c} : pc'[d] = pc[d] /\ todo'[d] = todo[d]
      BY <1>1, <1>8, OthersLocal
    <2>3. \A d \in Callers \ {c} : pc[d] # "mark"
      BY <1>1, <1>8, Maintaining, NoOtherSteps
    <2>4. \A d \in Callers \ {c} : pc'[d] # "mark"
      BY <2>2, <2>3
    <2>5. CASE UNCHANGED <<repo, dist, marker, owed>> /\ pc'[c] # "mark"
      BY <1>4, <2>2, <2>5 DEF HeadAt
    <2>6. CASE Clone(c)
      <3>1. p \in Plugins /\ ~repo[p].there /\ pc'[c] = "build"
        BY <1>1, <2>6, AtWork DEF Clone, TypeOK, Ended
      <3>2. /\ UNCHANGED <<marker, owed>> /\ dist \subseteq dist'
            /\ dist' \subseteq dist \cup {p}
        BY <2>6 DEF Clone
      <3>3. marker[p] = None
        BY <3>1 DEF OwedInv
      <3>4. QED
        BY <1>1, <1>2, <2>4, <3>1, <3>2, <3>3 DEF OwedInv
    <2>7. CASE Fetch(c) \/ Checkout(c)
      <3>1. pc'[c] # "mark" /\ UNCHANGED <<dist, marker, owed>>
        BY <1>1, <2>7 DEF Fetch, Checkout, TypeOK
      <3>2. QED
        BY <1>2, <2>4, <3>1 DEF OwedInv
    <2>8. CASE BuildStarts(c)
      <3>1. p \in Plugins /\ 1 \in DOMAIN todo[c] /\ todo[c][1] = <<Step(c), p>>
        BY <1>1, <2>8, AtWork, AtType DEF BuildStarts, At1, Ended
      <3>2. UNCHANGED <<repo, dist, marker>> /\ pc'[c] = "building"
        BY <1>1, <2>8 DEF BuildStarts, TypeOK
      <3>3. CASE Step(c) # "rebuild"
        BY <1>2, <2>4, <2>8, <3>2, <3>3 DEF BuildStarts, OwedInv
      <3>4. CASE Step(c) = "rebuild"
        <4>1. op[c] = "maintain" /\ repo[p].there
          BY <2>1, <3>1, <3>4 DEF WorkInv
        <4>2. pc[c] = "next"
          BY <2>1, <2>8, <4>1 DEF BuildStarts, PlanInv, At1
        <4>3. ~Fresh(p)
          BY <2>1, <3>1, <3>4, <4>1, <4>2 DEF PlanInv
        <4>4. HeadAt(p) \in Commits
          BY <1>1, <3>1, <4>1 DEF TypeOK
        <4>5. /\ owed' \in [Plugins -> SUBSET Commits]
              /\ \A q \in Plugins :
                   owed'[q] \subseteq owed[q] \cup (IF q = p THEN {HeadAt(p)} ELSE {})
          <5>1. owed' = [owed EXCEPT ![p] = @ \cup {HeadAt(p)}]
            BY <2>8, <3>4 DEF BuildStarts
          <5>2. QED
            BY <3>1, <4>4, <5>1 DEF OwedInv
        <4>6. QED
          BY <1>2, <2>4, <3>2, <4>3, <4>4, <4>5 DEF OwedInv, Fresh
      <3>5. QED
        BY <3>3, <3>4
    <2>9. CASE BuildEnds(c)
      <3>1. p \in Plugins /\ pc[c] = "building" /\ todo[c] # << >>
            /\ 1 \in DOMAIN todo[c] /\ todo[c][1] = <<Step(c), p>>
        BY <1>1, <2>9, AtWork, AtType DEF BuildEnds, Ended
      <3>2. UNCHANGED <<repo, marker>> /\ dist' = dist \cup ({p} \cap Compiled)
        BY <2>9 DEF BuildEnds
      <3>3. \A q \in Plugins : HeadAt(q)' = HeadAt(q)
        BY <3>2 DEF HeadAt
      <3>4. p \in dist' => marker[p] \notin owed[p]
        BY <1>1, <3>1, <3>2 DEF OwedInv
      <3>5. CASE Step(c) # "rebuild"
        <4>1. pc'[c] = "next" /\ owed' = owed
          BY <1>1, <2>9, <3>5 DEF BuildEnds, Drop, TypeOK
        <4>2. QED
          BY <1>2, <2>4, <3>2, <3>4, <4>1 DEF OwedInv
      <3>6. CASE Step(c) = "rebuild"
        <4>1. owed' = [owed EXCEPT ![p] = @ \ {HeadAt(p)}] /\ todo' = todo
          BY <2>9, <3>6 DEF BuildEnds
        <4>2. /\ \A q \in Plugins : owed'[q] \subseteq owed[q]
              /\ owed' \in [Plugins -> SUBSET Commits]
          BY <3>1, <4>1 DEF OwedInv
        <4>3. HeadAt(p) \notin owed'[p]
          BY <3>1, <4>1 DEF OwedInv
        <4>4. At(c)' = p
          BY <4>1 DEF At
        <4>5. QED
          BY <1>2, <2>4, <3>2, <3>3, <3>4, <4>2, <4>3, <4>4 DEF OwedInv
      <3>7. QED
        BY <3>5, <3>6
    <2>10. CASE WriteBuildMarker(c)
      <3>1. p \in Plugins /\ pc[c] = "mark" /\ repo[p].there
        BY <1>1, <2>1, <2>10, AtWork DEF WriteBuildMarker, WorkInv, Ended
      <3>2. /\ UNCHANGED <<repo, dist, owed>> /\ pc'[c] = "next"
            /\ marker' = [marker EXCEPT ![p] = HeadAt(p)]
        BY <1>1, <2>10 DEF WriteBuildMarker, MarkedCommit, Drop, TypeOK
      <3>3. HeadAt(p) \notin owed[p] /\ (p \in Compiled => p \in dist)
        BY <3>1 DEF OwedInv
      <3>4. QED
        BY <1>1, <1>2, <2>4, <3>1, <3>2, <3>3 DEF OwedInv, TypeOK
    <2>11. CASE Merge(c)
      <3>1. p = Advance /\ p \in Plugins /\ repo[p].there
        BY <1>1, <2>1, <2>11, Maintaining DEF Merge, WorkInv
      <3>2. UNCHANGED <<dist, marker>> /\ pc'[c] = "next"
        BY <1>1, <2>11 DEF Merge, Drop, TypeOK
      <3>3. CASE FastForward(HeadAt(p), Change)
        <4>1. marker[p] # Change /\ Change \in Commits
          BY <1>1, <2>1, <2>11, <3>1, <3>3, MergeIsNew, GitAssumption
        <4>2. /\ owed' \in [Plugins -> SUBSET Commits]
              /\ \A q \in Plugins :
                   owed'[q] \subseteq owed[q] \cup (IF q = p THEN {Change} ELSE {})
          <5>1. \/ owed' = [owed EXCEPT ![p] = @ \cup {Change}]
                \/ owed' = owed
            BY <2>11, <3>3 DEF Merge
          <5>2. QED
            BY <3>1, <4>1, <5>1 DEF OwedInv
        <4>3. QED
          BY <1>2, <2>4, <3>2, <4>1, <4>2 DEF OwedInv
      <3>4. CASE ~FastForward(HeadAt(p), Change)
        <4>1. owed' = owed
          BY <2>11, <3>4 DEF Merge
        <4>2. QED
          BY <1>2, <2>4, <3>2, <4>1 DEF OwedInv
      <3>5. QED
        BY <3>3, <3>4
    <2>12. CASE ~BuildEnds(c)
      <3>1. pc'[c] # "mark"
        BY <1>1, <1>8, <2>12
        DEF Command, Begin, BeginMaintain, Start, AcquireApplyLock, Finish, Inspect,
            Clone, SkipPinned, Fetch, Checkout, BuildStarts, WriteBuildMarker,
            CapturePin, ReadStack, WritePin, CheckMerge, Merge, Quit, Drop, TypeOK
      <3>2. QED
        BY <1>8, <2>5, <2>6, <2>7, <2>8, <2>10, <2>11, <2>12, <3>1, Quiet
    <2>13. QED
      BY <2>9, <2>12
  <1>9. QED
    BY <1>5, <1>6, <1>7, <1>8 DEF Next

LEMMA RInvInit == ChangeIsLocal /\ Init => RInv
  <1> SUFFICES ASSUME ChangeIsLocal, Init PROVE RInv
    OBVIOUS
  <1>1. 1 \in DOMAIN Published /\ Published[1] # Change /\ Advance \in Plugins
    BY GitAssumption, PluginAssumption DEF ChangeIsLocal
  <1>2. NovelInv
    BY <1>1 DEF Init, NovelInv, CloneAt, Absent
  <1>3. OwedInv
    BY DEF Init, OwedInv
  <1>4. \A c \in Callers : PlanInv(c)
    BY DEF Init, PlanInv
  <1>5. QED
    BY <1>2, <1>3, <1>4, MInvInit DEF RInv

LEMMA RInvNext == MaintainsAlone /\ ChangeIsLocal /\ RInv /\ [Next]_vars => RInv'
  <1> SUFFICES ASSUME MaintainsAlone, ChangeIsLocal, RInv, [Next]_vars PROVE RInv'
    OBVIOUS
  <1>1. MInv /\ PInv /\ TypeInv /\ WInv /\ MergeInv /\ NovelInv /\ OwedInv
        /\ \A c \in Callers : PlanInv(c)
    BY DEF RInv, MInv, PInv
  <1>2. MInv'
    BY <1>1, MInvNext
  <1>3. NovelInv'
    BY <1>1, NovelNext
  <1>4. OwedInv'
    BY <1>1, OwedNext
  <1>5. \A c \in Callers : PlanInv(c)'
    BY <1>1, PlanNext
  <1>6. QED
    BY <1>2, <1>3, <1>4, <1>5 DEF RInv

\* DetectPluginDrift finds what is left to do, for any plugins, with build
\* commands or without, commits and number of commands: while HEAD is at a
\* commit that a run of `maintain` has merged or begun to rebuild, and no run has
\* rebuilt since, the marker does not vouch for it, wherever the runs fail.
THEOREM UnfinishedIsRetried ==
    ASSUME MaintainsAlone, ChangeIsLocal
    PROVE  Spec => []RebuildsRetried
  <1>1. RInv /\ [Next]_vars => RInv'
    BY RInvNext
  <1>2. RInv => RebuildsRetried
    BY DEF RInv, OwedInv, RebuildsRetried, Fresh
  <1>3. Init => RInv
    BY RInvInit
  <1>4. QED
    BY <1>1, <1>2, <1>3, PTL DEF Spec
=============================================================================
