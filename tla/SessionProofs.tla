---------------------------- MODULE SessionProofs ----------------------------
(***************************************************************************)
(* Theorems about SessionLifecycle for every set of commands and names.    *)
(***************************************************************************)
EXTENDS SessionLifecycle, TLAPS

USE DEF vars, tmuxVars, localVars, histVars

-----------------------------------------------------------------------------
(* Types *)

\* A name is resolved to sessions of that name if there are any, and to
\* sessions whose names start with it otherwise.
LEMMA TargetNamed ==
    ASSUME NEW n \in Names
    PROVE  /\ Target(n) \subseteq live
           /\ \A i \in Target(n) : born[i] \in {n} \cup Longer[n]
           /\ Named(n) # {} => Target(n) = Named(n)
           /\ Named(n) \subseteq live
  BY DEF Target, Named

\* The initial state has the types.
LEMMA TypeInit == Init => TypeOK
<1> SUFFICES ASSUME Init PROVE TypeOK
  OBVIOUS
<1>1. (CHOOSE n \in Names : TRUE) \in Names
  BY NamesAssumption
<1>2. name \in [Callers -> Names]
  BY <1>1 DEF Init
<1>3. born \in Seq(Names) /\ live = Sessions
  BY NamesAssumption DEF Init, Sessions
<1>4. \A i, j \in live : born[i] = born[j] => i = j
  BY NamesAssumption DEF Init
<1> QED
  BY <1>2, <1>3, <1>4
     DEF Init, TypeOK, AllOperations, Labels, Ended, Sessions

\* Sessions that end leave the tmux server with its types.
LEMMA TypeEnd ==
    ASSUME TypeOK, NEW S, EndSessions(S), UNCHANGED born
    PROVE  /\ live' \in SUBSET Sessions'
           /\ idle' \in SUBSET live'
           /\ \A i, j \in live' : born'[i] = born'[j] => i = j
  BY DEF TypeOK, EndSessions, Sessions

\* Begin and Stops keep the types.
LEMMA TypeBegin ==
    ASSUME TypeOK, NEW p \in Callers, Begin(p) \/ Stops(p)
    PROVE  TypeOK'
<1> USE DEF TypeOK, Labels, Ended, Bulk, Checking, Sessions, Goto
<1>1. CASE Begin(p)
  <2>1. PICK o \in Operations, n \in Names :
          /\ op' = [op EXCEPT ![p] = o]
          /\ name' = [name EXCEPT ![p] = n]
          /\ \E l \in First(o) : Goto(p, l)
          /\ fresh' = IF o = "kill" THEN fresh \cup {p} ELSE fresh \ {p}
    BY <1>1 DEF Begin
  <2>2. First(o) \subseteq Labels
    BY SessionBoundsAssumption DEF First, AllOperations
  <2>3. pc' \in [Callers -> Labels]
    BY <2>1, <2>2
  <2>4. op' \in [Callers -> AllOperations] /\ name' \in [Callers -> Names]
    BY <2>1, SessionBoundsAssumption
  <2>5. /\ todo' \in [Callers -> SUBSET Managed]
        /\ listed' \in [Callers -> SUBSET Sessions]
    BY <1>1 DEF Begin
  <2>6. /\ at' \in [Callers -> Sessions \cup {0}]
        /\ expired' \in [Callers -> BOOLEAN]
    BY <1>1 DEF Begin
  <2>7. /\ runs' \in [Callers -> Nat]
        /\ unanswered' \in SUBSET Callers
        /\ fresh' \in SUBSET Callers
    BY <1>1, <2>1 DEF Begin
  <2> QED
    BY <1>1, <2>3, <2>4, <2>5, <2>6, <2>7 DEF Begin
<1>2. CASE Stops(p)
  BY <1>2 DEF Stops
<1> QED
  BY <1>1, <1>2

\* A step of `new` keeps the types; tmux refuses a name it has.
LEMMA TypeLaunch ==
    ASSUME TypeOK, NEW p \in Callers, Launch(p)
    PROVE  TypeOK'
<1> USE DEF TypeOK, Labels, Ended, Bulk, Checking, Sessions, Goto
<1>1. CASE NextSessionName(p)
  <2>1. name' \in [Callers -> Names]
    <3>1. PICK L \in Listings(live) :
            /\ NextIndex(L) \in DOMAIN Numbered
            /\ name' = [name EXCEPT ![p] = Numbered[NextIndex(L)]]
      BY <1>1 DEF NextSessionName
    <3>2. Numbered[NextIndex(L)] \in Names
      BY <3>1, NamesAssumption
    <3> QED
      BY <3>1, <3>2
  <2> QED
    BY <1>1, <2>1 DEF NextSessionName
<1>2. CASE Create(p)
  <2>1. CASE Named(name[p]) # {}
    BY <1>2, <2>1 DEF Create
  <2>2. CASE Named(name[p]) = {}
    <3> DEFINE k == Len(born) + 1
    <3>1. /\ born' = Append(born, name[p])
          /\ live' = live \cup {k}
          /\ pc' \in [Callers -> Labels]
      BY <1>2, <2>2 DEF Create
    <3>2. /\ born' \in Seq(Names)
          /\ k \in Sessions'
          /\ Sessions \subseteq Sessions'
          /\ \A i \in Sessions : born'[i] = born[i]
          /\ born'[k] = name[p]
      BY <3>1
    <3>3. \A i \in live : born[i] # name[p]
      BY <2>2 DEF Named
    <3>4. \A i, j \in live' : born'[i] = born'[j] => i = j
      BY <3>1, <3>2, <3>3
    <3>5. /\ live' \in SUBSET Sessions'
          /\ idle' \in SUBSET live'
          /\ marked' \in SUBSET Sessions'
      BY <1>2, <2>2, <3>1, <3>2 DEF Create
    <3>6. at' \in [Callers -> Sessions' \cup {0}]
      BY <1>2, <3>2 DEF Create
    <3>7. listed' \in [Callers -> SUBSET Sessions']
      BY <1>2, <3>2 DEF Create
    <3> QED
      BY <1>2, <3>1, <3>2, <3>4, <3>5, <3>6, <3>7 DEF Create
  <2> QED
    BY <2>1, <2>2
<1>3. CASE Returns(p)
  BY <1>3 DEF Returns
<1> QED
  BY <1>1, <1>2, <1>3 DEF Launch

\* A step of killall or reap keeps the types: only names with the prefix are
\* listed.
LEMMA TypeKillMany ==
    ASSUME TypeOK, NEW p \in Callers, KillMany(p)
    PROVE  TypeOK'
<1> USE DEF TypeOK, Labels, Ended, Bulk, Checking, Sessions, Goto
<1>1. CASE List(p)
  <2> DEFINE S == IF op[p] = "killall" THEN ManagedOnly(live)
                  ELSE ReapCandidates
  <2>1. S \subseteq Sessions /\ NamesOf(S) \subseteq Managed
    BY DEF ManagedOnly, ReapCandidates, NamesOf
  <2>2. /\ todo' \in [Callers -> SUBSET Managed]
        /\ listed' \in [Callers -> SUBSET Sessions]
        /\ unanswered' \in SUBSET Callers
    BY <1>1, <2>1 DEF List, Listings, NamesOf
  <2> QED
    BY <1>1, <2>2 DEF List
<1>2. CASE KillNext(p)
  <2>1. PICK n \in todo[p] :
          IF Target(n) = {}
          THEN Goto(p, "failed") /\ UNCHANGED <<live, idle, todo>>
          ELSE /\ EndSessions(Target(n))
               /\ todo' = [todo EXCEPT ![p] = Remaining(p, n)]
               /\ UNCHANGED pc
    BY <1>2 DEF KillNext
  <2>2. CASE Target(n) = {}
    BY <1>2, <2>1, <2>2 DEF KillNext
  <2>3. CASE Target(n) # {}
    <3>1. /\ live' \in SUBSET Sessions'
          /\ idle' \in SUBSET live'
          /\ \A i, j \in live' : born'[i] = born'[j] => i = j
      BY <1>2, <2>1, <2>3, TypeEnd DEF KillNext
    <3>2. todo' = [todo EXCEPT ![p] = Remaining(p, n)]
      BY <2>1, <2>3
    <3>3. Remaining(p, n) \in SUBSET Managed
      BY DEF Remaining
    <3>4. todo' \in [Callers -> SUBSET Managed]
      BY <3>2, <3>3
    <3> QED
      BY <1>2, <2>1, <2>3, <3>1, <3>4 DEF KillNext
  <2> QED
    BY <2>2, <2>3
<1>3. CASE AllKilled(p)
  BY <1>3 DEF AllKilled
<1> QED
  BY <1>1, <1>2, <1>3 DEF KillMany

\* A step of kill or restart keeps the types.
LEMMA TypeKillOne ==
    ASSUME TypeOK, NEW p \in Callers, KillOne(p)
    PROVE  TypeOK'
<1> USE DEF TypeOK, Labels, Ended, Bulk, Checking, Sessions, Goto
<1>1. CASE WriteKillSentinel(p)
  BY <1>1 DEF WriteKillSentinel
<1>2. CASE SentinelFails(p)
  BY <1>2 DEF SentinelFails
<1>3. CASE Kill(p)
  <2>1. CASE Target(name[p]) = {}
    BY <1>3, <2>1 DEF Kill
  <2>2. CASE Target(name[p]) # {}
    <3>1. /\ live' \in SUBSET Sessions'
          /\ idle' \in SUBSET live'
          /\ \A i, j \in live' : born'[i] = born'[j] => i = j
      BY <1>3, <2>2, TypeEnd DEF Kill
    <3>2. marked' \in SUBSET Sessions'
      BY <1>3, <2>2 DEF Kill, Named
    <3> QED
      BY <1>3, <2>2, <3>1, <3>2 DEF Kill
  <2> QED
    BY <2>1, <2>2
<1>4. CASE VerifyDead(p)
  BY <1>4 DEF VerifyDead
<1> QED
  BY <1>1, <1>2, <1>3, <1>4 DEF KillOne

\* A step of attach keeps the types.
LEMMA TypeAttach ==
    ASSUME TypeOK, NEW p \in Callers, AttachAndWait(p)
    PROVE  TypeOK'
<1> USE DEF TypeOK, Labels, Ended, Bulk, Checking, Sessions, Goto
<1>1. CASE ResolvePath(p)
  BY <1>1 DEF ResolvePath
<1>2. CASE Attach(p)
  <2>1. Target(name[p]) \subseteq live
    BY TargetNamed
  <2>2. at' \in [Callers -> Sessions \cup {0}]
    BY <1>2, <2>1 DEF Attach
  <2>3. idle' \in SUBSET live
    BY <1>2 DEF Attach
  <2> QED
    BY <1>2, <2>2, <2>3 DEF Attach
<1>3. CASE ClientExits(p)
  BY <1>3 DEF ClientExits
<1>4. CASE SessionExists(p)
  <2>1. pc' \in [Callers -> Labels] /\ unanswered' \in SUBSET Callers
    BY <1>4 DEF SessionExists
  <2> QED
    BY <1>4, <2>1 DEF SessionExists
<1>5. CASE CheckKillSentinel(p)
  BY <1>5 DEF CheckKillSentinel
<1>6. CASE CleanupKillSentinel(p)
  <2>1. fresh' \in SUBSET Callers /\ marked' \in SUBSET Sessions
    BY <1>6 DEF CleanupKillSentinel
  <2> QED
    BY <1>6, <2>1 DEF CleanupKillSentinel
<1>7. CASE EmitHint(p)
  BY <1>7 DEF EmitHint
<1>8. CASE NoHint(p)
  BY <1>8 DEF NoHint
<1>9. CASE Expire(p)
  BY <1>9 DEF Expire
<1> QED
  BY <1>1, <1>2, <1>3, <1>4, <1>5, <1>6, <1>7, <1>8, <1>9 DEF AttachAndWait

\* What happens in the tmux server keeps the types.
LEMMA TypeEnvironment ==
    ASSUME TypeOK, NEW i \in Sessions,
           SessionEnds(i) \/ GoesIdle(i) \/ Activity(i)
    PROVE  TypeOK'
<1>1. CASE SessionEnds(i)
  <2>1. /\ live' \in SUBSET Sessions'
        /\ idle' \in SUBSET live'
        /\ \A k, j \in live' : born'[k] = born'[j] => k = j
    BY <1>1, TypeEnd DEF SessionEnds
  <2> QED
    BY <1>1, <2>1 DEF SessionEnds, TypeOK, Sessions
<1>2. CASE GoesIdle(i)
  BY <1>2 DEF GoesIdle, TypeOK, Sessions
<1>3. CASE Activity(i)
  BY <1>3 DEF Activity, TypeOK, Sessions
<1> QED
  BY <1>1, <1>2, <1>3

\* Every step keeps the types.
LEMMA TypeStep == TypeOK /\ [Next]_vars => TypeOK'
<1> SUFFICES ASSUME TypeOK, [Next]_vars PROVE TypeOK'
  OBVIOUS
<1>1. ASSUME NEW p \in Callers, Begin(p) \/ Stops(p) PROVE TypeOK'
  BY <1>1, TypeBegin
<1>2. ASSUME NEW p \in Callers, Launch(p) PROVE TypeOK'
  BY <1>2, TypeLaunch
<1>3. ASSUME NEW p \in Callers, KillMany(p) PROVE TypeOK'
  BY <1>3, TypeKillMany
<1>4. ASSUME NEW p \in Callers, KillOne(p) PROVE TypeOK'
  BY <1>4, TypeKillOne
<1>5. ASSUME NEW p \in Callers, AttachAndWait(p) PROVE TypeOK'
  BY <1>5, TypeAttach
<1>6. ASSUME NEW i \in Sessions, SessionEnds(i) \/ GoesIdle(i) \/ Activity(i)
      PROVE  TypeOK'
  BY <1>6, TypeEnvironment
<1>7. CASE UNCHANGED vars
  BY <1>7 DEF TypeOK, Sessions
<1> QED
  BY <1>1, <1>2, <1>3, <1>4, <1>5, <1>6, <1>7 DEF Next

\* Fields have their types, tmux never has two sessions of one name, and what
\* killall and reap have left to kill has the prefix.
THEOREM TypeCorrect == Spec => []TypeOK
<1> QED
  BY TypeInit, TypeStep, PTL DEF Spec

-----------------------------------------------------------------------------
(* What a command knows *)

\* p's client has been attached to the session that is named, and tmux has
\* not failed to answer p.
Reliable(p) ==
    /\ p \notin unanswered
    /\ ~expired[p]
    /\ born[at[p]] = name[p]

\* After has-session, the session that was attached is gone.
SeenGone(p) ==
    /\ pc[p] \in {"attached"} \cup Checking => at[p] \in Sessions
    /\ pc[p] \in {"checkSentinel", "cleanFound", "cleanNone", "query"}
       /\ Reliable(p) => at[p] \notin live

\* The sentinel of a kill is there before the session dies, and stays until
\* it is forgotten together with the sessions it stands for.
SentinelCovers ==
    /\ \A i \in marked : i \notin live /\ born[i] \in sentinel
    /\ \A p \in fresh : pc[p] = "kill" => name[p] \in sentinel
    /\ \A p \in Callers :
         pc[p] = "query" /\ Reliable(p) => at[p] \notin marked

\* What killall and reap have listed is still to be killed, or gone, unless
\* tmux has not answered them.
ListedCovered(p) ==
    op[p] \in {"killall", "reap"} =>
    /\ pc[p] \in {"list", "killing", "done", "failed"}
    /\ p \notin unanswered =>
         /\ pc[p] = "killing" => NamesOf(listed[p] \cap live) \subseteq todo[p]
         /\ pc[p] = "done" => listed[p] \cap live = {}

SessionInv ==
    /\ TypeOK
    /\ SentinelCovers
    /\ \A p \in Callers : SeenGone(p) /\ ListedCovered(p)

-----------------------------------------------------------------------------
(* Whom a step concerns *)

Step(p) ==
    \/ Begin(p) \/ Stops(p) \/ Launch(p) \/ KillMany(p) \/ KillOne(p)
    \/ AttachAndWait(p)

\* The step is not one of q's.
Untouched(q) ==
    /\ pc'[q] = pc[q] /\ op'[q] = op[q] /\ name'[q] = name[q]
    /\ todo'[q] = todo[q] /\ at'[q] = at[q] /\ expired'[q] = expired[q]
    /\ listed'[q] = listed[q]
    /\ q \in unanswered' <=> q \in unanswered

\* Every step is a step of one command, of the tmux server, or nothing.
LEMMA StepOf ==
    ASSUME [Next]_vars
    PROVE  \/ \E p \in Callers : Step(p)
           \/ \E i \in Sessions : SessionEnds(i) \/ GoesIdle(i) \/ Activity(i)
           \/ UNCHANGED vars
  BY DEF Next, Step

\* A command changes its own fields only.
LEMMA OthersStay ==
    ASSUME TypeOK, NEW p \in Callers, NEW q \in Callers, p # q, Step(p)
    PROVE  Untouched(q)
<1> USE DEF TypeOK, Untouched, Goto
<1>1. CASE Begin(p)
  BY <1>1 DEF Begin
<1>2. CASE Stops(p)
  BY <1>2 DEF Stops
<1>3. CASE Launch(p)
  BY <1>3 DEF Launch, NextSessionName, Create, Returns
<1>4. CASE KillMany(p)
  <2>1. CASE List(p)
    BY <2>1 DEF List
  <2>2. CASE KillNext(p)
    BY <2>2 DEF KillNext
  <2>3. CASE AllKilled(p)
    BY <2>3 DEF AllKilled
  <2> QED
    BY <1>4, <2>1, <2>2, <2>3 DEF KillMany
<1>5. CASE KillOne(p)
  BY <1>5 DEF KillOne, WriteKillSentinel, SentinelFails, Kill, VerifyDead
<1>6. CASE AttachAndWait(p)
  <2>1. CASE ResolvePath(p)
    BY <2>1 DEF ResolvePath
  <2>2. CASE Attach(p)
    BY <2>2 DEF Attach
  <2>3. CASE ClientExits(p)
    BY <2>3 DEF ClientExits
  <2>4. CASE SessionExists(p)
    BY <2>4 DEF SessionExists
  <2>5. CASE CheckKillSentinel(p)
    BY <2>5 DEF CheckKillSentinel
  <2>6. CASE CleanupKillSentinel(p)
    BY <2>6 DEF CleanupKillSentinel
  <2>7. CASE EmitHint(p) \/ NoHint(p) \/ Expire(p)
    BY <2>7 DEF EmitHint, NoHint, Expire
  <2> QED
    BY <1>6, <2>1, <2>2, <2>3, <2>4, <2>5, <2>6, <2>7 DEF AttachAndWait
<1> QED
  BY <1>1, <1>2, <1>3, <1>4, <1>5, <1>6 DEF Step

\* The tmux server changes no command's fields.
LEMMA EnvironmentStays ==
    ASSUME NEW q \in Callers,
           \/ \E i \in Sessions : SessionEnds(i) \/ GoesIdle(i) \/ Activity(i)
           \/ UNCHANGED vars
    PROVE  Untouched(q)
  BY DEF Untouched, SessionEnds, GoesIdle, Activity

\* A step either leaves q's fields alone or is q's.
LEMMA UntouchedOrStep ==
    ASSUME TypeOK, [Next]_vars, NEW q \in Callers
    PROVE  Untouched(q) \/ Step(q)
  BY StepOf, OthersStay, EnvironmentStays

\* A session keeps its number and its name, and never comes back to life.
LEMMA SessionsStay ==
    ASSUME TypeOK, [Next]_vars
    PROVE  \A i \in Sessions :
             /\ i \in Sessions'
             /\ born'[i] = born[i]
             /\ i \in live' => i \in live
<1> USE DEF TypeOK, Sessions
<1>1. ASSUME NEW p \in Callers, Begin(p) \/ Stops(p)
      PROVE  UNCHANGED <<born, live>>
  BY <1>1 DEF Begin, Stops
<1>2. ASSUME NEW p \in Callers, Launch(p), ~ Create(p)
      PROVE  UNCHANGED <<born, live>>
  BY <1>2 DEF Launch, NextSessionName, Returns
<1>3. ASSUME NEW p \in Callers, Create(p), born' # born
      PROVE  /\ born' = Append(born, name[p])
             /\ live' = live \cup {Len(born) + 1}
  BY <1>3 DEF Create
<1>4. ASSUME NEW p \in Callers, Create(p), born' = born
      PROVE  live' = live
  <2>1. name[p] \in Names
    OBVIOUS
  <2>2. Append(born, name[p]) # born
    BY <2>1
  <2> QED
    BY <1>4, <2>2 DEF Create
<1>5. ASSUME NEW p \in Callers, KillMany(p) \/ KillOne(p)
      PROVE  born' = born /\ live' \subseteq live
  BY <1>5 DEF KillMany, KillOne, List, KillNext, AllKilled, EndSessions,
              WriteKillSentinel, SentinelFails, Kill, VerifyDead
<1>6. ASSUME NEW p \in Callers, AttachAndWait(p)
      PROVE  UNCHANGED <<born, live>>
  BY <1>6 DEF AttachAndWait, ResolvePath, Attach, ClientExits, SessionExists,
              CheckKillSentinel, CleanupKillSentinel, EmitHint, NoHint, Expire
<1>7. ASSUME NEW i \in Sessions, SessionEnds(i) \/ GoesIdle(i) \/ Activity(i)
      PROVE  born' = born /\ live' \subseteq live
  BY <1>7 DEF SessionEnds, GoesIdle, Activity, EndSessions
<1>8. CASE \E p \in Callers : Create(p) /\ born' # born
  <2>1. PICK p \in Callers : Create(p) /\ born' # born
    BY <1>8
  <2>2. /\ born' = Append(born, name[p])
        /\ live' = live \cup {Len(born) + 1}
    BY <2>1, <1>3
  <2>3. name[p] \in Names
    OBVIOUS
  <2> QED
    BY <2>2, <2>3
<1>9. CASE ~ \E p \in Callers : Create(p) /\ born' # born
  <2>1. born' = born /\ live' \subseteq live
    BY <1>1, <1>2, <1>4, <1>5, <1>6, <1>7, <1>9, StepOf DEF Step
  <2> QED
    BY <2>1
<1> QED
  BY <1>8, <1>9

-----------------------------------------------------------------------------
(* killall, reap *)

\* Only KillNext changes what there is left to kill.
LEMMA OnlyKillNext ==
    ASSUME TypeOK, NEW p \in Callers, [Next]_vars,
           pc[p] = "killing", todo'[p] # todo[p]
    PROVE  KillNext(p)
<1>1. Step(p)
  BY UntouchedOrStep DEF Untouched
<1>2. ~ Begin(p)
  BY DEF Begin, Ended
<1>3. ~ (Stops(p) \/ Launch(p) \/ KillOne(p) \/ AllKilled(p) \/ List(p))
  BY DEF Stops, Launch, NextSessionName, Create, Returns, KillOne,
         WriteKillSentinel, SentinelFails, Kill, VerifyDead, AllKilled, List
<1>4. ~ AttachAndWait(p)
  BY DEF AttachAndWait, ResolvePath, Attach, ClientExits, SessionExists,
         CheckKillSentinel, CleanupKillSentinel, EmitHint, NoHint, Expire,
         Checking
<1> QED
  BY <1>1, <1>2, <1>3, <1>4 DEF Step, KillMany

\* A step that works off the list ends sessions with the prefix only: what the
\* name starts has the prefix as well.
LEMMA BulkStep ==
    ASSUME TypeOK, NEW p \in Callers, [Next]_vars,
           pc[p] = "killing", todo'[p] # todo[p]
    PROVE  NamesOf(live \ live') \subseteq Managed
<1>1. PICK n \in todo[p] : live' = live \ Target(n)
  BY OnlyKillNext DEF KillNext, EndSessions
<1>2. n \in Managed /\ n \in Names
  BY NamesAssumption DEF TypeOK
<1>3. \A i \in Target(n) : born[i] \in Managed
  BY <1>2, TargetNamed, NamesAssumption
<1> QED
  BY <1>1, <1>3 DEF NamesOf

\* killall and reap never end a session without the prefix, whatever tmux
\* makes of a name that is no longer there.
THEOREM BulkKillSparesCustomSessions == Spec => BulkSparesCustom
<1>1. TypeOK /\ [Next]_vars =>
        [\A p \in Callers :
           pc[p] = "killing" /\ todo'[p] # todo[p]
           => NamesOf(live \ live') \subseteq Managed]_vars
  BY BulkStep
<1> QED
  BY <1>1, TypeCorrect, PTL DEF Spec, BulkSparesCustom

\* A step keeps the account of what is listed: a session that dies needs no
\* killing, and the one of a name that is ticked off has died.
LEMMA ListedStep ==
    ASSUME TypeOK, NEW q \in Callers, ListedCovered(q), [Next]_vars
    PROVE  ListedCovered(q)'
<1> USE DEF TypeOK, Goto
<1>1. \A i \in listed[q] : i \in Sessions /\ (i \in live' => i \in live)
                           /\ born'[i] = born[i]
  BY SessionsStay
<1>2. CASE Untouched(q)
  <2>1. /\ listed'[q] = listed[q] /\ todo'[q] = todo[q]
        /\ pc'[q] = pc[q] /\ op'[q] = op[q]
        /\ q \in unanswered' <=> q \in unanswered
    BY <1>2 DEF Untouched
  <2>2. listed'[q] \cap live' \subseteq listed[q] \cap live
    BY <1>1, <2>1
  <2>3. \A i \in listed'[q] \cap live' : born'[i] = born[i]
    BY <1>1, <2>1
  <2>4. NamesOf(listed[q] \cap live)' \subseteq NamesOf(listed[q] \cap live)
    BY <2>2, <2>3 DEF NamesOf
  <2> QED
    BY <2>1, <2>2, <2>4 DEF ListedCovered
<1>3. CASE Begin(q)
  <2>1. pc'[q] \in First(op'[q])
    BY <1>3 DEF Begin
  <2> QED
    BY <2>1 DEF First, ListedCovered
<1>4. CASE Stops(q)
  BY <1>1, <1>4 DEF Stops, ListedCovered
<1>5. CASE Launch(q)
  <2>1. op'[q] = op[q]
    BY <1>5 DEF Launch, NextSessionName, Create, Returns
  <2>2. op[q] \notin {"killall", "reap"}
    BY <1>5 DEF Launch, NextSessionName, Create, Returns, ListedCovered
  <2> QED
    BY <2>1, <2>2 DEF ListedCovered
<1>6. CASE List(q)
  <2>1. /\ pc'[q] = "killing"
        /\ q \notin unanswered' => todo'[q] = NamesOf(listed'[q])
        /\ born' = born
    BY <1>6 DEF List
  <2> QED
    BY <2>1 DEF ListedCovered, NamesOf
<1>7. CASE KillNext(q)
  <2>1. PICK n \in todo[q] :
          IF Target(n) = {}
          THEN Goto(q, "failed") /\ UNCHANGED <<live, idle, todo>>
          ELSE /\ EndSessions(Target(n))
               /\ todo' = [todo EXCEPT ![q] = Remaining(q, n)]
               /\ UNCHANGED pc
    BY <1>7 DEF KillNext
  <2>2. UNCHANGED <<op, listed, born, unanswered>>
    BY <1>7 DEF KillNext
  <2>3. CASE Target(n) = {}
    BY <2>1, <2>2, <2>3 DEF ListedCovered
  <2>4. CASE Target(n) # {}
    <3>1. n \in Names
      BY NamesAssumption
    <3>2. \A i \in live' : i \in live /\ born[i] # n
      BY <2>1, <2>4, <3>1, TargetNamed DEF EndSessions, Named
    <3>3. todo'[q] = todo[q] \ {n} /\ pc'[q] = "killing"
      BY <1>7, <2>1, <2>4 DEF KillNext, Remaining
    <3>4. pc[q] = "killing"
      BY <1>7 DEF KillNext
    <3> QED
      BY <2>2, <3>2, <3>3, <3>4 DEF ListedCovered, NamesOf
  <2> QED
    BY <2>3, <2>4
<1>8. CASE AllKilled(q)
  <2>1. /\ UNCHANGED <<born, live, op, listed, unanswered>>
        /\ pc'[q] = "done" /\ pc[q] = "killing" /\ todo[q] = {}
    BY <1>8 DEF AllKilled
  <2>2. op[q] \in {"killall", "reap"} /\ q \notin unanswered
        => NamesOf(listed[q] \cap live) = {}
    BY <2>1 DEF ListedCovered
  <2>3. ASSUME op[q] \in {"killall", "reap"}, q \notin unanswered,
               NEW i \in listed[q] \cap live
        PROVE  FALSE
    <3>1. born[i] \in NamesOf(listed[q] \cap live)
      BY DEF NamesOf
    <3> QED
      BY <2>2, <2>3, <3>1
  <2> QED
    BY <2>1, <2>3 DEF ListedCovered
<1>9. CASE KillOne(q) \/ AttachAndWait(q)
  <2>1. op[q] \notin {"killall", "reap"}
    BY <1>9 DEF KillOne, WriteKillSentinel, SentinelFails, Kill, VerifyDead,
                AttachAndWait, ResolvePath, Attach, ClientExits,
                SessionExists, CheckKillSentinel, CleanupKillSentinel,
                EmitHint, NoHint, Expire, Checking, ListedCovered
  <2>2. op' = op
    BY <1>9 DEF KillOne, WriteKillSentinel, SentinelFails, Kill, VerifyDead,
                AttachAndWait, ResolvePath, Attach, ClientExits,
                SessionExists, CheckKillSentinel, CleanupKillSentinel,
                EmitHint, NoHint, Expire
  <2> QED
    BY <2>1, <2>2 DEF ListedCovered
<1> QED
  BY <1>2, <1>3, <1>4, <1>5, <1>6, <1>7, <1>8, <1>9, UntouchedOrStep
     DEF Step, KillMany

-----------------------------------------------------------------------------
(* attach *)

\* A step keeps what attach knows: after has-session has said that no session
\* answers to the name, the one it was attached to is gone for good.
LEMMA SeenGoneStep ==
    ASSUME TypeOK, NEW q \in Callers, SeenGone(q), [Next]_vars
    PROVE  SeenGone(q)'
<1> DEFINE After == {"checkSentinel", "cleanFound", "cleanNone", "query"}
<1> USE DEF TypeOK, Goto, Checking
<1>1. \A i \in Sessions : /\ i \in Sessions' /\ born'[i] = born[i]
                          /\ i \in live' => i \in live
  BY SessionsStay
<1>2. CASE Untouched(q)
  BY <1>1, <1>2 DEF Untouched, SeenGone, Reliable
<1>3. CASE Begin(q)
  <2>1. pc'[q] \in First(op'[q])
    BY <1>3 DEF Begin
  <2> QED
    BY <2>1 DEF First, SeenGone
<1>4. CASE Stops(q)
  BY <1>4 DEF Stops, SeenGone
<1>5. CASE Launch(q) \/ KillMany(q) \/ KillOne(q)
  <2>1. pc'[q] \notin {"attached"} \cup Checking
    BY <1>5 DEF Launch, NextSessionName, Create, Returns, KillMany, List,
                KillNext, AllKilled, KillOne, WriteKillSentinel,
                SentinelFails, Kill, VerifyDead
  <2> QED
    BY <2>1 DEF SeenGone
<1>6. CASE ResolvePath(q)
  BY <1>6 DEF ResolvePath, SeenGone
<1>7. CASE Attach(q)
  <2>1. pc'[q] \notin After
    BY <1>7 DEF Attach
  <2>2. pc'[q] = "attached" => at'[q] \in Sessions'
    BY <1>1, <1>7, TargetNamed DEF Attach, Sessions
  <2>3. pc'[q] \in {"attached", "failed"}
    BY <1>7 DEF Attach
  <2> QED
    BY <2>1, <2>2, <2>3 DEF SeenGone
<1>8. CASE ClientExits(q)
  BY <1>1, <1>8 DEF ClientExits, SeenGone
<1>9. CASE SessionExists(q)
  <2>1. UNCHANGED <<born, live, at, expired, name>> /\ at[q] \in Sessions
    BY <1>9 DEF SessionExists, SeenGone
  <2>2. ASSUME pc'[q] = "checkSentinel", Reliable(q)'
        PROVE  at[q] \notin live
    <3>1. ~ expired[q] /\ born[at[q]] = name[q] /\ q \notin unanswered'
      BY <2>1, <2>2 DEF Reliable
    <3>2. Target(name[q]) = {}
      BY <1>9, <2>2, <3>1 DEF SessionExists
    <3> QED
      BY <3>1, <3>2, TargetNamed DEF Named
  <2>3. pc'[q] \in {"done", "checkSentinel"}
    BY <1>9 DEF SessionExists
  <2> QED
    BY <2>1, <2>2, <2>3 DEF SeenGone, Sessions
<1>10. CASE CheckKillSentinel(q) \/ CleanupKillSentinel(q) \/ EmitHint(q)
            \/ NoHint(q) \/ Expire(q)
  <2>1. /\ UNCHANGED <<born, live, at, name>>
        /\ q \in unanswered' <=> q \in unanswered
        /\ expired[q] => expired'[q]
    BY <1>10 DEF CheckKillSentinel, CleanupKillSentinel, EmitHint, NoHint,
                 Expire
  <2>2. /\ pc'[q] \in {"attached"} \cup Checking
           => pc[q] \in {"attached"} \cup Checking
        /\ pc'[q] \in After => pc[q] \in After
    BY <1>10 DEF CheckKillSentinel, CleanupKillSentinel, EmitHint, NoHint,
                 Expire
  <2> QED
    BY <2>1, <2>2 DEF SeenGone, Reliable, Sessions
<1> QED
  BY <1>2, <1>3, <1>4, <1>5, <1>6, <1>7, <1>8, <1>9, <1>10, UntouchedOrStep
     DEF Step, AttachAndWait

-----------------------------------------------------------------------------
(* Sentinels *)

\* The steps other than a kill and the removal of a sentinel leave the
\* sentinels and what they stand for alone.
LEMMA SentinelsStay ==
    ASSUME [Next]_vars,
           \A q \in Callers : ~ Kill(q) /\ ~ CleanupKillSentinel(q)
    PROVE  sentinel \subseteq sentinel' /\ marked' = marked
<1>1. ASSUME NEW q \in Callers, Begin(q) \/ Stops(q) \/ Launch(q)
      PROVE  UNCHANGED <<sentinel, marked>>
  BY <1>1 DEF Begin, Stops, Launch, NextSessionName, Create, Returns
<1>2. ASSUME NEW q \in Callers, KillMany(q)
      PROVE  UNCHANGED <<sentinel, marked>>
  BY <1>2 DEF KillMany, List, KillNext, AllKilled
<1>3. ASSUME NEW q \in Callers, KillOne(q)
      PROVE  sentinel \subseteq sentinel' /\ marked' = marked
  BY <1>3 DEF KillOne, WriteKillSentinel, SentinelFails, VerifyDead
<1>4. ASSUME NEW q \in Callers, AttachAndWait(q)
      PROVE  UNCHANGED <<sentinel, marked>>
  BY <1>4 DEF AttachAndWait, ResolvePath, Attach, ClientExits, SessionExists,
              CheckKillSentinel, EmitHint, NoHint, Expire
<1>5. ASSUME NEW i \in Sessions, SessionEnds(i) \/ GoesIdle(i) \/ Activity(i)
      PROVE  UNCHANGED <<sentinel, marked>>
  BY <1>5 DEF SessionEnds, GoesIdle, Activity
<1> QED
  BY <1>1, <1>2, <1>3, <1>4, <1>5, StepOf DEF Step

\* Only a new `kill` is a kill whose sentinel nobody has removed yet.
LEMMA FreshBegins ==
    ASSUME TypeOK, [Next]_vars, NEW p \in fresh', p \notin fresh
    PROVE  Begin(p) /\ pc'[p] # "kill"
<1>1. ASSUME NEW q \in Callers, Step(q), ~ Begin(q)
      PROVE  fresh' \subseteq fresh
  <2>1. CASE Stops(q) \/ Launch(q) \/ KillMany(q) \/ KillOne(q)
    BY <2>1 DEF Stops, Launch, NextSessionName, Create, Returns, KillMany,
                List, KillNext, AllKilled, KillOne, WriteKillSentinel,
                SentinelFails, Kill, VerifyDead
  <2>2. CASE AttachAndWait(q)
    BY <2>2 DEF AttachAndWait, ResolvePath, Attach, ClientExits,
                SessionExists, CheckKillSentinel, CleanupKillSentinel,
                EmitHint, NoHint, Expire
  <2> QED
    BY <1>1, <2>1, <2>2 DEF Step
<1>2. ASSUME NEW i \in Sessions, SessionEnds(i) \/ GoesIdle(i) \/ Activity(i)
      PROVE  fresh' \subseteq fresh
  BY <1>2 DEF SessionEnds, GoesIdle, Activity
<1>3. PICK q \in Callers : Begin(q)
  BY <1>1, <1>2, StepOf
<1>4. PICK o \in Operations :
        /\ \E l \in First(o) : Goto(q, l)
        /\ fresh' = IF o = "kill" THEN fresh \cup {q} ELSE fresh \ {q}
  BY <1>3 DEF Begin
<1>5. p = q /\ o = "kill"
  BY <1>4
<1>6. pc'[p] = "sentinel"
  BY <1>4, <1>5 DEF First, Goto, TypeOK
<1> QED
  BY <1>3, <1>5, <1>6

\* Without a kill or a removal: a kill that goes ahead has written its
\* sentinel, and no client starts to ask opencode.
LEMMA CoversOtherwise ==
    ASSUME TypeOK, SentinelCovers, \A p \in Callers : SeenGone(p),
           [Next]_vars,
           \A q \in Callers : ~ Kill(q) /\ ~ CleanupKillSentinel(q)
    PROVE  SentinelCovers'
<1> USE DEF TypeOK, Goto
<1>1. sentinel \subseteq sentinel' /\ marked' = marked
  BY SentinelsStay
<1>2. \A i \in marked' : i \notin live' /\ born'[i] \in sentinel'
  BY <1>1, SessionsStay DEF SentinelCovers
<1>3. ASSUME NEW p \in fresh', pc'[p] = "kill"
      PROVE  name'[p] \in sentinel'
  <2>1. p \in fresh /\ p \in Callers
    BY <1>3, FreshBegins
  <2>2. CASE Untouched(p)
    BY <1>1, <1>3, <2>1, <2>2 DEF Untouched, SentinelCovers
  <2>3. CASE Step(p)
    <3>1. CASE Begin(p)
      <4>1. PICK o \in Operations :
              /\ \E l \in First(o) : Goto(p, l)
              /\ fresh' = IF o = "kill" THEN fresh \cup {p} ELSE fresh \ {p}
        BY <3>1 DEF Begin
      <4>2. o = "kill"
        BY <1>3, <4>1
      <4>3. pc'[p] = "sentinel"
        BY <2>1, <4>1, <4>2 DEF First
      <4> QED
        BY <1>3, <4>3
    <3>2. CASE KillOne(p)
      <4>1. WriteKillSentinel(p)
        BY <1>3, <2>1, <3>2
           DEF KillOne, SentinelFails, VerifyDead
      <4> QED
        BY <4>1 DEF WriteKillSentinel
    <3>3. CASE Stops(p) \/ Launch(p) \/ KillMany(p)
      BY <1>3, <2>1, <3>3 DEF Stops, Launch, NextSessionName, Create, Returns,
                              KillMany, List, KillNext, AllKilled
    <3>4. CASE AttachAndWait(p)
      BY <1>3, <2>1, <3>4
         DEF AttachAndWait, ResolvePath, Attach, ClientExits, SessionExists,
             CheckKillSentinel, EmitHint, NoHint, Expire, Checking
    <3> QED
      BY <2>3, <3>1, <3>2, <3>3, <3>4 DEF Step
  <2> QED
    BY <2>1, <2>2, <2>3, UntouchedOrStep
<1>4. ASSUME NEW p \in Callers, pc'[p] = "query", Reliable(p)'
      PROVE  at'[p] \notin marked'
  <2>1. Untouched(p) \/ Expire(p)
    <3>1. ASSUME Begin(p) PROVE FALSE
      <4>1. \E o \in Operations : \E l \in First(o) : pc'[p] = l
        BY <3>1 DEF Begin
      <4> QED
        BY <1>4, <4>1 DEF First
    <3>2. ~ (Stops(p) \/ Launch(p) \/ KillMany(p) \/ KillOne(p))
      BY <1>4 DEF Stops, Launch, NextSessionName, Create, Returns, KillMany,
                  List, KillNext, AllKilled, KillOne, WriteKillSentinel,
                  SentinelFails, VerifyDead
    <3>3. AttachAndWait(p) => Expire(p)
      BY <1>4 DEF AttachAndWait, ResolvePath, Attach, ClientExits,
                  SessionExists, CheckKillSentinel, EmitHint, NoHint
    <3> QED
      BY <3>1, <3>2, <3>3, UntouchedOrStep DEF Step
  <2>2. ~ Expire(p)
    BY <1>4 DEF Expire, Reliable
  <2>3. Untouched(p)
    BY <2>1, <2>2
  <2>4. pc[p] = "query" /\ at'[p] = at[p] /\ at[p] \in Sessions
    BY <1>4, <2>3 DEF Untouched, SeenGone, Checking
  <2>5. Reliable(p)
    BY <1>4, <2>3, <2>4, SessionsStay DEF Untouched, Reliable
  <2> QED
    BY <1>1, <2>4, <2>5 DEF SentinelCovers
<1>5. fresh' \subseteq Callers
  BY TypeStep
<1> QED
  BY <1>2, <1>3, <1>4 DEF SentinelCovers

\* A kill: what it marks has died, under a name whose sentinel is there; a
\* client that has seen its session gone is not concerned.
LEMMA CoversKill ==
    ASSUME TypeOK, SentinelCovers, \A p \in Callers : SeenGone(p),
           NEW q \in Callers, Kill(q)
    PROVE  SentinelCovers'
<1> USE DEF TypeOK, Goto
<1>1. /\ pc[q] = "kill" /\ pc'[q] \notin {"kill", "query"}
      /\ \A p \in Callers \ {q} : pc'[p] = pc[p]
      /\ UNCHANGED <<born, sentinel, fresh, name, at, expired, unanswered>>
  BY DEF Kill
<1>2. /\ live' \subseteq live
      /\ marked' \subseteq marked \cup Named(name[q])
      /\ \A i \in marked' \ marked : i \notin live' /\ q \in fresh
  <2>1. CASE Target(name[q]) = {}
    BY <2>1 DEF Kill
  <2>2. CASE Target(name[q]) # {}
    <3>1. Named(name[q]) \subseteq Target(name[q])
      BY TargetNamed
    <3> QED
      BY <2>2, <3>1 DEF Kill, EndSessions
  <2> QED
    BY <2>1, <2>2
<1>3. \A i \in marked' : i \notin live' /\ born'[i] \in sentinel'
  BY <1>1, <1>2 DEF SentinelCovers, Named
<1>4. \A p \in fresh' : pc'[p] = "kill" => name'[p] \in sentinel'
  BY <1>1 DEF SentinelCovers
<1>5. ASSUME NEW p \in Callers, pc'[p] = "query", Reliable(p)'
      PROVE  at'[p] \notin marked'
  <2>1. p # q /\ pc[p] = "query" /\ Reliable(p)
    BY <1>1, <1>5 DEF Reliable
  <2>2. at[p] \notin live /\ at[p] \notin marked
    BY <2>1 DEF SeenGone, SentinelCovers
  <2> QED
    BY <1>1, <1>2, <2>2 DEF Named
<1> QED
  BY <1>3, <1>4, <1>5 DEF SentinelCovers

\* The removal of a sentinel: what it stands for is forgotten with it, and
\* the client goes on to opencode without any session of that name marked.
LEMMA CoversCleanup ==
    ASSUME TypeOK, SentinelCovers, NEW q \in Callers, CleanupKillSentinel(q)
    PROVE  SentinelCovers'
<1> USE DEF TypeOK, Goto
<1>1. /\ pc'[q] # "kill"
      /\ \A p \in Callers \ {q} : pc'[p] = pc[p]
      /\ UNCHANGED <<born, live, name, at, expired, unanswered>>
      /\ sentinel' = sentinel \ {name[q]}
  BY DEF CleanupKillSentinel
<1>2. /\ fresh' \subseteq fresh
      /\ \A p \in fresh' : pc'[p] = "kill" => name[p] # name[q]
      /\ marked' \subseteq marked
      /\ \A i \in marked' : born[i] # name[q]
  <2>1. CASE name[q] \in sentinel
    BY <2>1 DEF CleanupKillSentinel
  <2>2. CASE name[q] \notin sentinel
    <3>1. fresh' = fresh /\ marked' = marked
      BY <2>2 DEF CleanupKillSentinel
    <3> QED
      BY <1>1, <2>2, <3>1 DEF SentinelCovers
  <2> QED
    BY <2>1, <2>2
<1>3. \A i \in marked' : i \notin live' /\ born'[i] \in sentinel'
  BY <1>1, <1>2 DEF SentinelCovers
<1>4. \A p \in fresh' : pc'[p] = "kill" => name'[p] \in sentinel'
  BY <1>1, <1>2 DEF SentinelCovers
<1>5. ASSUME NEW p \in Callers, pc'[p] = "query", Reliable(p)'
      PROVE  at'[p] \notin marked'
  <2>1. Reliable(p) /\ at'[p] = at[p]
    BY <1>1, <1>5 DEF Reliable
  <2>2. CASE p = q
    BY <1>2, <2>1, <2>2 DEF Reliable
  <2>3. CASE p # q
    BY <1>1, <1>2, <1>5, <2>1, <2>3 DEF SentinelCovers
  <2> QED
    BY <2>2, <2>3
<1> QED
  BY <1>3, <1>4, <1>5 DEF SentinelCovers

-----------------------------------------------------------------------------
(* The theorems *)

\* The invariant holds at first.
LEMMA SessionInit == Init => SessionInv
<1> SUFFICES ASSUME Init PROVE SessionInv
  OBVIOUS
<1>1. TypeOK
  BY TypeInit
<1>2. SentinelCovers
  BY DEF Init, SentinelCovers
<1>3. \A p \in Callers : SeenGone(p) /\ ListedCovered(p)
  BY DEF Init, SeenGone, ListedCovered, Checking
<1> QED
  BY <1>1, <1>2, <1>3 DEF SessionInv

\* Every step keeps the invariant.
LEMMA SessionStep == SessionInv /\ [Next]_vars => SessionInv'
<1> SUFFICES ASSUME SessionInv, [Next]_vars PROVE SessionInv'
  OBVIOUS
<1> USE DEF SessionInv
<1>1. TypeOK'
  BY TypeStep
<1>2. SentinelCovers'
  BY CoversOtherwise, CoversKill, CoversCleanup
<1>3. ASSUME NEW p \in Callers PROVE SeenGone(p)' /\ ListedCovered(p)'
  BY SeenGoneStep, ListedStep
<1> QED
  BY <1>1, <1>2, <1>3

\* A command knows what it needs to know, in every reachable state.
LEMMA SessionInvariant == Spec => []SessionInv
  BY SessionInit, SessionStep, PTL DEF Spec

\* When killall or reap reports success and tmux has answered its list, every
\* session that was there to be listed is gone.
THEOREM KillAllReachesAll == Spec => []KillAllComplete
<1>1. SessionInv => KillAllComplete
  BY DEF SessionInv, ListedCovered, KillAllComplete
<1> QED
  BY <1>1, SessionInvariant, PTL

\* A hint is printed by EmitHint, in time.
LEMMA HintsInQuery ==
    ASSUME TypeOK, [Next]_vars, NEW p \in Callers, Hints(p)
    PROVE  pc[p] = "query" /\ Reliable(p)
<1> USE DEF TypeOK, Goto
<1>1. pc'[p] = "hinted" /\ pc[p] # "hinted"
  BY DEF Hints
<1>2. Step(p)
  BY <1>1, UntouchedOrStep DEF Untouched
<1>3. ~ Begin(p)
  <2>1. ASSUME Begin(p) PROVE FALSE
    <3>1. \E o \in Operations : \E l \in First(o) : pc'[p] = l
      BY <2>1 DEF Begin
    <3> QED
      BY <1>1, <3>1 DEF First
  <2> QED
    BY <2>1
<1>4. ~ (Stops(p) \/ Launch(p) \/ KillMany(p) \/ KillOne(p))
  BY <1>1 DEF Stops, Launch, NextSessionName, Create, Returns, KillMany, List,
              KillNext, AllKilled, KillOne, WriteKillSentinel, SentinelFails,
              Kill, VerifyDead
<1>5. AttachAndWait(p) => EmitHint(p)
  BY <1>1 DEF AttachAndWait, ResolvePath, Attach, ClientExits, SessionExists,
              CheckKillSentinel, CleanupKillSentinel, NoHint, Expire
<1>6. EmitHint(p)
  BY <1>2, <1>3, <1>4, <1>5 DEF Step
<1> QED
  BY <1>6 DEF EmitHint, QueryInTime, Hints, Reliable

\* A resume hint is only printed when the session that was attached is gone.
THEOREM HintsAreTruthful == Spec => HintTruthful
<1>1. SessionInv /\ [Next]_vars =>
        [\A p \in Callers : Hints(p) => at[p] \notin live]_vars
  BY HintsInQuery DEF SessionInv, SeenGone
<1> QED
  BY <1>1, SessionInvariant, PTL DEF Spec, HintTruthful

\* `oca session kill` suppresses the hints of the session's clients.
THEOREM KillsSuppressHints == Spec => KillSuppressesHint
<1>1. SessionInv /\ [Next]_vars =>
        [\A p \in Callers : Hints(p) => at[p] \notin marked]_vars
  BY HintsInQuery DEF SessionInv, SentinelCovers
<1> QED
  BY <1>1, SessionInvariant, PTL DEF Spec, KillSuppressesHint

=============================================================================
