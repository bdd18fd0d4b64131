--------------------------- MODULE SessionLifecycle ---------------------------
(***************************************************************************)
(* `oca session new | attach | kill | killall | restart | reap`: the       *)
(* commands that create, use and destroy tmux sessions on OCA's socket     *)
(* (internal/session, cmd/oca/session.go).                                 *)
(*                                                                         *)
(* A command is a sequence of tmux calls; what one call has listed may be  *)
(* different when the next one names it.  Sessions live in the tmux        *)
(* server: they end when their programs end, they are idle or not, and     *)
(* clients attach to them.  `attach` outlives its ten seconds of context,  *)
(* and prints a resume hint when the session is gone afterwards, unless    *)
(* `kill` has left a sentinel file.                                        *)
(***************************************************************************)
EXTENDS Naturals, Sequences, FiniteSets

CONSTANTS
    Callers,      \* invocations of the commands
    Names,        \* session names
    Numbered,     \* oca-<slug>-0, oca-<slug>-1, ... of one project, in order
    Managed,      \* the names with the prefix "oca-"
    Longer,       \* the names that a name is a proper prefix of
    Operations,   \* the commands that are run
    Existing,     \* the names of the sessions there are at first
    MaxSessions,  \* bound: sessions ever created
    MaxRuns       \* bound: commands per caller

AllOperations == {"new", "attach", "kill", "killall", "restart", "reap"}

ASSUME NamesAssumption ==
    /\ Managed \subseteq Names /\ Names # {}
    /\ Numbered \in Seq(Managed)
    /\ Longer \in [Names -> SUBSET Names]
    /\ \A n \in Managed : Longer[n] \subseteq Managed
    /\ \A n \in Names : n \notin Longer[n]
    /\ Existing \in Seq(Names)
    /\ \A i, j \in DOMAIN Existing : Existing[i] = Existing[j] => i = j

ASSUME SessionBoundsAssumption ==
    /\ Operations \subseteq AllOperations
    /\ MaxSessions \in Nat
    /\ MaxRuns \in Nat

VARIABLES
    born,       \* the names of the sessions ever created; an index is a session
    live,       \* the sessions that tmux has
    idle,       \* those without activity for longer than the threshold
    sentinel,   \* the files in kill-sentinel/
    pc,         \* where each command is
    op,         \* which command it is
    name,       \* the name it was given or has made up
    todo,       \* the names it still has to kill
    at,         \* the session its client is or was attached to, 0 for none
    expired,    \* its context is past its deadline
    runs,
    listed,     \* history: the sessions there were for it to list
    unanswered, \* history: tmux has not answered, and was read as: no sessions
    fresh,      \* history: the kills whose sentinel nobody has removed
    marked      \* history: the sessions they have killed

tmuxVars == <<born, live, idle>>
localVars == <<op, name, todo, at, expired>>
histVars == <<listed, unanswered, fresh, marked>>
vars == <<tmuxVars, sentinel, pc, localVars, runs, histVars>>

Sessions == DOMAIN born
Ended == {"idle", "done", "failed", "hinted"}
Bulk == {"list", "killing"}
Checking == {"checkSession", "checkSentinel", "cleanFound", "cleanNone",
             "query"}
Labels == Ended \cup Bulk \cup Checking \cup
    {"next", "create", "sentinel", "kill", "verify", "resolve", "connect",
     "attached"}

\* Fields have their types, two sessions never share a name, and what is left
\* to kill in bulk has the prefix.
TypeOK ==
    /\ born \in Seq(Names)
    /\ live \in SUBSET Sessions
    /\ idle \in SUBSET live
    /\ \A i, j \in live : born[i] = born[j] => i = j
    /\ sentinel \in SUBSET Names
    /\ pc \in [Callers -> Labels]
    /\ op \in [Callers -> AllOperations]
    /\ name \in [Callers -> Names]
    /\ todo \in [Callers -> SUBSET Managed]
    /\ at \in [Callers -> Sessions \cup {0}]
    /\ expired \in [Callers -> BOOLEAN]
    /\ runs \in [Callers -> Nat]
    /\ listed \in [Callers -> SUBSET Sessions]
    /\ unanswered \in SUBSET Callers
    /\ fresh \in SUBSET Callers
    /\ marked \in SUBSET Sessions

Init ==
    /\ born = Existing
    /\ live = DOMAIN Existing
    /\ idle = {}
    /\ sentinel = {}
    /\ pc = [p \in Callers |-> "idle"]
    /\ op = [p \in Callers |-> "new"]
    /\ name = [p \in Callers |-> CHOOSE n \in Names : TRUE]
    /\ todo = [p \in Callers |-> {}]
    /\ at = [p \in Callers |-> 0]
    /\ expired = [p \in Callers |-> FALSE]
    /\ runs = [p \in Callers |-> 0]
    /\ listed = [p \in Callers |-> {}]
    /\ unanswered = {}
    /\ fresh = {}
    /\ marked = {}

Goto(p, l) == pc' = [pc EXCEPT ![p] = l]

NamesOf(S) == {born[i] : i \in S}
Named(n) == {i \in live : born[i] = n}

\* What tmux makes of `-t n`: the session of that name, or else the only one
\* whose name starts with it.
Target(n) ==
    LET longer == {i \in live : born[i] \in Longer[n]}
    IN  IF Named(n) # {} THEN Named(n)
        ELSE IF Cardinality(longer) = 1 THEN longer ELSE {}

Clients(i) == {p \in Callers : pc[p] = "attached" /\ at[p] = i}

\* Sessions end, and nobody asks for their activity any more.
EndSessions(S) ==
    /\ live' = live \ S
    /\ idle' = idle \ S

-----------------------------------------------------------------------------
(* Commands *)

\* Seeded fault for KillSuppressesHint: `kill` leaves no sentinel.
FirstUnmarked(o) ==
    CASE o = "new" -> {"next", "create"}
      [] o = "attach" -> {"resolve"}
      [] o \in {"kill", "restart"} -> {"kill"}
      [] OTHER -> {"list"}

\* `new` may be given a name; then it does not make one up.
First(o) ==
    CASE o = "new" -> {"next", "create"}
      [] o = "attach" -> {"resolve"}
      [] o = "kill" -> {"sentinel"}
      [] o = "restart" -> {"kill"}
      [] OTHER -> {"list"}

\* The bulk commands have no name, and `new` may have none yet.
Begin(p) ==
    /\ pc[p] \in Ended
    /\ runs[p] < MaxRuns
    /\ runs' = [runs EXCEPT ![p] = @ + 1]
    /\ \E o \in Operations, n \in Names :
         /\ op' = [op EXCEPT ![p] = o]
         /\ name' = [name EXCEPT ![p] = n]
         /\ \E l \in First(o) :
              /\ l \in {"next", "list"} => n = name[p]
              /\ Goto(p, l)
         /\ fresh' = IF o = "kill" THEN fresh \cup {p} ELSE fresh \ {p}
    /\ todo' = [todo EXCEPT ![p] = {}]
    /\ at' = [at EXCEPT ![p] = 0]
    /\ expired' = [expired EXCEPT ![p] = FALSE]
    /\ listed' = [listed EXCEPT ![p] = {}]
    /\ unanswered' = unanswered \ {p}
    /\ UNCHANGED <<tmuxVars, sentinel, marked>>

\* What tmux lists of S.  list-sessions that fails, times out or is cancelled
\* and has printed nothing is read as: there are no sessions.
Listings(S) == {S, {}}

\* Any other tmux call fails or times out, or the command is killed.
Stops(p) ==
    /\ pc[p] \notin Ended
    /\ Goto(p, "failed")
    /\ UNCHANGED <<tmuxVars, sentinel, localVars, runs, histVars>>

\* One more than the highest number in the list.
NextIndex(S) ==
    LET used == {k \in DOMAIN Numbered : Numbered[k] \in NamesOf(S)}
    IN  CHOOSE k \in 1 .. Len(Numbered) + 1 :
            /\ \A u \in used : u < k
            /\ k = 1 \/ k - 1 \in used

NextSessionName(p) ==
    /\ pc[p] = "next"
    /\ \E L \in Listings(live) :
         /\ NextIndex(L) \in DOMAIN Numbered
         /\ name' = [name EXCEPT ![p] = Numbered[NextIndex(L)]]
    /\ Goto(p, "create")
    /\ UNCHANGED <<tmuxVars, sentinel, op, todo, at, expired, runs, histVars>>

\* tmux refuses a duplicate name.  After `new`, stale sessions are reaped in
\* the background.
Create(p) ==
    /\ pc[p] = "create"
    /\ IF Named(name[p]) # {}
       THEN Goto(p, "failed") /\ UNCHANGED tmuxVars
       ELSE /\ Len(born) < MaxSessions
            /\ born' = Append(born, name[p])
            /\ live' = live \cup {Len(born) + 1}
            /\ Goto(p, IF op[p] = "new" THEN "list" ELSE "done")
            /\ UNCHANGED idle
    /\ UNCHANGED <<sentinel, localVars, runs, histVars>>

-----------------------------------------------------------------------------
(* killall, reap *)

\* Seeded fault for TypeOK and BulkSparesCustom: no filter by prefix.
EveryName(S) == S

ManagedOnly(S) == {i \in S : born[i] \in Managed}

\* session_attached is the number of clients; the code compares it with 1.
ReapCandidates ==
    {i \in ManagedOnly(live) : i \in idle /\ Cardinality(Clients(i)) # 1}

\* With nothing to kill, the command goes on to report success.
List(p) ==
    LET S == IF op[p] = "killall" THEN ManagedOnly(live) ELSE ReapCandidates
    IN  /\ pc[p] = "list"
        /\ \E L \in Listings(S) :
             /\ todo' = [todo EXCEPT ![p] = NamesOf(L)]
             /\ unanswered' = IF L = S THEN unanswered
                              ELSE unanswered \cup {p}
        /\ listed' = [listed EXCEPT ![p] = S]
        /\ Goto(p, "killing")
        /\ UNCHANGED <<tmuxVars, sentinel, op, name, at, expired, runs, fresh,
                       marked>>

\* Seeded fault for KillAllComplete: what a name resolves to counts as killed
\* under that name, and the names that start with it are not tried.
RemainingShort(p, n) == todo[p] \ ({n} \cup Longer[n])

Remaining(p, n) == todo[p] \ {n}

\* The first kill that finds nothing ends the command with an error.
KillNext(p) ==
    /\ pc[p] = "killing"
    /\ \E n \in todo[p] :
         IF Target(n) = {}
         THEN Goto(p, "failed") /\ UNCHANGED <<live, idle, todo>>
         ELSE /\ EndSessions(Target(n))
              /\ todo' = [todo EXCEPT ![p] = Remaining(p, n)]
              /\ UNCHANGED pc
    /\ UNCHANGED <<born, sentinel, op, name, at, expired, runs, histVars>>

AllKilled(p) ==
    /\ pc[p] = "killing"
    /\ todo[p] = {}
    /\ Goto(p, "done")
    /\ UNCHANGED <<tmuxVars, sentinel, localVars, runs, histVars>>

\* `new` has returned: the process ends, and the goroutine with it.
Returns(p) ==
    /\ pc[p] \in Bulk
    /\ op[p] = "new"
    /\ Goto(p, "done")
    /\ UNCHANGED <<tmuxVars, sentinel, localVars, runs, histVars>>

-----------------------------------------------------------------------------
(* kill, restart *)

WriteKillSentinel(p) ==
    /\ pc[p] = "sentinel"
    /\ sentinel' = sentinel \cup {name[p]}
    /\ Goto(p, "kill")
    /\ UNCHANGED <<tmuxVars, localVars, runs, histVars>>

\* The sentinel is best effort.
SentinelFails(p) ==
    /\ pc[p] = "sentinel"
    /\ fresh' = fresh \ {p}
    /\ Goto(p, "kill")
    /\ UNCHANGED <<tmuxVars, sentinel, localVars, runs, listed, unanswered,
                   marked>>

Kill(p) ==
    /\ pc[p] = "kill"
    /\ IF Target(name[p]) = {}
       THEN Goto(p, "failed") /\ UNCHANGED <<live, idle, marked>>
       ELSE /\ EndSessions(Target(name[p]))
            /\ marked' = IF p \in fresh THEN marked \cup Named(name[p])
                         ELSE marked
            /\ Goto(p, IF op[p] = "kill" THEN "done" ELSE "verify")
    /\ UNCHANGED <<born, sentinel, localVars, runs, listed, unanswered,
                   fresh>>

\* Restart polls until the name is no longer listed; names without the prefix
\* never are.
VerifyDead(p) ==
    /\ pc[p] = "verify"
    /\ \E L \in Listings(ManagedOnly(live)) : name[p] \notin NamesOf(L)
    /\ Goto(p, "create")
    /\ UNCHANGED <<tmuxVars, sentinel, localVars, runs, histVars>>

-----------------------------------------------------------------------------
(* attach *)

\* GetSessionPath compares whole names.  A list that tmux does not give is
\* read as: there is no such session, and the command fails (Stops).
ResolvePath(p) ==
    /\ pc[p] = "resolve"
    /\ Goto(p, IF Named(name[p]) = {} THEN "failed" ELSE "connect")
    /\ UNCHANGED <<tmuxVars, sentinel, localVars, runs, histVars>>

\* tmux attach, as a child process.  Attaching counts as activity.
Attach(p) ==
    /\ pc[p] = "connect"
    /\ IF Target(name[p]) = {}
       THEN Goto(p, "failed") /\ UNCHANGED <<idle, at>>
       ELSE /\ \E i \in Target(name[p]) : at' = [at EXCEPT ![p] = i]
            /\ idle' = idle \ Target(name[p])
            /\ Goto(p, "attached")
    /\ UNCHANGED <<born, live, sentinel, op, name, todo, expired, runs,
                   histVars>>

\* The user detaches, or the session has ended: tmux exits.
ClientExits(p) ==
    /\ pc[p] = "attached"
    /\ Goto(p, "checkSession")
    /\ UNCHANGED <<tmuxVars, sentinel, localVars, runs, histVars>>

\* A call that fails, for the expired context or for another reason, is read
\* as: there is no session.
SessionExists(p) ==
    /\ pc[p] = "checkSession"
    /\ \E answered \in {FALSE, ~expired[p]} :
         /\ Goto(p, IF answered /\ Target(name[p]) # {}
                    THEN "done" ELSE "checkSentinel")
         /\ unanswered' = IF answered \/ expired[p] THEN unanswered
                          ELSE unanswered \cup {p}
    /\ UNCHANGED <<tmuxVars, sentinel, localVars, runs, listed, fresh, marked>>

SentinelFound(p) == name[p] \in sentinel

CheckKillSentinel(p) ==
    /\ pc[p] = "checkSentinel"
    /\ Goto(p, IF SentinelFound(p) THEN "cleanFound" ELSE "cleanNone")
    /\ UNCHANGED <<tmuxVars, sentinel, localVars, runs, histVars>>

\* Whoever else was attached to a session of that name finds none any more.
CleanupKillSentinel(p) ==
    /\ pc[p] \in {"cleanFound", "cleanNone"}
    /\ sentinel' = sentinel \ {name[p]}
    /\ IF name[p] \in sentinel
       THEN /\ fresh' = {q \in fresh : name[q] # name[p]}
            /\ marked' = {i \in marked : born[i] # name[p]}
       ELSE UNCHANGED <<fresh, marked>>
    /\ Goto(p, IF pc[p] = "cleanFound" THEN "done" ELSE "query")
    /\ UNCHANGED <<tmuxVars, localVars, runs, listed, unanswered>>

\* Seeded fault for HintTruthful: opencode is asked with a context of its own.
QueryAlways(p) == TRUE

QueryInTime(p) == ~expired[p]

EmitHint(p) ==
    /\ pc[p] = "query"
    /\ QueryInTime(p)
    /\ Goto(p, "hinted")
    /\ UNCHANGED <<tmuxVars, sentinel, localVars, runs, histVars>>

\* No terminal, no opencode, or no session of opencode's in the directory.
NoHint(p) ==
    /\ pc[p] = "query"
    /\ Goto(p, "done")
    /\ UNCHANGED <<tmuxVars, sentinel, localVars, runs, histVars>>

-----------------------------------------------------------------------------
(* The environment *)

\* Ten seconds after `attach` was started.
Expire(p) ==
    /\ pc[p] \in {"attached"} \cup Checking
    /\ expired' = [expired EXCEPT ![p] = TRUE]
    /\ UNCHANGED <<tmuxVars, sentinel, pc, op, name, todo, at, runs, histVars>>

\* The programs in the session end.
SessionEnds(i) ==
    /\ i \in live
    /\ EndSessions({i})
    /\ UNCHANGED <<born, sentinel, pc, localVars, runs, histVars>>

GoesIdle(i) ==
    /\ i \in live
    /\ idle' = idle \cup {i}
    /\ UNCHANGED <<born, live, sentinel, pc, localVars, runs, histVars>>

\* A client types.
Activity(i) ==
    /\ Clients(i) # {}
    /\ idle' = idle \ {i}
    /\ UNCHANGED <<born, live, sentinel, pc, localVars, runs, histVars>>

Launch(p) == NextSessionName(p) \/ Create(p) \/ Returns(p)

KillMany(p) == List(p) \/ KillNext(p) \/ AllKilled(p)

KillOne(p) ==
    WriteKillSentinel(p) \/ SentinelFails(p) \/ Kill(p) \/ VerifyDead(p)

AttachAndWait(p) ==
    \/ ResolvePath(p) \/ Attach(p) \/ ClientExits(p) \/ SessionExists(p)
    \/ CheckKillSentinel(p) \/ CleanupKillSentinel(p) \/ EmitHint(p)
    \/ NoHint(p) \/ Expire(p)

Next ==
    \/ \E p \in Callers :
         \/ Begin(p) \/ Stops(p) \/ Launch(p) \/ KillMany(p) \/ KillOne(p)
         \/ AttachAndWait(p)
    \/ \E i \in Sessions : SessionEnds(i) \/ GoesIdle(i) \/ Activity(i)

Spec == Init /\ [][Next]_vars

-----------------------------------------------------------------------------
(* Correctness *)

\* killall and reap never end a session without the prefix, not even when a
\* name they have listed is gone and tmux resolves it to another session
\* (session.go:647, :757, :800; tmux -t).
BulkSparesCustom ==
    [][\A p \in Callers :
         pc[p] = "killing" /\ todo'[p] # todo[p]
         => NamesOf(live \ live') \subseteq Managed]_vars

\* When killall or reap reports success, every session there was for it to
\* list is gone, whatever else was created or killed in the meantime
\* (session.go:641, cmd/oca/session.go:596).  Not so when tmux has not answered
\* its list: that is read as no sessions, and the success is empty
\* (session.go:215, :740).
KillAllComplete ==
    \A p \in Callers :
        pc[p] = "done" /\ op[p] \in {"killall", "reap"} /\ p \notin unanswered
        => listed[p] \cap live = {}

\* p prints a resume hint, and knows what for: tmux has told it that the
\* session is gone, and has not attached it to a session with a longer name
\* (when the one it asked for ended after ResolvePath).
Hints(p) ==
    /\ pc[p] # "hinted" /\ pc'[p] = "hinted"
    /\ p \notin unanswered
    /\ born[at[p]] = name[p]

\* A resume hint is only printed when the session that was attached has gone,
\* unless tmux has failed to answer: an expired context makes a living session
\* look gone, but then there is no time to ask opencode either
\* (session.go:439, hint.go:119).
HintTruthful ==
    [][\A p \in Callers : Hints(p) => at[p] \notin live]_vars

\* `oca session kill` suppresses the hint of every client of the session,
\* unless tmux has failed to answer the client, the sentinel could not be
\* written, or another client of a session of that name has removed it first
\* (cmd/oca/session.go:475, session.go:445).
KillSuppressesHint ==
    [][\A p \in Callers : Hints(p) => at[p] \notin marked]_vars

\* "Attached sessions are never returned" (session.go:726): what reap lists
\* has no client.
CandidatesDetached ==
    [][\A p \in Callers :
         pc[p] = "list" /\ pc'[p] = "killing" /\ op[p] # "killall"
         => \A i \in listed'[p] : Clients(i) = {}]_vars

=============================================================================
