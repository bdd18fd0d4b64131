---------------------------- MODULE PluginLifecycle ----------------------------
(***************************************************************************)
(* The plugins' checkouts and the commands that move them: `oca apply`     *)
(* (internal/plugin Prepare), `oca update`, `oca pin` and the merges and   *)
(* rebuilds of `oca maintain --execute` (internal/maintain).               *)
(*                                                                         *)
(* A checkout is a git clone with a local branch trunk, the commit that    *)
(* was last fetched, and HEAD, on the branch or detached.  Its build       *)
(* output stays when HEAD moves; only `maintain` writes the marker, from   *)
(* which it plans what to rebuild.  What is in an output is not modelled:  *)
(* that it is there, and the commit in the marker, is all the code looks   *)
(* at.  Only `pin` takes the apply lock: the other commands work on the    *)
(* checkouts with what they have loaded.                                   *)
(***************************************************************************)
EXTENDS Naturals, Sequences, FiniteSets, SequencesExt

CONSTANTS
    Callers,     \* invocations of the commands
    Plugins,     \* the enabled plugins with a git source
    Order,       \* their names, sorted
    Advance,     \* the plugin whose archived changes `maintain` merges
    Commits,
    Before,      \* the ancestors of a commit
    Published,   \* the commits of the remote branch, in order
    Change,      \* the tip of the branch of a released change
    Cloned,      \* the plugins that have a checkout at first
    Odd,         \* the checkouts that are symlinks, or of another origin
    Edited,      \* the plugins whose checkouts the user edits
    Compiled,    \* the plugins with build commands
    Prebuilt,    \* the plugins whose repository has their dist index
    Operations,  \* the commands that are run
    Alone,       \* those that nobody runs next to another command
    MaxRuns      \* bound: commands per caller

None == "none"
Trunk == "trunk"
AllOperations == {"apply", "update", "force", "pin", "maintain"}
Refs == {Trunk} \cup Commits

ASSUME GitAssumption ==
    /\ {None, Trunk} \cap Commits = {}
    /\ Before \in [Commits -> SUBSET Commits]
    /\ Published \in Seq(Commits) /\ Published # << >>
    /\ Change \in Commits
    /\ None \notin Callers

ASSUME AncestorAssumption ==
    \A k \in Commits : /\ k \notin Before[k]
                       /\ \A j \in Before[k] : Before[j] \subseteq Before[k]

ASSUME PluginAssumption ==
    /\ Order \in Seq(Plugins) /\ Range(Order) = Plugins
    /\ Advance \in Plugins
    /\ Cloned \in SUBSET Plugins /\ Odd \in SUBSET Cloned
    /\ Edited \in SUBSET Plugins
    /\ Compiled \in SUBSET Plugins /\ Prebuilt \in SUBSET Plugins
    /\ Operations \subseteq AllOperations /\ Alone \subseteq Operations
    /\ MaxRuns \in Nat

VARIABLES
    remote,     \* how many commits of Published there are
    file,       \* the refs in stack.toml
    lock,       \* the holder of the apply lock
    repo,       \* the checkouts
    dist,       \* the plugins whose dist index is there
    marker,     \* the commit in dist/oca-build.json
    pc,         \* where each command is
    op,         \* which command it is
    todo,       \* its <<step, plugin>> pairs ahead, the first one at work
    refs,       \* the refs it has loaded
    sha,        \* the commit that a pin has captured
    next,       \* the refs that a pin is about to write
    runs,
    asked,      \* history: the commits the user has asked for
    pinned,     \* history: the refs that pins have written last
    merged,     \* history: the commits that maintenance has merged
    owed        \* history: the commits whose rebuild maintenance has not ended

gitVars == <<remote, repo, dist, marker>>
localVars == <<op, todo, refs, sha, next>>
histVars == <<asked, pinned, merged, owed>>
vars == <<gitVars, file, lock, pc, localVars, runs, histVars>>

Ended == {"idle", "done", "failed"}
Labels == Ended \cup {"lock", "next", "clone", "fetch", "checkout", "build",
                      "building", "mark", "read", "rename", "merge"}
Steps == {"prepare", "update", "pin", "merge", "rebuild"}

Absent == [there |-> FALSE, trunk |-> None, origin |-> None, at |-> None,
           dirty |-> FALSE]
CloneAt(k) == [there |-> TRUE, trunk |-> k, origin |-> k, at |-> Trunk,
               dirty |-> FALSE]

HeadOf(r) == IF r.at = Trunk THEN r.trunk ELSE r.at
HeadAt(p) == HeadOf(repo[p])

\* The plugin a command is at work on.
At(c) == todo[c][1][2]
Step(c) == todo[c][1][1]

\* Fields have their types, a command that is at work on a plugin has one,
\* and the lock has the pin that writes stack.toml.
TypeOK ==
    /\ remote \in 1..Len(Published)
    /\ file \in [Plugins -> Refs]
    /\ lock \in {None} \cup Callers
    /\ repo \in [Plugins -> [there : BOOLEAN, trunk : {None} \cup Commits,
                             origin : {None} \cup Commits,
                             at : {None, Trunk} \cup Commits,
                             dirty : BOOLEAN]]
    /\ dist \in SUBSET Plugins
    /\ marker \in [Plugins -> {None} \cup Commits]
    /\ pc \in [Callers -> Labels]
    /\ op \in [Callers -> AllOperations]
    /\ todo \in [Callers -> Seq(Steps \X Plugins)]
    /\ refs \in [Callers -> [Plugins -> Refs]]
    /\ sha \in [Callers -> {None} \cup Commits]
    /\ next \in [Callers -> [Plugins -> Refs]]
    /\ runs \in [Callers -> 0..MaxRuns]
    /\ \A p \in Plugins : repo[p].there => HeadAt(p) \in Commits
    /\ \A c \in Callers :
         /\ pc[c] \notin Ended \cup {"lock", "next"} => todo[c] # << >>
         /\ pc[c] \in {"read", "rename"} => lock = c
         /\ pc[c] \in Ended => lock # c

Init ==
    /\ remote = 1
    /\ file = [p \in Plugins |-> Trunk]
    /\ lock = None
    /\ repo = [p \in Plugins |->
                 IF p \in Cloned THEN CloneAt(Published[1]) ELSE Absent]
    /\ dist = Cloned \cap Prebuilt
    /\ marker = [p \in Plugins |-> None]
    /\ pc = [c \in Callers |-> "idle"]
    /\ op = [c \in Callers |-> "apply"]
    /\ todo = [c \in Callers |-> << >>]
    /\ refs = [c \in Callers |-> file]
    /\ sha = [c \in Callers |-> None]
    /\ next = [c \in Callers |-> file]
    /\ runs = [c \in Callers |-> 0]
    /\ asked = [p \in Plugins |-> {Published[1]}]
    /\ pinned = file
    /\ merged = {}
    /\ owed = [p \in Plugins |-> {}]
--------------------------------------------------------------------------------
Goto(c, l) == pc' = [pc EXCEPT ![c] = l]

\* Mutant: the lock stays held.
KeepLock(c) == lock' = lock

Release(c) == lock' = IF lock = c THEN None ELSE lock

\* The command returns an error, or is interrupted: the kernel drops its lock.
Quit(c) ==
    /\ pc[c] \notin Ended
    /\ Goto(c, "failed")
    /\ todo' = [todo EXCEPT ![c] = << >>]
    /\ Release(c)
    /\ UNCHANGED <<gitVars, file, op, refs, sha, next, runs, histVars>>

\* On to the next plugin.
Drop(c) ==
    /\ todo' = [todo EXCEPT ![c] = Tail(@)]
    /\ Goto(c, "next")

\* What a command does, in order: `force` is `update --force`.
Work(o) ==
    CASE o = "apply" -> [i \in DOMAIN Order |-> <<"prepare", Order[i]>>]
      [] o = "pin" -> [i \in DOMAIN Order |-> <<"pin", Order[i]>>]
      [] o \in {"update", "force"} ->
           [i \in DOMAIN Order |-> <<"update", Order[i]>>]

MayStart(o) ==
    \A d \in Callers : pc[d] \notin Ended => {o, op[d]} \cap Alone = {}

Start(c, o, work) ==
    /\ pc[c] \in Ended
    /\ runs[c] < MaxRuns
    /\ o \in Operations
    /\ MayStart(o)
    /\ runs' = [runs EXCEPT ![c] = @ + 1]
    /\ op' = [op EXCEPT ![c] = o]
    /\ refs' = [refs EXCEPT ![c] = file]
    /\ todo' = [todo EXCEPT ![c] = work]
    /\ Goto(c, IF o = "pin" THEN "lock" ELSE "next")
    /\ UNCHANGED <<gitVars, file, lock, sha, next, histVars>>

Begin(c) ==
    \E o \in Operations \ {"maintain"} : Start(c, o, Work(o))

\* Mutant: any marker will do.
EverMarked(p) == marker[p] # None /\ p \in dist

\* DetectPluginDrift: what the marker says of the checkout.
Fresh(p) == marker[p] = HeadAt(p) /\ p \in dist

\* The plan of `maintain`: the merge, if Advance has released the change, then
\* the rebuilds, in the order of a Go map.  Which plugins need one is decided
\* before the merge moves HEAD.
BeginMaintain(c) ==
    /\ \E released \in BOOLEAN :
       \E stale \in SetToSeqs({p \in Plugins : repo[p].there /\ ~Fresh(p)}) :
         Start(c, "maintain",
               (IF released /\ repo[Advance].there
                THEN << <<"merge", Advance>> >> ELSE << >>)
               \o [i \in DOMAIN stale |-> <<"rebuild", stale[i]>>])

AcquireApplyLock(c) ==
    /\ pc[c] = "lock"
    /\ lock = None
    /\ lock' = c
    /\ Goto(c, "next")
    /\ UNCHANGED <<gitVars, file, localVars, runs, histVars>>

Finish(c) ==
    /\ pc[c] = "next"
    /\ todo[c] = << >>
    /\ Release(c)
    /\ Goto(c, "done")
    /\ UNCHANGED <<gitVars, file, localVars, runs, histVars>>

At1(c, s) == pc[c] = "next" /\ todo[c] # << >> /\ Step(c) = s
--------------------------------------------------------------------------------
\* Prepare, up to its fetch: a checkout of another origin, a symlink and one
\* with changes are refused.
Inspect(c) ==
    /\ At1(c, "prepare")
    /\ Goto(c, IF repo[At(c)].there THEN "fetch" ELSE "clone")
    /\ repo[At(c)].there => At(c) \notin Odd /\ ~repo[At(c)].dirty
    /\ UNCHANGED <<gitVars, file, lock, localVars, runs, histVars>>

\* `git clone --branch` knows branches and tags, and no SHA.
Clone(c) ==
    LET p == At(c) IN
    /\ pc[c] = "clone"
    /\ ~repo[p].there
    /\ refs[c][p] = Trunk
    /\ repo' = [repo EXCEPT ![p] = CloneAt(Published[remote])]
    /\ asked' = [asked EXCEPT ![p] = @ \cup {Published[remote]}]
    /\ dist' = dist \cup ({p} \cap Prebuilt)
    /\ Goto(c, "build")
    /\ UNCHANGED <<remote, marker, file, lock, localVars, runs, pinned, merged,
                   owed>>

\* An update passes over the plugins that are pinned, unless it is forced.
Skipped(c) == op[c] = "update" /\ refs[c][At(c)] # Trunk

SkipPinned(c) ==
    /\ At1(c, "update") /\ Skipped(c)
    /\ Drop(c)
    /\ UNCHANGED <<gitVars, file, lock, op, refs, sha, next, runs, histVars>>

\* `git fetch --all`; an update fetches at once.
Fetch(c) ==
    /\ \/ pc[c] = "fetch"
       \/ At1(c, "update") /\ ~Skipped(c) /\ repo[At(c)].there
    /\ repo' = [repo EXCEPT ![At(c)].origin = Published[remote]]
    /\ Goto(c, "checkout")
    /\ UNCHANGED <<remote, dist, marker, file, lock, localVars, runs, histVars>>

\* The commits that a clone has.
Known(r) == {r.trunk, r.origin} \cup Before[r.trunk] \cup Before[r.origin]

\* `git checkout origin/<ref>` detaches HEAD at the commit that was fetched.
UpdateRef(r, ref) == [r EXCEPT !.at = IF ref = Trunk THEN r.origin ELSE ref]

\* `git checkout <ref>`: a branch, or a detached commit.
CheckoutRef(r, ref) == [r EXCEPT !.at = ref]

\* With changes in the way git refuses, which is an error, or keeps them.
Checkout(c) ==
    LET p == At(c)
        ref == refs[c][p]
        r == IF Step(c) = "update" THEN UpdateRef(repo[p], ref)
             ELSE CheckoutRef(repo[p], ref)
    IN  /\ pc[c] = "checkout"
        /\ ref = Trunk \/ ref \in Known(repo[p])
        /\ repo' = [repo EXCEPT ![p] = r]
        /\ asked' = IF Step(c) = "update"
                    THEN [asked EXCEPT ![p] = @ \cup {HeadOf(r)}] ELSE asked
        /\ Goto(c, "build")
        /\ UNCHANGED <<remote, dist, marker, file, lock, op, todo, refs, sha,
                       next, runs, pinned, merged, owed>>

\* RunBuild starts: only `maintain` will have something to mark.
BuildStarts(c) ==
    LET p == At(c) IN
    /\ \/ pc[c] = "build"
       \/ At1(c, "rebuild")
    /\ owed' = IF Step(c) = "rebuild"
               THEN [owed EXCEPT ![p] = @ \cup {HeadAt(p)}] ELSE owed
    /\ Goto(c, "building")
    /\ UNCHANGED <<gitVars, file, lock, localVars, runs, asked, pinned, merged>>

\* Without build commands there is nothing to run, and `maintain` goes on to
\* its marker all the same.
BuildEnds(c) ==
    /\ pc[c] = "building"
    /\ dist' = dist \cup ({At(c)} \cap Compiled)
    /\ IF Step(c) = "rebuild"
       THEN /\ Goto(c, "mark")
            /\ owed' = [owed EXCEPT ![At(c)] = @ \ {HeadAt(At(c))}]
            /\ UNCHANGED todo
       ELSE Drop(c) /\ UNCHANGED owed
    /\ UNCHANGED <<remote, repo, marker, file, lock, op, refs, sha, next, runs,
                   asked, pinned, merged>>

\* WriteBuildMarker reads HEAD when the build is over.
MarkedCommit(c) == HeadAt(At(c))

WriteBuildMarker(c) ==
    LET p == At(c) IN
    /\ pc[c] = "mark"
    /\ marker' = [marker EXCEPT ![p] = MarkedCommit(c)]
    /\ Drop(c)
    /\ UNCHANGED <<remote, repo, dist, file, lock, op, refs, sha, next, runs,
                   histVars>>
--------------------------------------------------------------------------------
\* CapturePin; WritePin has nothing to write when the ref that was loaded is
\* the commit.
CapturePin(c) ==
    LET p == At(c) IN
    /\ At1(c, "pin")
    /\ repo[p].there
    /\ sha' = [sha EXCEPT ![c] = HeadAt(p)]
    /\ IF refs[c][p] = HeadAt(p) THEN Drop(c)
       ELSE Goto(c, "read") /\ UNCHANGED todo
    /\ UNCHANGED <<gitVars, file, lock, op, refs, next, runs, histVars>>

\* Mutant: it edits what it has loaded before it had the lock.
EditLoaded(c, p) == [refs[c] EXCEPT ![p] = sha[c]]

\* WritePin reads stack.toml again: it edits what others have written since.
EditRef(c, p) == [file EXCEPT ![p] = sha[c]]

ReadStack(c) ==
    /\ pc[c] = "read"
    /\ next' = [next EXCEPT ![c] = EditRef(c, At(c))]
    /\ Goto(c, "rename")
    /\ UNCHANGED <<gitVars, file, lock, op, todo, refs, sha, runs, histVars>>

WritePin(c) ==
    /\ pc[c] = "rename"
    /\ file' = next[c]
    /\ pinned' = [pinned EXCEPT ![At(c)] = sha[c]]
    /\ Drop(c)
    /\ UNCHANGED <<gitVars, lock, op, refs, sha, next, runs, asked, merged,
                   owed>>

\* Mutant: the branch is not checked.
AnyBranch(r, ref) == r.there

\* requireExpectedBranch, requireCleanGitTree: a pinned ref is no branch.
OnExpectedBranch(r, ref) == ref = Trunk /\ r.at = Trunk

CheckMerge(c) ==
    /\ At1(c, "merge")
    /\ OnExpectedBranch(repo[At(c)], refs[c][At(c)])
    /\ ~repo[At(c)].dirty
    /\ Goto(c, "merge")
    /\ UNCHANGED <<gitVars, file, lock, localVars, runs, histVars>>

\* `git merge --ff-only`: HEAD, and its branch, move to a descendant only.
FastForward(from, to) == from \in Before[to]

Merge(c) ==
    LET p == At(c)
        k == IF FastForward(HeadAt(p), Change) THEN Change ELSE HeadAt(p)
        r == IF repo[p].at = Trunk THEN [repo[p] EXCEPT !.trunk = k]
             ELSE [repo[p] EXCEPT !.at = k]
    IN  /\ pc[c] = "merge"
        /\ \/ FastForward(HeadAt(p), Change)
           \/ Change = HeadAt(p) \/ Change \in Before[HeadAt(p)]
        /\ repo' = [repo EXCEPT ![p] = r]
        /\ owed' = IF k # HeadAt(p) THEN [owed EXCEPT ![p] = @ \cup {k}]
                   ELSE owed
        /\ merged' = merged \cup {Change}
        /\ asked' = [asked EXCEPT ![p] = @ \cup {Change}]
        /\ Drop(c)
        /\ UNCHANGED <<remote, dist, marker, file, lock, op, refs, sha, next,
                       runs, pinned>>
--------------------------------------------------------------------------------
Publish ==
    /\ remote < Len(Published)
    /\ remote' = remote + 1
    /\ UNCHANGED <<repo, dist, marker, file, lock, pc, localVars, runs,
                   histVars>>

\* The user starts to edit a checkout, or stashes the changes.
EditCheckout(p) ==
    /\ repo[p].there
    /\ repo' = [repo EXCEPT ![p].dirty = ~@]
    /\ UNCHANGED <<remote, dist, marker, file, lock, pc, localVars, runs,
                   histVars>>

Command(c) ==
    \/ Begin(c) \/ BeginMaintain(c) \/ AcquireApplyLock(c) \/ Finish(c)
    \/ Inspect(c) \/ Clone(c) \/ SkipPinned(c) \/ Fetch(c) \/ Checkout(c)
    \/ BuildStarts(c) \/ BuildEnds(c) \/ WriteBuildMarker(c)
    \/ CapturePin(c) \/ ReadStack(c) \/ WritePin(c)
    \/ CheckMerge(c) \/ Merge(c) \/ Quit(c)

Next ==
    \/ \E c \in Callers : Command(c)
    \/ \E p \in Edited : EditCheckout(p)
    \/ Publish

Spec == Init /\ [][Next]_vars
--------------------------------------------------------------------------------
\* No pin loses what another pin has written, of any plugin, when they overlap:
\* stack.toml has the refs that were pinned last.
PinsSurvive == file = pinned

\* "`oca apply` should not pull new commits from tracking refs unless
\* explicitly asked via `oca update`": HEAD is never at a commit that only an
\* apply has fetched.
NoSilentUpdate == \A p \in Plugins : repo[p].there => HeadAt(p) \in asked[p]

\* "Partial failure after merge before rebuild: idempotent rerun detects
\* stale/missing marker and retries rebuild" (maintenance design.md:338): while
\* HEAD is at a commit that maintenance has merged, or begun to rebuild, and has
\* not rebuilt since, whatever other commands have built in between, the next
\* plan rebuilds it (internal/maintain/plugin_drift.go:69, execute.go:114).
RebuildsRetried ==
    \A p \in Plugins :
      repo[p].there /\ HeadAt(p) \in owed[p] => ~Fresh(p)

\* What maintenance has merged stays on the plugin's branch, whatever the other
\* commands check out: the branch only moves forward.
MergesStay ==
    \A k \in merged : k = repo[Advance].trunk \/ k \in Before[repo[Advance].trunk]
================================================================================
